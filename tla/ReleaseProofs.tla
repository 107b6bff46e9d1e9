---------------------------- MODULE ReleaseProofs ----------------------------
(***************************************************************************)
(* What is queued for a release was signed, for every set of channels,     *)
(* every history of what upstream publishes and signs, and whatever is     *)
(* edited or fails in between.                                             *)
(***************************************************************************)
EXTENDS ReleaseResolve, TLAPS

\* Somebody vouches for what goes to a destination: there is a signature for
\* the payload, or the channel it comes from does without.
Vouched(d, sig, s) ==
    \/ PayloadOf(d[1], d[2]) \in signed
    \/ \E i \in DOMAIN s.channels : /\ s.channels[i].skipVerify
                                    /\ ReleaseChannelSignature(s.channels[i], s) = sig

RunOK(r) ==
    /\ {"spec", "channel", "new"} \subseteq DOMAIN r
    /\ r.spec \in Specs /\ r.channel \in Nat \ {0}

SignInv ==
    /\ signed \subseteq DOMAIN Payloads /\ spec \in Specs
    /\ \A r \in run : RunOK(r)
    /\ \A r \in run : \A d \in DOMAIN r.new : d \in DOMAIN entries \/ Vouched(d, r.new[d].sig, r.spec)

LEMMA SignInit == Init => SignInv
  BY ReleaseAssumption DEF Init, SignInv

\* Signatures do not go away.
LEMMA SignMore ==
    ASSUME SignInv, run' = run, entries' = entries, signed \subseteq signed',
           signed' \subseteq DOMAIN Payloads, spec' \in Specs
    PROVE  SignInv'
<1>1. \A d, sig, s : Vouched(d, sig, s) => Vouched(d, sig, s)'
  BY DEF Vouched
<1> QED BY <1>1 DEF SignInv, RunOK

\* What verifyReleaseNodes lets pass.
LEMMA VerifiedIsVouched ==
    ASSUME NEW s, NEW ch, NEW k, NEW happened, NEW v \in Probe(s, ch, k, happened).nodes
    PROVE  ch.skipVerify \/ PayloadOf(v, s.arches[k]) \in signed
<1> DEFINE g == ResolveReleaseNodes(ch, history[now][<<ch.name, s.arches[k]>>])
           verified == verifyReleaseNodes(ch, s.arches[k], g.nodes, happened.unavailable)
<1>1. Probe(s, ch, k, happened).nodes \in {{}, verified}
  <2> HIDE DEF g, verified
  <2>1. Probe(s, ch, k, happened) =
          IF ~g.ok \/ k \in happened.down THEN [outcome |-> "error", nodes |-> {}]
          ELSE IF g.nodes # <<>> /\ verified = {} THEN [outcome |-> "rejected", nodes |-> {}]
          ELSE [outcome |-> "ok", nodes |-> verified]
    BY Zenon DEF Probe, g, verified
  <2> QED BY <2>1
<1>2. v \in verified
  BY <1>1
<1> HIDE DEF g
<1> QED BY <1>2 DEF verifyReleaseNodes

\* Where the content of a payload goes.
LEMMA CollectedUnder ==
    ASSUME NEW s, NEW nodes, NEW picks, NEW unopened,
           NEW d \in DOMAIN CollectReleasesForChannel(s, nodes, picks, unopened)
    PROVE  \E k \in DOMAIN nodes : d[1] \in nodes[k] /\ d[2] = s.arches[k]
<1> DEFINE from(k, v) == collectNode(v, s.arches[k], IF k = 1 THEN picks[v] ELSE NoDisk,
                                     PayloadOf(v, s.arches[k]) \notin unopened)
           written == UNION {UNION {DOMAIN from(k, v) : v \in nodes[k]} : k \in DOMAIN nodes}
<1>1. \A k, v : \A x \in DOMAIN from(k, v) : x[1] = v /\ x[2] = s.arches[k]
  BY DEF collectNode, Destination
<1>2. DOMAIN CollectReleasesForChannel(s, nodes, picks, unopened) = written
  <2> DEFINE writers(x) == {k \in DOMAIN nodes : x[1] \in nodes[k] /\ x \in DOMAIN from(k, x[1])}
  <2>1. CollectReleasesForChannel(s, nodes, picks, unopened) =
          [x \in written |-> from(Max(writers(x)), x[1])[x]]
    BY Zenon DEF CollectReleasesForChannel
  <2> HIDE DEF written, writers, from
  <2> QED BY <2>1
<1> HIDE DEF from
<1>3. PICK k \in DOMAIN nodes : \E v \in nodes[k] : d \in DOMAIN from(k, v)
  BY <1>2
<1> QED BY <1>1, <1>3

LEMMA SignNext == SignInv /\ [Next]_vars => SignInv'
<1> SUFFICES ASSUME SignInv, [Next]_vars PROVE SignInv'
  OBVIOUS
<1>1. CASE UNCHANGED vars \/ Publish \/ Sign \/ Edit
  <2>1. run' = run /\ entries' = entries
    BY <1>1 DEF vars, Publish, Sign, Edit
  <2>2. signed \subseteq signed' /\ signed' \subseteq DOMAIN Payloads
    BY <1>1 DEF vars, upstreamVars, Publish, Sign, Edit, SignInv
  <2>3. spec' \in Specs
    BY <1>1 DEF vars, Publish, Sign, Edit, SignInv
  <2> QED BY <2>1, <2>2, <2>3, SignMore
<1>2. CASE StartResolve
  <2>1. /\ run' = {[spec |-> spec, channel |-> 1, recollect |-> recollect, new |-> NoEntries,
                    annotations |-> annotations, error |-> FALSE]}
        /\ signed' = signed /\ spec' = spec /\ entries' = entries
    BY <1>2 DEF StartResolve, upstreamVars
  <2>2. DOMAIN NoEntries = {}
    BY DEF NoEntries
  <2> QED BY <2>1, <2>2 DEF SignInv, RunOK
<1>3. CASE FinishResolve
  <2>1. run' = {} /\ signed' = signed /\ spec' = spec
    BY <1>3 DEF FinishResolve, upstreamVars
  <2> QED BY <2>1 DEF SignInv
<1>4. CASE ResolveChannel
  <2>1. signed' = signed /\ spec' = spec /\ entries' = entries
    BY <1>4 DEF ResolveChannel, upstreamVars
  <2>0. PICK r \in run, happened \in Happenings :
      LET s == r.spec
          ch == s.channels[r.channel]
          sig == ReleaseChannelSignature(ch, s)
          probes == [k \in DOMAIN s.arches |-> Probe(s, ch, k, happened)]
          nodes == [k \in DOMAIN probes |-> probes[k].nodes]
          failed == \E k \in DOMAIN probes : probes[k].outcome # "ok"
          payloads == UNION {{PayloadOf(v, s.arches[k]) : v \in nodes[k]} : k \in DOMAIN nodes}
          cached == sig \in DOMAIN r.annotations /\ r.annotations[sig] = payloads
      IN  /\ r.channel <= Len(s.channels)
          /\ faults' = faults + (IF happened = Smooth THEN 0 ELSE 1)
          /\ IF failed THEN Keep(r, sig, TRUE)
             ELSE IF payloads = {} \/ (cached /\ ~r.recollect) THEN Keep(r, sig, FALSE)
             ELSE Collect(r, sig, nodes, payloads, happened.unopened)
          /\ UNCHANGED <<upstreamVars, spec, recollect, annotations, entries, fresh, edits, resolves>>
    BY <1>4, Zenon DEF ResolveChannel
  <2> DEFINE s == r.spec
             ch == s.channels[r.channel]
             sig == ReleaseChannelSignature(ch, s)
             probes == [k \in DOMAIN s.arches |-> Probe(s, ch, k, happened)]
             nodes == [k \in DOMAIN probes |-> probes[k].nodes]
             failed == \E k \in DOMAIN probes : probes[k].outcome # "ok"
             payloads == UNION {{PayloadOf(v, s.arches[k]) : v \in nodes[k]} : k \in DOMAIN nodes}
             cached == sig \in DOMAIN r.annotations /\ r.annotations[sig] = payloads
  <2>2. /\ r.channel <= Len(s.channels)
        /\ \/ Keep(r, sig, TRUE) \/ Keep(r, sig, FALSE)
           \/ Collect(r, sig, nodes, payloads, happened.unopened)
    <3>1. /\ r.channel <= Len(s.channels)
          /\ IF failed THEN Keep(r, sig, TRUE)
             ELSE IF payloads = {} \/ (cached /\ ~r.recollect) THEN Keep(r, sig, FALSE)
             ELSE Collect(r, sig, nodes, payloads, happened.unopened)
      BY <2>0, Zenon
    <3> HIDE DEF failed, cached, payloads, nodes, sig, s
    <3> QED BY <3>1, Zenon
  <2>3. RunOK(r) /\ \A d \in DOMAIN r.new : d \in DOMAIN entries \/ Vouched(d, r.new[d].sig, s)
    BY DEF SignInv
  <2>4. r.channel \in DOMAIN s.channels /\ r.channel + 1 \in Nat \ {0}
    <3>1. s.channels \in Seq(ToSet(s.channels)) /\ r.channel \in Nat \ {0}
      BY <2>3, ReleaseAssumption DEF RunOK
    <3>2. r.channel <= Len(s.channels)
      BY <2>2
    <3> QED BY <3>1, <3>2
  <2>5. \A d, g, x : Vouched(d, g, x)' = Vouched(d, g, x)
    BY <2>1 DEF Vouched
  <2>6. ASSUME NEW q, run' = {q}, DOMAIN q = DOMAIN r, q.spec = s, q.channel = r.channel + 1,
               \A d \in DOMAIN q.new : d \in DOMAIN entries \/ Vouched(d, q.new[d].sig, s)
        PROVE  SignInv'
    <3>1. RunOK(q)
      BY <2>3, <2>4, <2>6 DEF RunOK
    <3>2. signed \subseteq DOMAIN Payloads /\ spec \in Specs
      BY DEF SignInv
    <3>3. \A x \in run' : x = q
      BY <2>6
    <3> HIDE DEF s
    <3> QED BY <2>1, <2>5, <2>6, <3>1, <3>2, <3>3 DEF SignInv, RunOK
  <2>7. CASE Keep(r, sig, TRUE) \/ Keep(r, sig, FALSE)
    <3> HIDE DEF sig
    <3>1. PICK error : run' = {[r EXCEPT !.channel = @ + 1, !.new = carryOver(@, sig), !.error = @ \/ error]}
      BY <2>7, Zenon DEF Keep
    <3> DEFINE new == carryOver(r.new, sig)
               q == [r EXCEPT !.channel = r.channel + 1, !.new = new, !.error = r.error \/ error]
    <3>2. \A d \in DOMAIN new : d \in DOMAIN entries \/ Vouched(d, new[d].sig, s)
      BY <2>3 DEF carryOver
    <3>3. run' = {q}
      BY <3>1, Zenon
    <3> HIDE DEF new
    <3>4. DOMAIN q = DOMAIN r /\ q.spec = s /\ q.channel = r.channel + 1 /\ q.new = new
      BY <2>3 DEF RunOK
    <3> HIDE DEF q
    <3> QED BY <2>6, <3>2, <3>3, <3>4
  <2>8. CASE Collect(r, sig, nodes, payloads, happened.unopened)
    <3>1. PICK picks : run' = {[r EXCEPT !.channel = @ + 1,
                                   !.new = mergeIntoState(@, CollectReleasesForChannel(
                                               r.spec, nodes, picks, happened.unopened), sig),
                                   !.annotations = Remember(@, sig, payloads)]}
      <4> HIDE DEF nodes, sig, payloads
      <4> QED BY <2>8, Zenon DEF Collect
    <3> DEFINE images == CollectReleasesForChannel(s, nodes, picks, happened.unopened)
               new == mergeIntoState(r.new, images, sig)
               annos == Remember(r.annotations, sig, payloads)
               q == [r EXCEPT !.channel = r.channel + 1, !.new = new, !.annotations = annos]
    <3>2. \A d \in DOMAIN images : Vouched(d, sig, s)
      <4> SUFFICES ASSUME NEW d \in DOMAIN images PROVE Vouched(d, sig, s)
        OBVIOUS
      <4> HIDE DEF nodes
      <4>1. PICK k \in DOMAIN nodes : d[1] \in nodes[k] /\ d[2] = s.arches[k]
        BY CollectedUnder
      <4>2. nodes[k] = Probe(s, ch, k, happened).nodes
        BY <4>1 DEF nodes
      <4>3. ch.skipVerify \/ PayloadOf(d[1], d[2]) \in signed
        BY <4>1, <4>2, VerifiedIsVouched
      <4> QED BY <2>4, <4>3 DEF Vouched
    <3> HIDE DEF sig, payloads, nodes
    <3>3. run' = {q}
      BY <3>1, Zenon
    <3> HIDE DEF images, annos
    <3>4. \A d \in DOMAIN new : d \in DOMAIN entries \/ Vouched(d, new[d].sig, s)
      <4>1. \A d \in DOMAIN new : \/ d \in DOMAIN images /\ new[d].sig = sig
                                  \/ d \in DOMAIN r.new /\ new[d] = r.new[d]
        BY DEF mergeIntoState
      <4> HIDE DEF new
      <4> QED BY <2>3, <3>2, <4>1
    <3> HIDE DEF new
    <3>5. DOMAIN q = DOMAIN r /\ q.spec = s /\ q.channel = r.channel + 1 /\ q.new = new
      BY <2>3 DEF RunOK
    <3> HIDE DEF q
    <3> QED BY <2>6, <3>3, <3>4, <3>5
  <2> QED BY <2>2, <2>7, <2>8
<1> QED BY <1>1, <1>2, <1>3, <1>4 DEF Next

\* Only the end of a resolve adds entries.
LEMMA QueuedIsVouched ==
    ASSUME SignInv, [Next]_vars, NEW d \in DOMAIN entries' \ DOMAIN entries
    PROVE  \E r \in run : Vouched(d, entries'[d].sig, r.spec)
<1>1. FinishResolve
  BY DEF Next, vars, Publish, Sign, Edit, StartResolve, ResolveChannel
<1>2. PICK r \in run : entries' = filterBlocked(r.new, r.spec)
  BY <1>1 DEF FinishResolve
<1>3. d \in DOMAIN r.new /\ entries'[d] = r.new[d]
  BY <1>2 DEF filterBlocked
<1> QED BY <1>3 DEF SignInv

(***************************************************************************)
(* No payload is queued, nor anything it contains, unless verifyReleaseNodes *)
(* found a signature for it or the channel says to do without: not from    *)
(* the cache, not after an edit, and not because another version or        *)
(* architecture of the channel was signed.                                 *)
(***************************************************************************)
THEOREM OnlySignedIsQueued == Spec => UnsignedNeverQueued
<1> DEFINE Good ==
      \A d \in DOMAIN entries' \ DOMAIN entries :
          \/ PayloadOf(d[1], d[2]) \in signed
          \/ \E r \in run : \E i \in DOMAIN r.spec.channels :
                /\ r.spec.channels[i].skipVerify
                /\ ReleaseChannelSignature(r.spec.channels[i], r.spec) = entries'[d].sig
<1>1. SignInv /\ [Next]_vars => [Good]_vars
  <2> SUFFICES ASSUME SignInv, [Next]_vars PROVE Good
    OBVIOUS
  <2>1. \A d \in DOMAIN entries' \ DOMAIN entries : \E r \in run : Vouched(d, entries'[d].sig, r.spec)
    BY QueuedIsVouched
  <2> QED BY <2>1 DEF Vouched
<1>2. Spec => [][Good]_vars
  <2> HIDE DEF Good
  <2> QED BY <1>1, SignInit, SignNext, PTL DEF Spec
<1> QED BY <1>2 DEF UnsignedNeverQueued
=============================================================================
