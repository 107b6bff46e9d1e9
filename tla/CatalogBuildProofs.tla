-------------------------- MODULE CatalogBuildProofs --------------------------
(***************************************************************************)
(* Proofs about the way from an upstream catalog to the filtered one: for  *)
(* any number of channels, catalogs, filters and images, any edits,        *)
(* publications and polls, and any faults but the ones named below.        *)
(***************************************************************************)
EXTENDS CatalogBuild, WellFoundedInduction, TLAPS

\* What the proofs about digests assume of the images: an entry of the spec
\* stands for at least one, and two entries for different ones.
ContentApart ==
    /\ \A e \in Entries : \A k \in Filters(e), d \in Digests : Content[e][k][d] # {}
    /\ \A e, f \in Entries : \A k \in Filters(e), l \in Filters(f), c, d \in Digests :
          e # f => Content[e][k][c] \cap Content[f][l][d] = {}

\* And of the faults.  Annotations and state go apart when the manager dies
\* between writing the two, or dies after it could not write the state.  With
\* old annotations, a probe that fails brings back an old digest.
Told ==
    /\ "crash" \notin faults
    /\ ~({"patch", "probe"} \subseteq faults)
    /\ ~({"flush", "restart"} \subseteq faults)

-----------------------------------------------------------------------------
(***************************************************************************)
(* Types.                                                                  *)
(***************************************************************************)
Sigs == {<<>>} \cup UNION {{<<e, k>> : k \in Filters(e)} : e \in Entries}
Known == [st : {"none", "Pending", "Mirrored", "Failed"}, perm : BOOLEAN, sig : Sigs]
States == [Images -> Known]
IsDigests(c) ==
    /\ DOMAIN c = Entries
    /\ \A e \in Entries : /\ DOMAIN c[e] = Filters(e)
                          /\ \A k \in Filters(e) : c[e][k] \in 0..upstream[e]

SourceOK == moves \in 0..MaxMoves /\ upstream \in [Entries -> 1..(moves + 1)]
SpecOK ==
    /\ is = [spec |-> is.spec, gen |-> is.gen, observed |-> is.observed, recollect |-> is.recollect]
    /\ is.spec \in Specs
StateOK ==
    /\ mem \in States /\ IsDigests(memDig) /\ IsDigests(cache) /\ DOMAIN registry = Images
    /\ cm = [entries |-> cm.entries, dig |-> cm.dig] /\ cm.entries \in States /\ IsDigests(cm.dig)
TickOK ==
    /\ tick.pc \in {"idle", "resolve", "flush", "status"}
    /\ tick.pc = "resolve" => tick.spec \in Specs /\ IsDigests(tick.cache) /\ tick.view \in States
    /\ tick.pc = "flush" => /\ tick.resolved \in BOOLEAN
                            /\ tick.resolved => tick.new \in States /\ IsDigests(tick.dig)
TypeInv == SourceOK /\ SpecOK /\ StateOK /\ TickOK

-----------------------------------------------------------------------------
(***************************************************************************)
(* What a resolve finds.  An image comes from an entry of the spec, either *)
(* out of the state, with the entry's signature, or collected anew.        *)
(***************************************************************************)
Kept(e, bad) == e \in bad \/ CacheHit(e)
Gives(e, bad, i) ==
    /\ tick.spec[e] # 0
    /\ IF Kept(e, bad) THEN tick.view[i].sig = Sig(e, tick.spec)
       ELSE i \in Content[e][tick.spec[e]][upstream[e]]
Given(e, bad, i) ==
    IF Kept(e, bad) THEN tick.view[i]
    ELSE [st |-> IF tick.view[i].st = "Mirrored" THEN "Mirrored" ELSE "Pending",
          perm |-> FALSE, sig |-> Sig(e, tick.spec)]

\* A signature names its entry and filter, and no image without one has any.
LEMMA SigNames ==
    ASSUME NEW e, NEW k
    PROVE  /\ <<e, k>> # <<>> /\ <<e, k>> # None.sig
           /\ \A f, l : <<e, k>> = <<f, l>> => e = f /\ k = l
<1>1. Len(<<e, k>>) = 2 /\ Len(<<>>) = 0
  OBVIOUS
<1>2. <<e, k>> # <<>>
  BY <1>1
<1> QED BY <1>2 DEF None

\* Induction up to a bound, over a set.
LEMMA UpTo ==
    ASSUME NEW N \in Nat, NEW S, 0 \in S, \A n \in 0..N : n < N /\ n \in S => n + 1 \in S
    PROVE  0..N \subseteq S
<1> DEFINE T == (0..N) \ S
<1> SUFFICES ASSUME T # {} PROVE FALSE
  OBVIOUS
<1>1. T \subseteq Nat
  OBVIOUS
<1>2. PICK x \in T : \A y \in T : ~(<<y, x>> \in OpToRel(<, Nat))
  BY <1>1, NatLessThanWellFounded, WFMin, Zenon
<1>3. \A y \in T : ~(y < x)
  BY <1>1, <1>2 DEF OpToRel
<1>4. x # 0 /\ x \in 0..N
  OBVIOUS
<1>5. x - 1 \in 0..N /\ x - 1 \notin T
  BY <1>3, <1>4
<1>6. x - 1 \in S /\ x - 1 < N
  BY <1>4, <1>5
<1>7. (x - 1) + 1 \in S
  BY <1>5, <1>6
<1> QED BY <1>4, <1>7

\* The recursion of Resolved is well founded.
LEMMA ResolvedDefined ==
    ASSUME NEW bad
    PROVE  \E f : /\ f = [n \in 0..Len(Order) |->
                            IF n = 0 THEN Empty ELSE Add(f[n - 1], Order[n], bad)]
                  /\ Resolved(bad) = f[Len(Order)]
<1> DEFINE N == Len(Order)
           Defines(f, n) == f = [i \in 0..n |-> IF i = 0 THEN Empty ELSE Add(f[i - 1], Order[i], bad)]
           S == {n \in 0..N : \E f : Defines(f, n)}
<1>0. N \in Nat
  BY CatalogAssumption
<1>1. 0 \in S
  <2>1. Defines([i \in 0..0 |-> Empty], 0)
    OBVIOUS
  <2> HIDE DEF Defines
  <2> QED BY <2>1, <1>0
<1>2. ASSUME NEW n \in 0..N, n < N, n \in S PROVE n + 1 \in S
  <2> HIDE DEF N
  <2>1. PICK f : Defines(f, n)
    BY <1>2
  <2> DEFINE g == [i \in 0..(n + 1) |-> IF i = n + 1 THEN Add(f[n], Order[n + 1], bad) ELSE f[i]]
  <2>2. \A i \in 0..n : g[i] = f[i]
    BY <1>0
  <2>3. \A i \in 0..n : f[i] = IF i = 0 THEN Empty ELSE Add(f[i - 1], Order[i], bad)
    BY <2>1
  <2>4. ASSUME NEW i \in 0..(n + 1)
        PROVE  g[i] = IF i = 0 THEN Empty ELSE Add(g[i - 1], Order[i], bad)
    <3>1. CASE i = n + 1
      <4>1. i - 1 = n /\ i # 0
        BY <3>1, <1>0
      <4>2. g[i - 1] = f[n]
        BY <4>1, <2>2, <1>0
      <4>3. g[i] = Add(f[n], Order[i], bad)
        BY <3>1
      <4> QED BY <4>1, <4>2, <4>3
    <3>2. CASE i # n + 1
      <4>1. i \in 0..n /\ g[i] = f[i]
        BY <3>2, <2>2, <1>0
      <4>2. CASE i = 0
        BY <4>1, <4>2, <2>3
      <4>3. CASE i # 0
        <5>1. i - 1 \in 0..n
          BY <4>1, <4>3, <1>0
        <5>2. g[i - 1] = f[i - 1]
          BY <5>1, <2>2
        <5> QED BY <4>1, <4>3, <5>2, <2>3
      <4> QED BY <4>2, <4>3
    <3> QED BY <3>1, <3>2
  <2>5. Defines(g, n + 1)
    BY <2>4
  <2>6. n + 1 \in 0..N
    BY <1>2, <1>0
  <2> HIDE DEF Defines, g
  <2> QED BY <2>5, <2>6
<1>3. N \in S
  <2> HIDE DEF S, N
  <2>2. \A n \in 0..N : n < N /\ n \in S => n + 1 \in S
    BY <1>2
  <2>3. 0..N \subseteq S
    BY <1>1, <1>0, <2>2, UpTo
  <2> QED BY <1>0, <2>3
<1>4. \E f : Defines(f, N)
  BY <1>3
<1>5. Resolved(bad) = (CHOOSE f : Defines(f, N))[N]
  BY DEF Resolved
<1> HIDE DEF Defines
<1>6. Defines(CHOOSE f : Defines(f, N), N)
  BY <1>4
<1> QED BY <1>5, <1>6 DEF Defines

LEMMA ResolvedGives ==
    ASSUME TypeInv, tick.pc = "resolve", NEW bad
    PROVE  /\ Resolved(bad) = [i \in Images |-> Resolved(bad)[i]]
           /\ \A i \in Images :
                \/ Resolved(bad)[i] = None /\ \A e \in Entries : ~Gives(e, bad, i)
                \/ \E e \in Entries : Gives(e, bad, i) /\ Resolved(bad)[i] = Given(e, bad, i)
<1>1. PICK f : /\ f = [n \in 0..Len(Order) |->
                         IF n = 0 THEN Empty ELSE Add(f[n - 1], Order[n], bad)]
               /\ Resolved(bad) = f[Len(Order)]
  BY ResolvedDefined
<1> DEFINE N == Len(Order)
           Found(n) ==
             /\ f[n] = [i \in Images |-> f[n][i]]
             /\ \A i \in Images :
                  \/ f[n][i] = None /\ \A m \in 1..n : ~Gives(Order[m], bad, i)
                  \/ \E m \in 1..n : Gives(Order[m], bad, i) /\ f[n][i] = Given(Order[m], bad, i)
           S == {n \in 0..N : Found(n)}
<1>0. N \in Nat /\ \A n \in 1..N : Order[n] \in Entries
  BY CatalogAssumption
<1>e. \A e \in Entries : \E n \in 1..N : e = Order[n]
  BY CatalogAssumption DEF Entries, ToSet
<1>2. 0 \in S
  <2>1. 0 \in 0..N /\ f[0] = Empty /\ \A m \in 1..0 : FALSE
    BY <1>1, <1>0
  <2>2. Found(0)
    BY <2>1 DEF Empty
  <2> QED BY <2>1, <2>2
<1>4. ASSUME NEW n \in 0..N, n < N, n \in S PROVE n + 1 \in S
  <2> HIDE DEF N
  <2>1. n + 1 \in 0..N /\ n + 1 # 0 /\ (n + 1) - 1 = n /\ n + 1 \in 1..(n + 1)
    BY <1>4, <1>0
  <2>2. f[n + 1] = Add(f[n], Order[n + 1], bad)
    BY <1>1, <2>1 DEF N
  <2>3. \A i \in 1..n : i \in 1..(n + 1)
    BY <1>0
  <2>4. \A i \in 1..(n + 1) : i \in 1..n \/ i = n + 1
    BY <1>0
  <2>5. Found(n)
    BY <1>4
  <2> DEFINE e == Order[n + 1]
  <2>6. /\ f[n + 1] = [i \in Images |-> f[n + 1][i]]
        /\ \A i \in Images : IF Gives(e, bad, i) /\ (f[n][i] = None \/ ~Kept(e, bad))
                             THEN f[n + 1][i] = Given(e, bad, i) ELSE f[n + 1][i] = f[n][i]
    <3> HIDE DEF e
    <3>1. f[n + 1] = Add(f[n], e, bad)
      BY <2>2 DEF e
    <3>2. CASE tick.spec[e] = 0
      BY <3>1, <3>2, <2>5 DEF Add, Gives
    <3>3. CASE tick.spec[e] # 0 /\ Kept(e, bad)
      <4>1. f[n + 1] = CarryOver(f[n], e)
        BY <3>1, <3>3 DEF Add, Kept
      <4> QED BY <4>1, <3>3 DEF CarryOver, Gives, Given
    <3>4. CASE tick.spec[e] # 0 /\ ~Kept(e, bad)
      <4>1. f[n + 1] = Merge(f[n], e)
        BY <3>1, <3>4 DEF Add, Kept
      <4> QED BY <4>1, <3>4 DEF Merge, Gives, Given
    <3> QED BY <3>2, <3>3, <3>4
  <2>7. Found(n + 1)
    <3>1. ASSUME NEW i \in Images
          PROVE  \/ f[n + 1][i] = None /\ \A m \in 1..(n + 1) : ~Gives(Order[m], bad, i)
                 \/ \E m \in 1..(n + 1) : Gives(Order[m], bad, i) /\ f[n + 1][i] = Given(Order[m], bad, i)
      <4>1. CASE Gives(e, bad, i) /\ (f[n][i] = None \/ ~Kept(e, bad))
        BY <4>1, <2>6, <2>1
      <4>2. CASE ~(Gives(e, bad, i) /\ (f[n][i] = None \/ ~Kept(e, bad)))
        <5>1. f[n + 1][i] = f[n][i]
          BY <4>2, <2>6
        <5>2. CASE f[n][i] = None /\ \A m \in 1..n : ~Gives(Order[m], bad, i)
          BY <4>2, <5>1, <5>2, <2>4
        <5>3. CASE \E m \in 1..n : Gives(Order[m], bad, i) /\ f[n][i] = Given(Order[m], bad, i)
          BY <5>1, <5>3, <2>3
        <5> QED BY <2>5, <5>2, <5>3
      <4> QED BY <4>1, <4>2
    <3> QED BY <3>1, <2>6
  <2> QED BY <2>1, <2>7
<1>5. Found(N)
  <2>2. \A n \in 0..N : n < N /\ n \in S => n + 1 \in S
    BY <1>4
  <2> HIDE DEF S, N
  <2>3. 0..N \subseteq S
    BY <1>2, <1>0, <2>2, UpTo
  <2> QED BY <1>0, <2>3 DEF S
<1> QED
  <2>1. ASSUME NEW i \in Images
        PROVE  \/ Resolved(bad)[i] = None /\ \A e \in Entries : ~Gives(e, bad, i)
               \/ \E e \in Entries : Gives(e, bad, i) /\ Resolved(bad)[i] = Given(e, bad, i)
    BY <1>5, <1>1, <1>e, <1>0
  <2> QED BY <2>1, <1>5, <1>1

-----------------------------------------------------------------------------
(***************************************************************************)
(* Types are kept.                                                         *)
(***************************************************************************)
LEMMA NoneKnown == None \in Known /\ Empty \in States
  BY DEF None, Known, Sigs, Empty, States

LEMMA SpecEntry ==
    ASSUME NEW s \in Specs, NEW e \in Entries, s[e] # 0
    PROVE  s[e] \in Filters(e) /\ Sig(e, s) \in Sigs /\ Sig(e, s) # None.sig
  BY CatalogAssumption, SigNames DEF Sig, Sigs

LEMMA ResolvedTyped ==
    ASSUME TypeInv, tick.pc = "resolve", NEW bad
    PROVE  Resolved(bad) \in States
<1>1. ASSUME NEW e \in Entries, NEW i \in Images, Gives(e, bad, i) PROVE Given(e, bad, i) \in Known
  <2>1. tick.spec \in Specs /\ tick.view[i] \in Known /\ tick.spec[e] # 0
    BY <1>1 DEF TypeInv, TickOK, States, Gives
  <2>2. Sig(e, tick.spec) \in Sigs
    BY <2>1, SpecEntry
  <2> QED BY <2>1, <2>2 DEF Given, Known
<1>2. /\ Resolved(bad) = [i \in Images |-> Resolved(bad)[i]]
      /\ \A i \in Images : Resolved(bad)[i] = None \/ \E e \in Entries :
            Gives(e, bad, i) /\ Resolved(bad)[i] = Given(e, bad, i)
  BY ResolvedGives
<1>3. \A i \in Images : Resolved(bad)[i] \in Known
  BY <1>1, <1>2, NoneKnown
<1> QED BY <1>2, <1>3 DEF States
LEMMA DigestsTyped ==
    ASSUME TypeInv
    PROVE  /\ IsDigests(NoDigests) /\ IsDigests(CatalogDigestsOf(cache)) /\ IsDigests(LoadedDigests)
           /\ tick.pc = "resolve" =>
                \A bad : IsDigests(NewCache(bad)) /\ IsDigests(CatalogDigestsOf(NewCache(bad)))
<1>0. \A e \in Entries : upstream[e] \in Nat /\ upstream[e] >= 1
  BY DEF TypeInv, SourceOK
<1>1. IsDigests(NoDigests)
  BY <1>0 DEF NoDigests, IsDigests
<1>2. \A c : IsDigests(c) => IsDigests(CatalogDigestsOf(c))
  BY <1>1 DEF CatalogDigestsOf, IsDigests
<1>3. ASSUME NEW bad, tick.pc = "resolve" PROVE IsDigests(NewCache(bad))
  <2>1. IsDigests(tick.cache)
    BY <1>3 DEF TypeInv, TickOK
  <2> QED BY <1>0, <2>1 DEF NewCache, IsDigests
<1>4. IsDigests(cache) /\ IsDigests(cm.dig)
  BY DEF TypeInv, StateOK
<1> QED BY <1>1, <1>2, <1>3, <1>4 DEF LoadedDigests

\* What the manager, workers and upstream change; the rest of the system changes
\* none of it.
stateVars == <<source, cache, manVars, cm, registry>>
StateIdle == UNCHANGED stateVars /\ SpecOK'

LEMMA StepsOf ==
    ASSUME TypeInv, [Next]_vars
    PROVE  /\ faults \subseteq faults'
           /\ \/ StateIdle
              \/ \E e \in Entries : Publish(e)
              \/ StartTick \/ Resolve \/ ResolveFails \/ Flush \/ FlushFails \/ WriteStatus \/ Restart
              \/ \E i \in Images : MirrorImage(i) \/ ImageGivenUp(i)
<1>0. SpecOK
  BY DEF TypeInv
<1>1. UNCHANGED vars => StateIdle /\ faults' = faults
  BY <1>0 DEF vars, StateIdle, stateVars, manVars, SpecOK
<1>2. (\E s \in Specs : EditSpec(s)) \/ Recollect => StateIdle /\ faults' = faults
  BY <1>0 DEF EditSpec, Recollect, StateIdle, stateVars, manVars, SpecOK
<1>3. Build \/ BuildFromCache \/ BuildInterrupted => StateIdle /\ faults \subseteq faults'
  BY <1>0 DEF Build, BuildFromCache, BuildInterrupted, BuildWith, Fault, StateIdle, stateVars, manVars, SpecOK
<1>4. PollExpires \/ (\E e \in Catalogs : JobSucceeds(e) \/ JobFails(e) \/ JobExpires(e))
        => StateIdle /\ faults \subseteq faults'
  BY <1>0 DEF PollExpires, JobSucceeds, JobFails, JobExpires, Fault, StateIdle, stateVars, manVars, SpecOK
<1>5. StartTick \/ Resolve \/ ResolveFails \/ Flush \/ FlushFails \/ WriteStatus \/ Restart
        => faults \subseteq faults'
  BY DEF StartTick, Resolve, ResolveFails, Flush, FlushFails, WriteStatus, Restart, Fault
<1>6. (\E e \in Entries : Publish(e)) \/ (\E i \in Images : MirrorImage(i) \/ ImageGivenUp(i))
        => faults \subseteq faults'
  BY DEF Publish, MirrorImage, ImageGivenUp, Fault
<1> QED BY <1>1, <1>2, <1>3, <1>4, <1>5, <1>6 DEF Next, Manager
LEMMA TypeInit == Init => TypeInv
<1> SUFFICES ASSUME Init PROVE TypeInv
  OBVIOUS
<1>1. SourceOK
  BY CatalogAssumption DEF Init, SourceOK
<1>2. SpecOK
  BY DEF Init, SpecOK
<1>3. IsDigests(NoDigests)
  BY <1>1 DEF NoDigests, IsDigests, SourceOK
<1>4. StateOK /\ TickOK
  BY <1>3, NoneKnown DEF Init, StateOK, TickOK, Idle
<1> QED BY <1>1, <1>2, <1>4 DEF TypeInv

LEMMA PublishTypes ==
    ASSUME TypeInv, NEW x \in Entries, Publish(x)
    PROVE  TypeInv'
<1> USE DEF TypeInv
<1>1. SourceOK'
  <2>1. MaxMoves \in Nat /\ moves \in 0..MaxMoves /\ moves < MaxMoves /\ moves' = moves + 1
    BY CatalogAssumption DEF SourceOK, Publish
  <2>2. upstream \in [Entries -> 1..(moves + 1)] /\ upstream' = [upstream EXCEPT ![x] = @ + 1]
    BY DEF SourceOK, Publish
  <2>3. \A n \in 1..(moves + 1) : n \in 1..(moves' + 1) /\ n + 1 \in 1..(moves' + 1)
    BY <2>1
  <2>4. moves' \in 0..MaxMoves
    BY <2>1
  <2> QED BY <2>2, <2>3, <2>4 DEF SourceOK
<1>2. \A c : IsDigests(c) => /\ DOMAIN c = Entries
                             /\ \A e \in Entries : /\ DOMAIN c[e] = Filters(e)
                                                   /\ \A k \in Filters(e) : c[e][k] \in 0..upstream'[e]
  BY DEF SourceOK, Publish, IsDigests
<1>3. IsDigests(memDig)' /\ IsDigests(cache)' /\ IsDigests(cm.dig)'
  BY <1>2 DEF IsDigests, StateOK, Publish, manVars
<1>4. SpecOK' /\ StateOK'
  BY <1>3 DEF SpecOK, StateOK, Publish, manVars
<1>5. TickOK'
  <2>1. tick' = tick
    BY DEF Publish, manVars
  <2>2. tick.pc = "resolve" => IsDigests(tick.cache)'
    BY <1>2, <2>1 DEF IsDigests, TickOK
  <2>3. tick.pc = "flush" /\ tick.resolved => IsDigests(tick.dig)'
    BY <1>2, <2>1 DEF IsDigests, TickOK
  <2> QED BY <2>1, <2>2, <2>3 DEF TickOK
<1> QED BY <1>1, <1>4, <1>5

LEMMA StartTickTypes ==
    ASSUME TypeInv, StartTick
    PROVE  TypeInv'
<1> USE DEF TypeInv
<1>1. UNCHANGED <<source, is, cache, cm, registry>>
  BY DEF StartTick, BeginTick
<1>2. PICK m, d : /\ BeginTick(m, d) /\ tick.pc = "idle" /\ m \in States /\ IsDigests(d)
  BY DigestsTyped, NoneKnown DEF StartTick, StateOK
<1>3. SourceOK' /\ SpecOK'
  BY <1>1 DEF SourceOK, SpecOK, source
<1>4. IsDigests(memDig)' /\ IsDigests(cache)' /\ IsDigests(cm.dig)'
  BY <1>1, <1>2 DEF IsDigests, BeginTick, source, StateOK
<1>5. StateOK'
  BY <1>1, <1>2, <1>4 DEF StateOK, BeginTick
<1>6. TickOK'
  <2>1. CASE ShouldResolve(m)
    <3>1. tick' = [pc |-> "resolve", spec |-> is.spec, cache |-> cache, recollect |-> is.recollect, view |-> m]
      BY <1>2, <2>1 DEF BeginTick
    <3>2. IsDigests(tick.cache)'
      BY <3>1, <1>1 DEF IsDigests, StateOK, source
    <3> QED BY <3>1, <3>2, <1>2 DEF TickOK, SpecOK
  <2>2. CASE ~ShouldResolve(m)
    BY <1>2, <2>2 DEF BeginTick, TickOK
  <2> QED BY <2>1, <2>2
<1> QED BY <1>3, <1>5, <1>6

\* One resolve, whatever fails.
ResolveSome(bad, patched) ==
    /\ ResolveWith(bad, patched)
    /\ bad # {} => "probe" \in faults'
    /\ ~patched => "patch" \in faults'
LEMMA ResolvesSome ==
    ASSUME Resolve \/ ResolveFails
    PROVE  \E bad : ResolveSome(bad, TRUE) \/ (bad = {} /\ ResolveSome(bad, FALSE))
  BY DEF Resolve, ResolveFails, ResolveSome, Fault

LEMMA ResolveTypes ==
    ASSUME TypeInv, NEW bad, NEW patched \in BOOLEAN, ResolveWith(bad, patched)
    PROVE  TypeInv'
<1> USE DEF TypeInv
<1>1. UNCHANGED <<source, mem, memDig, cm, registry>> /\ tick.pc = "resolve"
  BY DEF ResolveWith
<1>2. SourceOK' /\ SpecOK'
  BY <1>1 DEF SourceOK, SpecOK, source, ResolveWith
<1>3. IsDigests(NewCache(bad)) /\ IsDigests(CatalogDigestsOf(NewCache(bad)))
  BY <1>1, DigestsTyped
<1>4. IsDigests(memDig)' /\ IsDigests(cache)' /\ IsDigests(cm.dig)'
  BY <1>1, <1>3 DEF IsDigests, ResolveWith, source, StateOK
<1>5. StateOK'
  BY <1>1, <1>4 DEF StateOK
<1>6. /\ tick'.pc = "flush" /\ tick'.resolved = TRUE /\ tick'.new = Resolved(bad)
      /\ tick'.dig = CatalogDigestsOf(NewCache(bad))
  BY DEF ResolveWith
<1>7. IsDigests(tick.dig)'
  BY <1>1, <1>3, <1>6 DEF IsDigests, source
<1>8. TickOK'
  BY <1>1, <1>6, <1>7, ResolvedTyped DEF TickOK
<1> QED BY <1>2, <1>5, <1>8

LEMMA FlushTypes ==
    ASSUME TypeInv, NEW written \in BOOLEAN, FlushTo(written)
    PROVE  TypeInv'
<1> USE DEF TypeInv
<1>1. UNCHANGED <<source, is, cache, registry>> /\ tick.pc = "flush"
  BY DEF FlushTo
<1>2. SourceOK' /\ SpecOK'
  BY <1>1 DEF SourceOK, SpecOK, source
<1>3. mem' \in States
  <2>1. CASE tick.resolved
    <3>1. mem \in States /\ tick.new \in States
      BY <1>1, <2>1 DEF StateOK, TickOK
    <3>2. ASSUME NEW i \in Images PROVE Integrate(i) \in Known
      <4>1. mem[i] \in Known /\ tick.new[i] \in Known
        BY <3>1 DEF States
      <4>2. [mem[i] EXCEPT !.sig = tick.new[i].sig] \in Known
        BY <4>1 DEF Known
      <4>3. \A e \in Known : [e EXCEPT !.st = "Pending"] \in Known
        BY DEF Known
      <4> QED BY <4>1, <4>2, <4>3, NoneKnown DEF Integrate, Retried
    <3>3. mem' = [i \in Images |-> Integrate(i)]
      BY <2>1 DEF FlushTo
    <3> QED BY <3>2, <3>3 DEF States
  <2>2. CASE ~tick.resolved
    BY <2>2 DEF FlushTo, StateOK
  <2> QED BY <2>1, <2>2
<1>4. IsDigests(memDig')
  BY <1>1 DEF FlushTo, StateOK, TickOK
<1>5. IsDigests(memDig)' /\ IsDigests(cache)'
  BY <1>1, <1>4 DEF IsDigests, source, StateOK
<1>6. /\ cm' = [entries |-> cm'.entries, dig |-> cm'.dig] /\ cm'.entries \in States /\ IsDigests(cm'.dig)
  BY <1>3, <1>4 DEF FlushTo, StateOK
<1>7. StateOK'
  BY <1>1, <1>3, <1>5, <1>6 DEF StateOK, IsDigests, source
<1>8. TickOK'
  BY DEF FlushTo, TickOK
<1> QED BY <1>2, <1>7, <1>8

LEMMA WorkerTypes ==
    ASSUME TypeInv, NEW i \in Images, MirrorImage(i) \/ ImageGivenUp(i)
    PROVE  TypeInv'
<1> USE DEF TypeInv
<1>1. UNCHANGED <<source, is, cache, memDig, tick, cm>>
  BY DEF MirrorImage, ImageGivenUp
<1>2. mem' \in States /\ DOMAIN registry' = Images
  <2>1. mem \in [Images -> Known] /\ mem[i] \in Known
    BY DEF StateOK, States
  <2>2. CASE MirrorImage(i)
    BY <2>1, <2>2 DEF MirrorImage, States, Known, StateOK
  <2>3. CASE ImageGivenUp(i)
    BY <2>1, <2>3 DEF ImageGivenUp, States, Known, StateOK
  <2> QED BY <2>2, <2>3
<1>3. SourceOK' /\ SpecOK'
  BY <1>1 DEF SourceOK, SpecOK, source
<1>4. IsDigests(memDig)' /\ IsDigests(cache)' /\ IsDigests(cm.dig)'
  BY <1>1 DEF IsDigests, source, StateOK
<1>5. StateOK'
  BY <1>1, <1>2, <1>4 DEF StateOK
<1>6. TickOK'
  BY <1>1 DEF TickOK, IsDigests, source
<1> QED BY <1>3, <1>5, <1>6

LEMMA TypeNext == TypeInv /\ [Next]_vars => TypeInv'
<1> SUFFICES ASSUME TypeInv, [Next]_vars PROVE TypeInv'
  OBVIOUS
<1>1. CASE StateIdle
  BY <1>1 DEF StateIdle, stateVars, source, manVars, TypeInv, SourceOK, StateOK, TickOK, IsDigests
<1>2. CASE \E e \in Entries : Publish(e)
  BY <1>2, PublishTypes
<1>3. CASE StartTick
  BY <1>3, StartTickTypes
<1>4. CASE Resolve \/ ResolveFails
  <2>1. \E bad : \E patched \in BOOLEAN : ResolveWith(bad, patched)
    BY <1>4, ResolvesSome DEF ResolveSome
  <2> QED BY <2>1, ResolveTypes
<1>5. CASE Flush \/ FlushFails
  BY <1>5, FlushTypes DEF Flush, FlushFails
<1>6. CASE WriteStatus
  <2>1. UNCHANGED <<source, cache, mem, memDig, cm, registry>> /\ tick' = Idle /\ SpecOK'
    BY <1>6 DEF WriteStatus, SpecOK, TypeInv
  <2> QED BY <2>1 DEF source, TypeInv, SourceOK, StateOK, TickOK, IsDigests, Idle
<1>7. CASE Restart
  <2>1. UNCHANGED <<source, is, cache, cm, registry>> /\ tick' = Idle /\ mem' = Empty /\ memDig' = NoDigests
    BY <1>7 DEF Restart
  <2>2. IsDigests(memDig')
    BY <2>1, DigestsTyped
  <2>3. IsDigests(memDig)' /\ IsDigests(cache)' /\ IsDigests(cm.dig)'
    BY <2>1, <2>2 DEF IsDigests, source, TypeInv, StateOK
  <2> QED BY <2>1, <2>3, NoneKnown DEF source, TypeInv, SourceOK, SpecOK, StateOK, TickOK, Idle
<1>8. CASE \E i \in Images : MirrorImage(i) \/ ImageGivenUp(i)
  BY <1>8, WorkerTypes
<1> QED BY <1>1, <1>2, <1>3, <1>4, <1>5, <1>6, <1>7, <1>8, StepsOf
-----------------------------------------------------------------------------
(***************************************************************************)
(* The inductive invariants about digests and entries.                     *)
(***************************************************************************)
Integrating == tick.pc = "flush" /\ tick.resolved

\* The images with the signature of e's filter k.
Owned(E, e, k) == {i \in Images : E[i].sig = <<e, k>>}

\* Every image comes from the entry its signature names.
Within(E) ==
    \A e \in Entries : \A k \in Filters(e) : \A i \in Owned(E, e, k) : \E d \in Digests : i \in Content[e][k][d]
WithinInv ==
    /\ Within(mem) /\ Within(cm.entries)
    /\ tick.pc = "resolve" => Within(tick.view)
    /\ Integrating => Within(tick.new)

\* What was mirrored or given up is not absent from the registry.
Backed(E, reg) == \A i \in Images : E[i].st = "Mirrored" \/ E[i].perm => reg[i] # "absent"
BackedInv ==
    /\ Backed(mem, registry) /\ Backed(cm.entries, registry)
    /\ tick.pc = "resolve" => Backed(tick.view, registry)
    /\ Integrating => Backed(tick.new, registry)

\* As long as no probe fails, entries of a catalog come with its digest.
Named(E, D) == \A e \in Catalogs : \A k \in Filters(e) : Owned(E, e, k) # {} => D[e][k] # 0
NamedInv ==
    "probe" \notin faults =>
        /\ Named(mem, memDig) /\ Named(cm.entries, cm.dig)
        /\ Integrating => Named(tick.new, tick.dig)

\* A digest, and the annotations, describe the entries they are stored or used
\* with; after the annotations could not be written only where they are not
\* behind upstream.
Match(E, D) ==
    \A e \in Catalogs : \A k \in Filters(e) :
        Owned(E, e, k) # {} /\ D[e][k] # 0 => Owned(E, e, k) = Content[e][k][D[e][k]]
Agree(E, c, u, late) ==
    \A e \in Entries : \A k \in Filters(e) :
        Owned(E, e, k) # {} /\ c[e][k] # 0 /\ (late => c[e][k] = u[e])
            => Owned(E, e, k) = Content[e][k][c[e][k]]
Late == "patch" \in faults
Bare(E) == \A i \in Images : E[i].sig = None.sig
MatchInv ==
    Told =>
        /\ Match(mem, memDig) /\ Match(cm.entries, cm.dig)
        /\ tick.pc = "resolve" => tick.cache = cache /\ Agree(tick.view, cache, upstream, Late)
        /\ ~Integrating => Agree(mem, cache, upstream, Late)
        /\ Integrating => Match(tick.new, tick.dig) /\ Agree(tick.new, cache, upstream, Late)
\* What a restart finds, unless the last write failed.
StoredInv ==
    Told =>
        /\ ~Integrating /\ (Bare(mem) \/ "flush" \notin faults) => Agree(cm.entries, cache, upstream, Late)
        /\ Integrating /\ Bare(tick.new) /\ "flush" \notin faults => Agree(cm.entries, cache, upstream, Late)
BuildInv == TypeInv /\ WithinInv /\ BackedInv /\ NamedInv

-----------------------------------------------------------------------------
(***************************************************************************)
(* The operators.                                                          *)
(***************************************************************************)
\* Only signatures count.
LEMMA SameSigs ==
    ASSUME NEW E, NEW F, \A i \in Images : F[i].sig = E[i].sig
    PROVE  /\ \A e, k : Owned(F, e, k) = Owned(E, e, k)
           /\ Within(E) => Within(F)
           /\ Bare(E) <=> Bare(F)
           /\ \A D : (Named(E, D) => Named(F, D)) /\ (Match(E, D) => Match(F, D))
           /\ \A c, u, late : Agree(E, c, u, late) => Agree(F, c, u, late)
<1>1. \A e, k : Owned(F, e, k) = Owned(E, e, k)
  BY DEF Owned
<1>2. (Within(E) => Within(F)) /\ (Bare(E) <=> Bare(F))
  BY <1>1 DEF Within, Bare
<1>3. \A D : (Named(E, D) => Named(F, D)) /\ (Match(E, D) => Match(F, D))
  BY <1>1 DEF Named, Match
<1>4. \A c, u, late : Agree(E, c, u, late) => Agree(F, c, u, late)
  BY <1>1 DEF Agree
<1> QED BY <1>1, <1>2, <1>3, <1>4

\* Without entries there is nothing to describe.
LEMMA BareOwns ==
    ASSUME NEW E, Bare(E)
    PROVE  /\ \A e, k : Owned(E, e, k) = {}
           /\ Within(E) /\ \A D : Named(E, D) /\ Match(E, D)
           /\ \A c, u, late : Agree(E, c, u, late)
<1>1. \A e, k : Owned(E, e, k) = {}
  BY SigNames DEF Bare, Owned
<1>2. Within(E) /\ \A D : Named(E, D) /\ Match(E, D)
  BY <1>1 DEF Within, Named, Match
<1>3. \A c, u, late : Agree(E, c, u, late)
  BY <1>1 DEF Agree
<1> QED BY <1>1, <1>2, <1>3

LEMMA EmptyBare == Bare(Empty) /\ \A reg : Backed(Empty, reg)
  BY DEF Bare, Empty, Backed, None

LEMMA ToldBefore ==
    ASSUME faults \subseteq faults', Told'
    PROVE  Told /\ (Late => Late')
  BY DEF Told, Late

\* Later annotations say less.
LEMMA AgreeLess ==
    ASSUME NEW E, NEW c, NEW u, NEW p, NEW q, Agree(E, c, u, p), p => q
    PROVE  Agree(E, c, u, q)
  BY DEF Agree

\* Which images of a resolve carry which signature.
LEMMA ResolvedOwned ==
    ASSUME ContentApart, TypeInv, tick.pc = "resolve", Within(tick.view), NEW bad,
           NEW e \in Entries, NEW k \in Filters(e)
    PROVE  Owned(Resolved(bad), e, k) =
              IF k # tick.spec[e] THEN {}
              ELSE IF Kept(e, bad) THEN Owned(tick.view, e, k)
              ELSE Content[e][k][upstream[e]]
<1> DEFINE R == Resolved(bad)
<1>0. tick.spec \in Specs /\ upstream[e] \in Digests /\ k # 0
      /\ \A f \in Entries : upstream[f] \in Digests
  BY CatalogAssumption DEF TypeInv, TickOK, SourceOK, Digests
<1>1. \A i \in Images :
        \/ R[i] = None /\ \A f \in Entries : ~Gives(f, bad, i)
        \/ \E f \in Entries : Gives(f, bad, i) /\ R[i] = Given(f, bad, i)
  BY ResolvedGives
<1>2. \A f \in Entries : \A i : Gives(f, bad, i) => Given(f, bad, i).sig = <<f, tick.spec[f]>>
  BY DEF Gives, Given, Sig
<1>3. ASSUME NEW f \in Entries, NEW i \in Images, Gives(f, bad, i)
      PROVE  \E d \in Digests : tick.spec[f] \in Filters(f) /\ i \in Content[f][tick.spec[f]][d]
  <2>1. tick.spec[f] \in Filters(f)
    BY <1>0, <1>3, SpecEntry DEF Gives
  <2>2. CASE Kept(f, bad)
    BY <1>3, <2>1, <2>2 DEF Gives, Within, Owned, Sig
  <2>3. CASE ~Kept(f, bad)
    BY <1>0, <1>3, <2>1, <2>3 DEF Gives
  <2> QED BY <2>2, <2>3
<1>4. ASSUME NEW f \in Entries, NEW i \in Images, Gives(f, bad, i), Gives(e, bad, i) PROVE f = e
  <2>1. PICK c \in Digests : tick.spec[f] \in Filters(f) /\ i \in Content[f][tick.spec[f]][c]
    BY <1>3, <1>4
  <2>2. PICK d \in Digests : tick.spec[e] \in Filters(e) /\ i \in Content[e][tick.spec[e]][d]
    BY <1>3, <1>4
  <2> QED BY <2>1, <2>2 DEF ContentApart
<1>5. ASSUME NEW i \in Images PROVE i \in Owned(R, e, k) <=> k = tick.spec[e] /\ Gives(e, bad, i)
  <2>1. ASSUME i \in Owned(R, e, k) PROVE k = tick.spec[e] /\ Gives(e, bad, i)
    <3>1. R[i].sig = <<e, k>> /\ R[i] # None
      BY <2>1, SigNames DEF Owned
    <3>2. PICK f \in Entries : Gives(f, bad, i) /\ R[i] = Given(f, bad, i)
      BY <1>1, <3>1
    <3>3. <<f, tick.spec[f]>> = <<e, k>>
      BY <1>2, <3>1, <3>2
    <3> QED BY <3>2, <3>3
  <2>2. ASSUME k = tick.spec[e], Gives(e, bad, i) PROVE i \in Owned(R, e, k)
    <3>1. PICK f \in Entries : Gives(f, bad, i) /\ R[i] = Given(f, bad, i)
      BY <1>1, <2>2
    <3>2. f = e
      BY <1>4, <2>2, <3>1
    <3> QED BY <1>2, <2>2, <3>1, <3>2 DEF Owned
  <2> QED BY <2>1, <2>2
<1>6. Owned(R, e, k) \subseteq Images /\ Owned(tick.view, e, k) \subseteq Images
      /\ Content[e][k][upstream[e]] \subseteq Images
  BY <1>0, CatalogAssumption DEF Owned
<1>7. CASE k # tick.spec[e]
  BY <1>5, <1>6, <1>7
<1>8. CASE k = tick.spec[e] /\ Kept(e, bad)
  <2>1. \A i \in Images : i \in Owned(R, e, k) <=> i \in Owned(tick.view, e, k)
    BY <1>0, <1>5, <1>8 DEF Gives, Sig, Owned
  <2> QED BY <2>1, <1>6, <1>8
<1>9. CASE k = tick.spec[e] /\ ~Kept(e, bad)
  <2>1. \A i \in Images : i \in Owned(R, e, k) <=> i \in Content[e][k][upstream[e]]
    BY <1>0, <1>5, <1>9 DEF Gives
  <2> QED BY <2>1, <1>6, <1>9
<1> QED BY <1>7, <1>8, <1>9
-----------------------------------------------------------------------------
(***************************************************************************)
(* What the steps do with entries, digests and annotations.                *)
(***************************************************************************)
StartsTick ==
    /\ UNCHANGED <<upstream, cache, cm, registry>> /\ ~Integrating /\ ~Integrating'
    /\ tick'.pc = "resolve" => tick'.view = mem' /\ tick'.cache = cache
    /\ \/ mem' = mem /\ memDig' = memDig
       \/ mem = Empty /\ mem' = cm.entries /\ memDig' = LoadedDigests
       \/ mem = Empty /\ mem' = Empty /\ memDig' = NoDigests
LEMMA StartTickShape ==
    ASSUME StartTick
    PROVE  StartsTick
<1>1. PICK m, d : /\ BeginTick(m, d) /\ tick.pc = "idle"
                  /\ \/ m = mem /\ d = memDig
                     \/ mem = Empty /\ m = cm.entries /\ d = LoadedDigests
                     \/ mem = Empty /\ m = Empty /\ d = NoDigests
  BY DEF StartTick
<1>2. UNCHANGED <<upstream, cache, cm, registry>> /\ mem' = m /\ memDig' = d
  BY <1>1 DEF BeginTick, source
<1>3. CASE ShouldResolve(m)
  BY <1>1, <1>2, <1>3 DEF BeginTick, StartsTick, Integrating
<1>4. CASE ~ShouldResolve(m)
  BY <1>1, <1>2, <1>4 DEF BeginTick, StartsTick, Integrating
<1> QED BY <1>3, <1>4

Resolves(bad, patched) ==
    /\ UNCHANGED <<upstream, mem, memDig, cm, registry>> /\ tick.pc = "resolve" /\ ~Integrating
    /\ tick'.pc = "flush" /\ Integrating'
    /\ tick'.new = Resolved(bad) /\ tick'.dig = CatalogDigestsOf(NewCache(bad))
    /\ cache' = IF patched THEN NewCache(bad) ELSE cache
    /\ bad # {} => "probe" \in faults' /\ patched
    /\ ~patched => "patch" \in faults'
LEMMA ResolveShape ==
    ASSUME Resolve \/ ResolveFails
    PROVE  \E bad : \E patched \in BOOLEAN : Resolves(bad, patched)
<1>1. PICK bad, patched : patched \in BOOLEAN /\ ResolveSome(bad, patched) /\ (~patched => bad = {})
  BY ResolvesSome
<1>2. /\ UNCHANGED <<upstream, mem, memDig, cm, registry>> /\ tick.pc = "resolve"
      /\ cache' = IF patched THEN NewCache(bad) ELSE cache
  BY <1>1 DEF ResolveSome, ResolveWith, source
<1>3. /\ tick'.pc = "flush" /\ tick'.resolved = TRUE /\ tick'.new = Resolved(bad)
      /\ tick'.dig = CatalogDigestsOf(NewCache(bad))
  BY <1>1 DEF ResolveSome, ResolveWith
<1>4. (bad # {} => "probe" \in faults' /\ patched) /\ (~patched => "patch" \in faults')
  BY <1>1 DEF ResolveSome
<1>5. ~Integrating /\ Integrating'
  BY <1>2, <1>3 DEF Integrating
<1> QED BY <1>2, <1>3, <1>4, <1>5 DEF Resolves

Flushes ==
    /\ UNCHANGED <<upstream, cache, registry>> /\ tick.pc = "flush" /\ tick'.pc = "status" /\ ~Integrating'
    /\ IF Integrating
       THEN /\ memDig' = tick.dig /\ \A i \in Images : mem'[i].sig = tick.new[i].sig
            /\ Backed(mem, registry) /\ Backed(tick.new, registry) => Backed(mem', registry)
       ELSE mem' = mem /\ memDig' = memDig
    /\ \/ cm' = [entries |-> mem', dig |-> memDig']
       \/ cm' = cm /\ "flush" \in faults' \ faults
LEMMA FlushShape ==
    ASSUME TypeInv, Flush \/ FlushFails
    PROVE  Flushes
<1>1. PICK written \in BOOLEAN : FlushTo(written) /\ (~written => "flush" \in faults' \ faults)
  BY DEF Flush, FlushFails, Fault
<1>2. UNCHANGED <<upstream, cache, registry>> /\ tick.pc = "flush" /\ tick'.pc = "status" /\ ~Integrating'
  BY <1>1 DEF FlushTo, source, Integrating
<1>3. \/ cm' = [entries |-> mem', dig |-> memDig']
      \/ cm' = cm /\ "flush" \in faults' \ faults
  BY <1>1 DEF FlushTo
<1>4. CASE Integrating
  <2>1. memDig' = tick.dig /\ mem' = [i \in Images |-> Integrate(i)]
    BY <1>1, <1>4 DEF FlushTo, Integrating
  <2>2. ASSUME NEW i \in Images
        PROVE  /\ Integrate(i).sig = tick.new[i].sig
               /\ Integrate(i).st = "Mirrored" \/ Integrate(i).perm =>
                    \/ mem[i].st = "Mirrored" \/ mem[i].perm
                    \/ tick.new[i].st = "Mirrored" \/ tick.new[i].perm
    <3>1. mem[i] \in Known /\ tick.new[i] \in Known
      BY <1>4 DEF TypeInv, StateOK, TickOK, States, Integrating
    <3> DEFINE e == IF tick.new[i] = None THEN None
                    ELSE IF mem[i] = None THEN tick.new[i] ELSE [mem[i] EXCEPT !.sig = tick.new[i].sig]
    <3>2. /\ e \in Known /\ e.sig = tick.new[i].sig
          /\ e.st = "Mirrored" \/ e.perm =>
                    \/ mem[i].st = "Mirrored" \/ mem[i].perm
                    \/ tick.new[i].st = "Mirrored" \/ tick.new[i].perm
      BY <3>1, NoneKnown DEF Known
    <3>3. Integrate(i) = e \/ Integrate(i) = [e EXCEPT !.st = "Pending"]
      BY DEF Integrate, Retried
    <3> HIDE DEF e
    <3> QED BY <3>2, <3>3 DEF Known
  <2>3. Backed(mem, registry) /\ Backed(tick.new, registry) => Backed(mem', registry)
    BY <2>1, <2>2 DEF Backed
  <2> QED BY <1>2, <1>3, <1>4, <2>1, <2>2, <2>3 DEF Flushes
<1>5. CASE ~Integrating
  <2>1. mem' = mem /\ memDig' = memDig
    BY <1>1, <1>2, <1>5 DEF FlushTo, Integrating
  <2> QED BY <1>2, <1>3, <1>5, <2>1 DEF Flushes
<1> QED BY <1>4, <1>5

Reports ==
    /\ UNCHANGED <<upstream, cache, memDig, tick, cm>>
    /\ \A i \in Images : mem'[i].sig = mem[i].sig
    /\ \A i \in Images : registry[i] # "absent" => registry'[i] # "absent"
    /\ Backed(mem, registry) => Backed(mem', registry')
LEMMA WorkerShape ==
    ASSUME TypeInv, NEW i \in Images, MirrorImage(i) \/ ImageGivenUp(i)
    PROVE  Reports
<1>1. mem \in [Images -> Known] /\ DOMAIN registry = Images /\ mem[i] \in Known
  BY DEF TypeInv, StateOK, States
<1>2. UNCHANGED <<upstream, cache, memDig, tick, cm>>
  BY DEF MirrorImage, ImageGivenUp, source
<1>3. /\ \A j \in Images \ {i} : mem'[j] = mem[j] /\ registry'[j] = registry[j]
      /\ mem'[i].sig = mem[i].sig /\ registry'[i] # "absent"
  BY <1>1 DEF MirrorImage, ImageGivenUp, Known
<1> QED BY <1>2, <1>3 DEF Reports, Backed
-----------------------------------------------------------------------------
(***************************************************************************)
(* Entries come from their source, the registry has what they claim, and   *)
(* they come with a digest.                                                *)
(***************************************************************************)
LEMMA ResolvedSigs ==
    ASSUME TypeInv, tick.pc = "resolve", NEW bad, NEW e, NEW k, NEW i \in Owned(Resolved(bad), e, k)
    PROVE  /\ e \in Entries /\ k = tick.spec[e] /\ k \in Filters(e) /\ Gives(e, bad, i)
           /\ Resolved(bad)[i] = Given(e, bad, i)
<1>1. i \in Images /\ Resolved(bad)[i].sig = <<e, k>> /\ Resolved(bad)[i] # None
  BY SigNames DEF Owned
<1>2. PICK f \in Entries : Gives(f, bad, i) /\ Resolved(bad)[i] = Given(f, bad, i)
  BY <1>1, ResolvedGives
<1>3. <<f, tick.spec[f]>> = <<e, k>>
  BY <1>1, <1>2 DEF Gives, Given, Sig
<1>4. f = e /\ tick.spec[f] = k
  BY <1>3
<1>5. tick.spec \in Specs
  BY DEF TypeInv, TickOK
<1>6. k \in Filters(e)
  BY <1>2, <1>4, <1>5, SpecEntry DEF Gives
<1> QED BY <1>2, <1>4, <1>6

LEMMA ResolvedWithin ==
    ASSUME TypeInv, tick.pc = "resolve", NEW bad, Within(tick.view)
    PROVE  Within(Resolved(bad))
<1> SUFFICES ASSUME NEW e \in Entries, NEW k \in Filters(e), NEW i \in Owned(Resolved(bad), e, k)
             PROVE  \E d \in Digests : i \in Content[e][k][d]
  BY DEF Within
<1>1. k = tick.spec[e] /\ Gives(e, bad, i) /\ i \in Images
  BY ResolvedSigs DEF Owned
<1>2. CASE Kept(e, bad)
  BY <1>1, <1>2 DEF Gives, Within, Owned, Sig
<1>3. CASE ~Kept(e, bad)
  <2>1. upstream[e] \in Digests
    BY CatalogAssumption DEF TypeInv, SourceOK, Digests
  <2> QED BY <1>1, <1>3, <2>1 DEF Gives
<1> QED BY <1>2, <1>3

LEMMA ResolvedBacked ==
    ASSUME TypeInv, tick.pc = "resolve", NEW bad, Backed(tick.view, registry)
    PROVE  Backed(Resolved(bad), registry)
<1> SUFFICES ASSUME NEW i \in Images, Resolved(bad)[i].st = "Mirrored" \/ Resolved(bad)[i].perm
             PROVE  registry[i] # "absent"
  BY DEF Backed
<1>1. Resolved(bad)[i] # None
  BY DEF None
<1>2. PICK e \in Entries : Resolved(bad)[i] = Given(e, bad, i)
  BY <1>1, ResolvedGives
<1>3. tick.view[i].st = "Mirrored" \/ tick.view[i].perm
  BY <1>2 DEF Given
<1> QED BY <1>3 DEF Backed

LEMMA ResolvedNamed ==
    ASSUME TypeInv, tick.pc = "resolve"
    PROVE  Named(Resolved({}), CatalogDigestsOf(NewCache({})))
<1> SUFFICES ASSUME NEW e \in Catalogs, NEW k \in Filters(e), Owned(Resolved({}), e, k) # {}
             PROVE  CatalogDigestsOf(NewCache({}))[e][k] # 0
  BY DEF Named
<1>1. e \in Entries /\ k = tick.spec[e]
  BY ResolvedSigs
<1>2. CatalogDigestsOf(NewCache({}))[e][k] = upstream[e]
  BY <1>1 DEF CatalogDigestsOf, NewCache
<1> QED BY <1>1, <1>2 DEF TypeInv, SourceOK

LEMMA WithinNext ==
    ASSUME TypeInv, WithinInv, [Next]_vars
    PROVE  WithinInv'
<1> USE DEF WithinInv
<1>1. CASE StateIdle \/ \E e \in Entries : Publish(e)
  BY <1>1 DEF StateIdle, stateVars, source, manVars, Publish, Integrating
<1>2. CASE StartTick
  BY <1>2, StartTickShape, EmptyBare, BareOwns DEF StartsTick
<1>3. CASE Resolve \/ ResolveFails
  <2>1. PICK bad, patched : Resolves(bad, patched)
    BY <1>3, ResolveShape
  <2> QED BY <2>1, ResolvedWithin DEF Resolves
<1>4. CASE Flush \/ FlushFails
  <2>1. Flushes
    BY <1>4, FlushShape
  <2>2. Within(mem')
    BY <2>1, SameSigs DEF Flushes
  <2> QED BY <2>1, <2>2 DEF Flushes
<1>5. CASE WriteStatus
  BY <1>5 DEF WriteStatus, Idle, Integrating
<1>6. CASE Restart
  BY <1>6, EmptyBare, BareOwns DEF Restart, Idle, Integrating
<1>7. CASE \E i \in Images : MirrorImage(i) \/ ImageGivenUp(i)
  <2>1. Reports
    BY <1>7, WorkerShape
  <2>2. Within(mem')
    BY <2>1, SameSigs DEF Reports
  <2> QED BY <2>1, <2>2 DEF Reports, Integrating
<1> QED BY <1>1, <1>2, <1>3, <1>4, <1>5, <1>6, <1>7, StepsOf

LEMMA BackedNext ==
    ASSUME TypeInv, BackedInv, [Next]_vars
    PROVE  BackedInv'
<1> USE DEF BackedInv
<1>1. CASE StateIdle \/ \E e \in Entries : Publish(e)
  BY <1>1 DEF StateIdle, stateVars, source, manVars, Publish, Integrating
<1>2. CASE StartTick
  BY <1>2, StartTickShape, EmptyBare DEF StartsTick
<1>3. CASE Resolve \/ ResolveFails
  <2>1. PICK bad, patched : Resolves(bad, patched)
    BY <1>3, ResolveShape
  <2> QED BY <2>1, ResolvedBacked DEF Resolves
<1>4. CASE Flush \/ FlushFails
  <2>1. Flushes
    BY <1>4, FlushShape
  <2> QED BY <2>1 DEF Flushes
<1>5. CASE WriteStatus
  BY <1>5 DEF WriteStatus, Idle, Integrating
<1>6. CASE Restart
  BY <1>6, EmptyBare DEF Restart, Idle, Integrating
<1>7. CASE \E i \in Images : MirrorImage(i) \/ ImageGivenUp(i)
  <2>1. Reports
    BY <1>7, WorkerShape
  <2>2. \A E : Backed(E, registry) => Backed(E, registry')
    BY <2>1 DEF Reports, Backed
  <2> QED BY <2>1, <2>2 DEF Reports, Integrating
<1> QED BY <1>1, <1>2, <1>3, <1>4, <1>5, <1>6, <1>7, StepsOf

LEMMA NamedNext ==
    ASSUME TypeInv, NamedInv, [Next]_vars
    PROVE  NamedInv'
<1> SUFFICES ASSUME "probe" \notin faults' PROVE NamedInv'
  BY DEF NamedInv
<1>0. "probe" \notin faults
  BY StepsOf
<1>h. Named(mem, memDig) /\ Named(cm.entries, cm.dig) /\ (Integrating => Named(tick.new, tick.dig))
  BY <1>0 DEF NamedInv
<1>1. CASE StateIdle \/ \E e \in Entries : Publish(e)
  BY <1>1, <1>h DEF NamedInv, StateIdle, stateVars, source, manVars, Publish, Integrating
<1>2. CASE StartTick
  <2>1. Named(cm.entries, LoadedDigests)
    <3>1. CASE cm.dig = NoDigests
      <4>0. \A e \in Catalogs : e \in Entries
        BY CatalogAssumption
      <4>2. \A e \in Catalogs : \A k \in Filters(e) : cm.dig[e][k] = 0
        BY <3>1, <4>0 DEF NoDigests
      <4>1. \A e \in Catalogs : \A k \in Filters(e) : Owned(cm.entries, e, k) = {}
        BY <1>h, <4>2 DEF Named
      <4> QED BY <4>1 DEF Named
    <3>2. CASE cm.dig # NoDigests
      BY <1>h, <3>2 DEF LoadedDigests
    <3> QED BY <3>1, <3>2
  <2>2. Named(Empty, NoDigests)
    BY EmptyBare, BareOwns
  <2>3. Named(mem', memDig') /\ cm' = cm /\ ~Integrating'
    BY <1>2, <1>h, <2>1, <2>2, StartTickShape DEF StartsTick
  <2> QED BY <2>3, <1>h DEF NamedInv
<1>3. CASE Resolve \/ ResolveFails
  <2>1. PICK bad, patched : Resolves(bad, patched)
    BY <1>3, ResolveShape
  <2>2. bad = {}
    BY <2>1 DEF Resolves
  <2>3. tick.pc = "resolve" /\ Named(Resolved(bad), CatalogDigestsOf(NewCache(bad)))
    BY <2>1, <2>2, ResolvedNamed DEF Resolves
  <2> QED BY <2>1, <2>3, <1>h DEF Resolves, NamedInv
<1>4. CASE Flush \/ FlushFails
  <2>1. Flushes
    BY <1>4, FlushShape
  <2>2. Named(mem', memDig')
    BY <2>1, <1>h, SameSigs DEF Flushes
  <2> QED BY <2>1, <2>2, <1>h DEF Flushes, NamedInv
<1>5. CASE WriteStatus
  BY <1>5, <1>h DEF WriteStatus, Idle, Integrating, NamedInv
<1>6. CASE Restart
  BY <1>6, <1>h, EmptyBare, BareOwns DEF Restart, Idle, Integrating, NamedInv
<1>7. CASE \E i \in Images : MirrorImage(i) \/ ImageGivenUp(i)
  <2>1. Reports
    BY <1>7, WorkerShape
  <2>2. Named(mem', memDig')
    BY <2>1, <1>h, SameSigs DEF Reports
  <2> QED BY <2>1, <2>2, <1>h DEF Reports, Integrating, NamedInv
<1> QED BY <1>1, <1>2, <1>3, <1>4, <1>5, <1>6, <1>7, StepsOf
-----------------------------------------------------------------------------
(***************************************************************************)
(* A digest describes the entries it is stored with.                       *)
(***************************************************************************)
\* Annotations are never ahead of upstream: a publication leaves the old ones
\* behind, and what they said of the entries stays true.
LEMMA AgreePublish ==
    ASSUME TypeInv, NEW x \in Entries, Publish(x), NEW E, NEW late, Agree(E, cache, upstream, late)
    PROVE  Agree(E, cache, upstream', late)
<1>1. /\ upstream'[x] = upstream[x] + 1 /\ upstream[x] \in Nat
      /\ \A e \in Entries \ {x} : upstream'[e] = upstream[e]
  BY DEF TypeInv, SourceOK, Publish
<1>2. \A k \in Filters(x) : cache[x][k] \in 0..upstream[x]
  BY DEF TypeInv, StateOK, IsDigests
<1>3. \A e \in Entries : \A k \in Filters(e) : cache[e][k] = upstream'[e] => cache[e][k] = upstream[e]
  BY <1>1, <1>2
<1> QED BY <1>3 DEF Agree

\* What a resolve finds is what its annotations will say.
LEMMA ResolvedAgrees ==
    ASSUME ContentApart, TypeInv, tick.pc = "resolve", Within(tick.view), NEW bad,
           NEW late \in BOOLEAN, Agree(tick.view, tick.cache, upstream, late), bad # {} => ~late,
           NEW e \in Entries, NEW k \in Filters(e), Owned(Resolved(bad), e, k) # {}
    PROVE  /\ k = tick.spec[e] /\ (NewCache(bad)[e][k] = 0 \/ Owned(Resolved(bad), e, k) = Content[e][k][NewCache(bad)[e][k]])
<1>1. Owned(Resolved(bad), e, k) =
              IF k # tick.spec[e] THEN {}
              ELSE IF Kept(e, bad) THEN Owned(tick.view, e, k)
              ELSE Content[e][k][upstream[e]]
  BY ResolvedOwned
<1>2. k = tick.spec[e]
  BY <1>1
<1>3. NewCache(bad)[e][k] = IF e \in bad THEN tick.cache[e][k] ELSE upstream[e]
  BY <1>2 DEF NewCache
<1>4. CASE e \in bad
  <2>1. Owned(Resolved(bad), e, k) = Owned(tick.view, e, k) /\ ~late
    BY <1>1, <1>2, <1>4 DEF Kept
  <2> QED BY <1>2, <1>3, <1>4, <2>1 DEF Agree
<1>5. CASE e \notin bad /\ CacheHit(e)
  <2>1. Owned(Resolved(bad), e, k) = Owned(tick.view, e, k)
    BY <1>1, <1>2, <1>5 DEF Kept
  <2>2. tick.cache[e][k] = upstream[e]
    BY <1>2, <1>5 DEF CacheHit
  <2> QED BY <1>2, <1>3, <1>5, <2>1, <2>2 DEF Agree
<1>6. CASE e \notin bad /\ ~CacheHit(e)
  BY <1>1, <1>2, <1>3, <1>6 DEF Kept
<1> QED BY <1>2, <1>4, <1>5, <1>6

LEMMA ResolvedMatches ==
    ASSUME ContentApart, TypeInv, Within(tick.view), NEW bad, NEW patched, Resolves(bad, patched),
           tick.cache = cache, Agree(tick.view, cache, upstream, Late), bad # {} => ~Late
    PROVE  /\ Match(Resolved(bad), CatalogDigestsOf(NewCache(bad)))
           /\ Agree(Resolved(bad), cache', upstream, Late')
<1> DEFINE R == Resolved(bad)
<1>0. tick.pc = "resolve" /\ Late \in BOOLEAN
  BY DEF Resolves, Late
<1>1. \A e \in Entries : \A k \in Filters(e) : Owned(R, e, k) # {} =>
         k = tick.spec[e] /\ (NewCache(bad)[e][k] = 0 \/ Owned(R, e, k) = Content[e][k][NewCache(bad)[e][k]])
  BY <1>0, ResolvedAgrees
<1> HIDE DEF R
<1>2. \A e \in Catalogs : e \in Entries /\ CatalogDigestsOf(NewCache(bad))[e] = NewCache(bad)[e]
  BY CatalogAssumption DEF CatalogDigestsOf
<1>3. Match(R, CatalogDigestsOf(NewCache(bad)))
  BY <1>1, <1>2 DEF Match
<1>4. CASE patched
  <2>1. cache' = NewCache(bad)
    BY <1>4 DEF Resolves
  <2>2. Agree(R, NewCache(bad), upstream, Late')
    BY <1>1 DEF Agree
  <2> QED BY <1>3, <2>1, <2>2 DEF R
<1>5. CASE ~patched
  <2>1. cache' = cache /\ Late' /\ bad = {}
    BY <1>5 DEF Resolves, Late
  <2>2. ASSUME NEW e \in Entries, NEW k \in Filters(e), Owned(R, e, k) # {}, cache[e][k] = upstream[e], cache[e][k] # 0
        PROVE  Owned(R, e, k) = Content[e][k][cache[e][k]]
    <3>1. NewCache(bad)[e][k] = upstream[e]
      BY <1>1, <2>1, <2>2 DEF NewCache
    <3> QED BY <1>1, <2>2, <3>1
  <2>3. Agree(R, cache, upstream, Late')
    BY <2>1, <2>2 DEF Agree
  <2> QED BY <1>3, <2>1, <2>3 DEF R
<1> QED BY <1>4, <1>5

LEMMA LoadedMatch ==
    ASSUME TypeInv, NamedInv, Told, Match(cm.entries, cm.dig), Agree(cm.entries, cache, upstream, Late)
    PROVE  Match(cm.entries, LoadedDigests)
<1>0. \A e \in Catalogs : e \in Entries
  BY CatalogAssumption
<1>1. CASE LoadedDigests = cm.dig
  BY <1>1
<1>2. CASE cm.dig = NoDigests /\ LoadedDigests = CatalogDigestsOf(cache)
  <2>1. ASSUME Late PROVE \A e \in Catalogs : \A k \in Filters(e) : Owned(cm.entries, e, k) = {}
    <3>1. Named(cm.entries, cm.dig)
      BY <2>1 DEF Told, Late, NamedInv
    <3>2. \A e \in Catalogs : \A k \in Filters(e) : cm.dig[e][k] = 0
      BY <1>0, <1>2 DEF NoDigests
    <3> QED BY <3>1, <3>2 DEF Named
  <2>2. \A e \in Catalogs : LoadedDigests[e] = cache[e]
    BY <1>0, <1>2 DEF CatalogDigestsOf
  <2>3. CASE Late
    BY <2>1, <2>3 DEF Match
  <2>4. CASE ~Late
    BY <1>0, <2>2, <2>4 DEF Match, Agree
  <2> QED BY <2>3, <2>4
<1> QED BY <1>1, <1>2 DEF LoadedDigests
\* A resolve that finds nothing changes no annotation.
LEMMA ResolvedNothing ==
    ASSUME ContentApart, TypeInv, Within(tick.view), NEW bad, NEW patched, Resolves(bad, patched),
           tick.cache = cache, Bare(Resolved(bad)), NEW E, Agree(E, cache, upstream, Late)
    PROVE  Agree(E, cache', upstream, Late)
<1>0. tick.pc = "resolve"
  BY DEF Resolves
<1>1. ASSUME NEW e \in Entries, NEW k \in Filters(e), NewCache(bad)[e][k] # 0
      PROVE  NewCache(bad)[e][k] = cache[e][k]
  <2>1. k = tick.spec[e] /\ NewCache(bad)[e][k] = IF e \in bad THEN tick.cache[e][k] ELSE upstream[e]
    BY <1>1 DEF NewCache
  <2>2. Owned(Resolved(bad), e, k) = {}
    BY BareOwns
  <2>3. Content[e][k][upstream[e]] # {}
    BY CatalogAssumption DEF ContentApart, TypeInv, SourceOK, Digests
  <2>4. Kept(e, bad)
    BY <1>0, <2>1, <2>2, <2>3, ResolvedOwned
  <2> QED BY <2>1, <2>4 DEF Kept, CacheHit
<1>2. Agree(E, NewCache(bad), upstream, Late)
  BY <1>1 DEF Agree
<1> QED BY <1>2 DEF Resolves

LEMMA MatchNext ==
    ASSUME ContentApart, TypeInv, WithinInv, NamedInv, MatchInv, StoredInv, [Next]_vars
    PROVE  MatchInv' /\ StoredInv'
<1> SUFFICES ASSUME Told' PROVE MatchInv' /\ StoredInv'
  BY DEF MatchInv, StoredInv
<1>0. Told /\ (Late => Late') /\ faults \subseteq faults' /\ ~({"patch", "probe"} \subseteq faults')
  BY StepsOf, ToldBefore DEF Told
<1>a. /\ Match(mem, memDig) /\ Match(cm.entries, cm.dig)
      /\ tick.pc = "resolve" => tick.cache = cache /\ Agree(tick.view, cache, upstream, Late)
      /\ ~Integrating => Agree(mem, cache, upstream, Late)
      /\ Integrating => Match(tick.new, tick.dig) /\ Agree(tick.new, cache, upstream, Late)
  BY <1>0 DEF MatchInv
<1>b. /\ ~Integrating /\ (Bare(mem) \/ "flush" \notin faults) => Agree(cm.entries, cache, upstream, Late)
      /\ Integrating /\ Bare(tick.new) /\ "flush" \notin faults => Agree(cm.entries, cache, upstream, Late)
  BY <1>0 DEF StoredInv
<1>l. \A E : Agree(E, cache, upstream, Late) => Agree(E, cache, upstream, Late')
  BY <1>0, AgreeLess
<1>1. CASE StateIdle
  <2>1. UNCHANGED <<upstream, cache, mem, memDig, cm, tick>> /\ (Integrating' <=> Integrating)
    BY <1>1 DEF StateIdle, stateVars, source, manVars, Integrating
  <2>2. MatchInv'
    BY <1>a, <1>l, <2>1 DEF MatchInv
  <2>3. StoredInv'
    BY <1>b, <1>l, <1>0, <2>1 DEF StoredInv
  <2> QED BY <2>2, <2>3
<1>2. CASE \E e \in Entries : Publish(e)
  <2>1. PICK x \in Entries : Publish(x)
    BY <1>2
  <2>2. UNCHANGED <<cache, mem, memDig, cm, tick, faults>>
    BY <2>1 DEF Publish, manVars
  <2>3. \A E : Agree(E, cache, upstream, Late) => Agree(E, cache, upstream', Late')
    BY <2>1, <2>2, AgreePublish DEF Late
  <2>4. MatchInv'
    BY <1>a, <2>2, <2>3 DEF MatchInv, Integrating
  <2>5. StoredInv'
    BY <1>b, <2>2, <2>3 DEF StoredInv, Integrating
  <2> QED BY <2>4, <2>5
<1>3. CASE StartTick
  <2>1. StartsTick
    BY <1>3, StartTickShape
  <2>2. UNCHANGED <<upstream, cache, cm>> /\ ~Integrating /\ ~Integrating'
    BY <2>1 DEF StartsTick
  <2>3. Match(mem', memDig') /\ Agree(mem', cache, upstream, Late)
    <3>1. CASE mem' = mem /\ memDig' = memDig
      BY <1>a, <2>2, <3>1
    <3>2. CASE mem = Empty /\ mem' = cm.entries /\ memDig' = LoadedDigests
      <4>1. Agree(cm.entries, cache, upstream, Late)
        BY <1>b, <2>2, <3>2, EmptyBare
      <4> QED BY <1>0, <1>a, <3>2, <4>1, LoadedMatch
    <3>3. CASE mem' = Empty /\ memDig' = NoDigests
      BY <3>3, EmptyBare, BareOwns
    <3> QED BY <2>1, <3>1, <3>2, <3>3 DEF StartsTick
  <2>4. MatchInv'
    BY <1>a, <1>l, <2>1, <2>2, <2>3 DEF MatchInv, StartsTick
  <2>5. Bare(mem') => Bare(mem)
    BY <2>1, EmptyBare DEF StartsTick
  <2>6. StoredInv'
    BY <1>0, <1>b, <1>l, <2>2, <2>5 DEF StoredInv
  <2> QED BY <2>4, <2>6
<1>4. CASE Resolve \/ ResolveFails
  <2>1. PICK bad, patched : Resolves(bad, patched)
    BY <1>4, ResolveShape
  <2>2. /\ UNCHANGED <<upstream, mem, memDig, cm>> /\ ~Integrating /\ Integrating' /\ tick.pc = "resolve"
        /\ tick'.pc = "flush" /\ tick'.new = Resolved(bad) /\ tick'.dig = CatalogDigestsOf(NewCache(bad))
    BY <2>1 DEF Resolves
  <2>3. bad # {} => ~Late
    BY <1>0, <2>1 DEF Resolves, Late
  <2>4. /\ Match(Resolved(bad), CatalogDigestsOf(NewCache(bad)))
        /\ Agree(Resolved(bad), cache', upstream, Late')
    BY <1>a, <2>1, <2>2, <2>3, ResolvedMatches DEF WithinInv
  <2>5. MatchInv'
    BY <1>a, <2>2, <2>4 DEF MatchInv
  <2>6. ASSUME Bare(Resolved(bad)), "flush" \notin faults' PROVE Agree(cm.entries, cache', upstream, Late')
    <3>1. Agree(cm.entries, cache, upstream, Late)
      BY <1>0, <1>b, <2>2, <2>6
    <3>2. Agree(cm.entries, cache', upstream, Late)
      BY <1>a, <2>1, <2>2, <2>6, <3>1, ResolvedNothing DEF WithinInv
    <3> QED BY <1>0, <3>2, AgreeLess
  <2>7. StoredInv'
    BY <2>2, <2>6 DEF StoredInv
  <2> QED BY <2>5, <2>7
<1>5. CASE Flush \/ FlushFails
  <2>1. Flushes
    BY <1>5, FlushShape
  <2>2. UNCHANGED <<upstream, cache>> /\ tick'.pc = "status" /\ ~Integrating'
    BY <2>1 DEF Flushes
  <2>3. /\ Match(mem', memDig') /\ Agree(mem', cache, upstream, Late)
        /\ Integrating => (Bare(mem') <=> Bare(tick.new))
        /\ ~Integrating => mem' = mem
    BY <1>a, <2>1, SameSigs DEF Flushes
  <2>4. CASE cm' = [entries |-> mem', dig |-> memDig']
    <3>1. cm'.entries = mem' /\ cm'.dig = memDig'
      BY <2>4
    <3>2. MatchInv'
      BY <1>l, <2>2, <2>3, <3>1 DEF MatchInv
    <3>3. StoredInv'
      BY <1>l, <2>2, <2>3, <3>1 DEF StoredInv
    <3> QED BY <3>2, <3>3
  <2>5. CASE cm' = cm /\ "flush" \in faults' \ faults
    <3>1. MatchInv'
      BY <1>a, <1>l, <2>2, <2>3, <2>5 DEF MatchInv
    <3>2. Bare(mem') => Agree(cm.entries, cache, upstream, Late)
      BY <1>b, <2>3, <2>5
    <3>3. StoredInv'
      BY <1>l, <2>2, <2>5, <3>2 DEF StoredInv
    <3> QED BY <3>1, <3>3
  <2> QED BY <2>1, <2>4, <2>5 DEF Flushes
<1>6. CASE WriteStatus
  <2>1. /\ UNCHANGED <<upstream, cache, mem, memDig, cm, faults>> /\ ~Integrating /\ ~Integrating'
        /\ tick'.pc # "resolve"
    BY <1>6 DEF WriteStatus, Idle, Integrating, source
  <2> QED BY <1>a, <1>b, <1>l, <2>1 DEF MatchInv, StoredInv
<1>7. CASE Restart
  <2>1. /\ UNCHANGED <<upstream, cache, cm>> /\ mem' = Empty /\ memDig' = NoDigests
        /\ tick'.pc = "idle" /\ ~Integrating'
        /\ IF Integrating THEN "crash" \in faults' ELSE "restart" \in faults'
    BY <1>7 DEF Restart, Fault, Idle, Integrating, source
  <2>2. ~Integrating /\ "flush" \notin faults
    BY <1>0, <2>1 DEF Told
  <2>3. Agree(cm.entries, cache, upstream, Late')
    BY <1>b, <1>l, <2>2
  <2>4. Match(mem', memDig') /\ Agree(mem', cache, upstream, Late')
    BY <2>1, EmptyBare, BareOwns
  <2> QED BY <1>a, <2>1, <2>3, <2>4 DEF MatchInv, StoredInv
<1>8. CASE \E i \in Images : MirrorImage(i) \/ ImageGivenUp(i)
  <2>1. Reports
    BY <1>8, WorkerShape
  <2>2. UNCHANGED <<upstream, cache, memDig, tick, cm>> /\ (Integrating' <=> Integrating)
    BY <2>1 DEF Reports, Integrating
  <2>3. /\ Match(mem', memDig') /\ (~Integrating => Agree(mem', cache, upstream, Late))
        /\ Bare(mem') => Bare(mem)
    BY <1>a, <2>1, SameSigs DEF Reports
  <2>4. MatchInv'
    BY <1>a, <1>l, <2>2, <2>3 DEF MatchInv
  <2>5. StoredInv'
    BY <1>0, <1>b, <1>l, <2>2, <2>3 DEF StoredInv
  <2> QED BY <2>4, <2>5
<1> QED BY <1>1, <1>2, <1>3, <1>4, <1>5, <1>6, <1>7, <1>8, StepsOf

LEMMA BuildInit == Init => BuildInv /\ MatchInv /\ StoredInv
<1> SUFFICES ASSUME Init PROVE BuildInv /\ MatchInv /\ StoredInv
  OBVIOUS
<1>1. mem = Empty /\ cm.entries = Empty /\ tick.pc = "idle" /\ ~Integrating
  BY DEF Init, Idle, Integrating
<1>2. WithinInv /\ BackedInv /\ NamedInv
  BY <1>1, EmptyBare, BareOwns DEF WithinInv, BackedInv, NamedInv
<1>3. MatchInv /\ StoredInv
  BY <1>1, EmptyBare, BareOwns DEF MatchInv, StoredInv
<1> QED BY <1>2, <1>3, TypeInit DEF BuildInv

LEMMA BuildNext == BuildInv /\ [Next]_vars => BuildInv'
  BY TypeNext, WithinNext, BackedNext, NamedNext DEF BuildInv

\* The state ConfigMap never pairs a digest with the entries of another one,
\* for any catalogs, filters and images: with the faults of Told, the annotations
\* that the manager takes its digests from always describe the entries it has.
THEOREM DigestsDescribeEntries ==
    ASSUME ContentApart
    PROVE  Spec => [](Told => DigestMatchesEntries)
<1> DEFINE Inv == BuildInv /\ MatchInv /\ StoredInv
<1>1. Init => Inv
  BY BuildInit
<1>2. Inv /\ [Next]_vars => Inv'
  BY BuildNext, MatchNext DEF BuildInv
<1>3. Inv => (Told => DigestMatchesEntries)
  BY DEF MatchInv, Match, DigestMatchesEntries, Owned
<1> HIDE DEF Inv
<1> QED BY <1>1, <1>2, <1>3, PTL DEF Spec
-----------------------------------------------------------------------------
(***************************************************************************)
(* The controller and its Jobs.                                            *)
(***************************************************************************)
JobPhases == {"NotFound", "Running", "Succeeded", "Failed"}
JobOK ==
    /\ DOMAIN job = Catalogs /\ DOMAIN catalog = Catalogs /\ ready \in BOOLEAN
    /\ \A e \in Catalogs : /\ job[e] = [phase |-> job[e].phase, k |-> job[e].k, d |-> job[e].d]
                           /\ job[e].phase \in JobPhases
                           /\ job[e].phase = "NotFound" <=> job[e] = NoJob
                           /\ job[e] # NoJob => job[e].k \in Filters(e) /\ job[e].d \in Digests

JobsIdle == UNCHANGED <<last, ready, job, catalog>>
Ends(e) ==
    /\ job[e].phase \in {"Running", "Succeeded", "Failed"} /\ UNCHANGED <<last, ready>>
    /\ \/ job[e].phase = "Running" /\ job' = [job EXCEPT ![e].phase = "Succeeded"]
          /\ catalog' = [catalog EXCEPT ![e] = job'[e]]
       \/ job[e].phase = "Running" /\ job' = [job EXCEPT ![e].phase = "Failed"] /\ UNCHANGED catalog
       \/ job' = [job EXCEPT ![e] = NoJob] /\ UNCHANGED catalog
Reconciles ==
    UNCHANGED <<is, cm, registry, catalog>> /\ Operators # {} /\ (Build \/ BuildFromCache \/ BuildInterrupted)

LEMMA JobStepsOf ==
    ASSUME [Next]_vars
    PROVE  JobsIdle \/ Reconciles \/ \E e \in Catalogs : Ends(e) /\ UNCHANGED registry
<1>1. UNCHANGED vars \/ (\E s \in Specs : EditSpec(s)) \/ Recollect \/ PollExpires
        \/ (\E e \in Entries : Publish(e)) => JobsIdle
  BY DEF vars, EditSpec, Recollect, PollExpires, Publish, JobsIdle, ctlVars
<1>2. Manager \/ ResolveFails \/ FlushFails \/ Restart \/ (\E i \in Images : MirrorImage(i) \/ ImageGivenUp(i))
        => JobsIdle
  BY DEF Manager, StartTick, BeginTick, Resolve, ResolveFails, ResolveWith, Flush, FlushFails, FlushTo,
         WriteStatus, Restart, MirrorImage, ImageGivenUp, JobsIdle, ctlVars
<1>3. Build \/ BuildFromCache \/ BuildInterrupted => Reconciles
  BY DEF Build, BuildFromCache, BuildInterrupted, BuildWith, Reconciles
<1>4. ASSUME NEW e \in Catalogs, JobSucceeds(e) \/ JobFails(e) \/ JobExpires(e)
      PROVE  Ends(e) /\ UNCHANGED registry
  BY <1>4 DEF JobSucceeds, JobFails, JobExpires, Active, Ends
<1> QED BY <1>1, <1>2, <1>3, <1>4 DEF Next

\* What a reconcile does to the Jobs: each is a new one from the recorded spec
\* and digest, gone, or as it was.
Started(e) ==
    /\ e \in Operators /\ Complete /\ PinnedDigest(e) # 0
    /\ job'[e] = [phase |-> "Running", k |-> is.spec[e], d |-> PinnedDigest(e)]
LEMMA ReconcileJobs ==
    ASSUME Reconciles, JobOK
    PROVE  /\ DOMAIN job' = Catalogs /\ ready' \in BOOLEAN
           /\ \A e \in Catalogs : Started(e) \/ job'[e] = NoJob \/ job'[e] = job[e]
<1>1. ASSUME NEW stale, EnsureJobs(stale)
      PROVE  DOMAIN job' = Catalogs /\ \A e \in Catalogs : Started(e) \/ job'[e] = NoJob \/ job'[e] = job[e]
  BY <1>1 DEF EnsureJobs, Created, Wanted, Blocked, Started
<1>2. ASSUME NEW stale, BuildWith(stale)
      PROVE  /\ DOMAIN job' = Catalogs /\ ready' \in BOOLEAN
             /\ \A e \in Catalogs : Started(e) \/ job'[e] = NoJob \/ job'[e] = job[e]
  <2>1. CASE MustWait
    BY <1>2, <2>1 DEF BuildWith, Defer, JobOK
  <2>2. CASE ~MustWait
    <3>1. EnsureJobs(stale) /\ ready' \in BOOLEAN
      BY <1>2, <2>2 DEF BuildWith
    <3> QED BY <1>1, <3>1
  <2> QED BY <2>1, <2>2
<1>3. CASE Build \/ BuildFromCache
  BY <1>2, <1>3 DEF Build, BuildFromCache
<1>4. CASE BuildInterrupted
  BY <1>4 DEF BuildInterrupted, JobOK
<1> QED BY <1>3, <1>4 DEF Reconciles

LEMMA StartedTyped ==
    ASSUME TypeInv, NEW e \in Catalogs, Started(e)
    PROVE  job'[e].k \in Filters(e) /\ job'[e].d \in Digests
<1>1. e \in Entries /\ is.spec \in Specs /\ is.spec[e] # 0
  BY CatalogAssumption DEF Started, Operators, TypeInv, SpecOK
<1>2. is.spec[e] \in Filters(e)
  BY <1>1, SpecEntry
<1>3. cm.dig[e][is.spec[e]] \in 0..upstream[e] /\ upstream[e] \in 1..(moves + 1) /\ moves \in 0..MaxMoves
  BY <1>1, <1>2 DEF TypeInv, StateOK, IsDigests, SourceOK
<1>4. cm.dig[e][is.spec[e]] # 0 /\ job'[e].k = is.spec[e] /\ job'[e].d = cm.dig[e][is.spec[e]]
  BY DEF Started, PinnedDigest
<1> QED BY <1>2, <1>3, <1>4, CatalogAssumption DEF Digests

LEMMA JobInit == Init => JobOK
<1> SUFFICES ASSUME Init PROVE JobOK
  OBVIOUS
<1>1. /\ DOMAIN job = Catalogs /\ DOMAIN catalog = Catalogs /\ ready \in BOOLEAN
      /\ \A e \in Catalogs : job[e] = NoJob
  BY DEF Init
<1> QED BY <1>1 DEF JobOK, NoJob, JobPhases

LEMMA JobNext == TypeInv /\ JobOK /\ [Next]_vars => JobOK'
<1> SUFFICES ASSUME TypeInv, JobOK, [Next]_vars PROVE JobOK'
  OBVIOUS
<1>1. CASE JobsIdle
  BY <1>1 DEF JobsIdle, JobOK
<1>2. CASE Reconciles
  <2>1. DOMAIN job' = Catalogs /\ ready' \in BOOLEAN /\ catalog' = catalog
    BY <1>2, ReconcileJobs DEF Reconciles
  <2>2. ASSUME NEW e \in Catalogs
        PROVE  /\ job'[e] = [phase |-> job'[e].phase, k |-> job'[e].k, d |-> job'[e].d]
               /\ job'[e].phase \in JobPhases
               /\ job'[e].phase = "NotFound" <=> job'[e] = NoJob
               /\ job'[e] # NoJob => job'[e].k \in Filters(e) /\ job'[e].d \in Digests
    <3>1. CASE Started(e)
      BY <3>1, StartedTyped DEF Started, JobPhases, NoJob
    <3>2. CASE job'[e] = NoJob \/ job'[e] = job[e]
      BY <3>2 DEF JobOK, JobPhases, NoJob
    <3> QED BY <1>2, <3>1, <3>2, ReconcileJobs
  <2> QED BY <2>1, <2>2 DEF JobOK
<1>3. CASE \E e \in Catalogs : Ends(e)
  BY <1>3 DEF Ends, JobOK, JobPhases, NoJob
<1> QED BY <1>1, <1>2, <1>3, JobStepsOf

-----------------------------------------------------------------------------
(***************************************************************************)
(* A catalog advertises nothing that is not in the target registry.        *)
(***************************************************************************)
\* What is in the registry stays there.
LEMMA RegistryGrows ==
    ASSUME TypeInv, [Next]_vars
    PROVE  \A i \in Images : registry[i] # "absent" => registry'[i] # "absent"
<1>1. (\E i \in Images : MirrorImage(i) \/ ImageGivenUp(i))
        => \A i \in Images : registry[i] # "absent" => registry'[i] # "absent"
  BY WorkerShape DEF Reports
<1>2. StateIdle \/ (\E e \in Entries : Publish(e)) \/ StartTick \/ Flush \/ FlushFails \/ WriteStatus \/ Restart
        => registry' = registry
  BY DEF StateIdle, stateVars, Publish, StartTick, BeginTick, Flush, FlushFails, FlushTo, WriteStatus, Restart
<1>3. Resolve \/ ResolveFails => registry' = registry
  BY DEF Resolve, ResolveFails, ResolveWith
<1> QED BY <1>1, <1>2, <1>3, StepsOf

\* The gate: a Job is started when all it will advertise is there.
LEMMA StartedBacked ==
    ASSUME TypeInv, Backed(cm.entries, registry), Match(cm.entries, cm.dig), NEW e \in Catalogs, Started(e)
    PROVE  \A i \in Content[e][job'[e].k][job'[e].d] : registry[i] # "absent"
<1> DEFINE k == is.spec[e]
<1>1. /\ e \in Operators /\ Complete /\ cm.dig[e][k] # 0
      /\ job'[e].k = k /\ job'[e].d = cm.dig[e][k]
  BY DEF Started, PinnedDigest
<1>2. k \in Filters(e)
  BY <1>1, SpecEntry, CatalogAssumption DEF Operators, TypeInv, SpecOK
<1>3. Owned(cm.entries, e, k) # {}
  BY <1>1 DEF Complete, Owned, Sig
<1>4. Owned(cm.entries, e, k) = Content[e][k][cm.dig[e][k]]
  BY <1>1, <1>2, <1>3 DEF Match
<1> HIDE DEF k
<1>5. ASSUME NEW i \in Owned(cm.entries, e, k) PROVE registry[i] # "absent"
  <2>1. i \in Images /\ cm.entries[i] # None
    BY <1>5, SigNames DEF Owned
  <2>2. cm.entries[i].st = "Mirrored" \/ cm.entries[i].perm
    BY <1>1, <2>1 DEF Complete, Pending
  <2> QED BY <2>1, <2>2 DEF Backed
<1> QED BY <1>1, <1>4, <1>5

AdvertiseInv == Told => AdvertisesOnlyMirrored
LEMMA AdvertiseNext ==
    ASSUME BuildInv, MatchInv, JobOK, AdvertiseInv, [Next]_vars
    PROVE  AdvertiseInv'
<1> SUFFICES ASSUME Told', NEW e \in Catalogs, job'[e] # NoJob
             PROVE  \A i \in Content[e][job'[e].k][job'[e].d] : registry'[i] # "absent"
  BY DEF AdvertiseInv, AdvertisesOnlyMirrored
<1>0. TypeInv /\ Backed(cm.entries, registry) /\ Told
  BY StepsOf, ToldBefore DEF BuildInv, BackedInv
<1>1. Match(cm.entries, cm.dig) /\ \A i \in Images : registry[i] # "absent" => registry'[i] # "absent"
  BY <1>0, RegistryGrows DEF MatchInv
<1>2. job[e] # NoJob => \A i \in Content[e][job[e].k][job[e].d] : registry[i] # "absent"
  BY <1>0 DEF AdvertiseInv, AdvertisesOnlyMirrored
<1>3. \/ job[e] # NoJob /\ job'[e].k = job[e].k /\ job'[e].d = job[e].d
      \/ Started(e) /\ registry' = registry
  <2>1. CASE JobsIdle
    BY <2>1 DEF JobsIdle
  <2>2. CASE Reconciles
    BY <2>2, ReconcileJobs DEF Reconciles
  <2>3. CASE \E f \in Catalogs : Ends(f)
    BY <2>3 DEF Ends, JobOK, NoJob
  <2> QED BY <2>1, <2>2, <2>3, JobStepsOf
<1>4. CASE Started(e) /\ registry' = registry
  BY <1>0, <1>1, <1>4, StartedBacked
<1>5. CASE job[e] # NoJob /\ job'[e].k = job[e].k /\ job'[e].d = job[e].d
  <2>1. Content[e][job[e].k][job[e].d] \subseteq Images
    BY <1>5, CatalogAssumption DEF JobOK
  <2> QED BY <1>1, <1>2, <1>5, <2>1
<1> QED BY <1>3, <1>4, <1>5
\* A catalog never advertises an image that is not in the target registry, for
\* any catalogs, filters and images: the gate of reconcileCatalogBuildJobs opens
\* on the very entries that the pinned digest stands for.
THEOREM AdvertisedIsMirrored ==
    ASSUME ContentApart
    PROVE  Spec => [](Told => AdvertisesOnlyMirrored)
<1> DEFINE Inv == BuildInv /\ MatchInv /\ StoredInv /\ JobOK /\ AdvertiseInv
<1>1. Init => Inv
  <2>1. Init => AdvertiseInv
    BY DEF Init, AdvertiseInv, AdvertisesOnlyMirrored
  <2> QED BY <2>1, BuildInit, JobInit
<1>2. Inv /\ [Next]_vars => Inv'
  BY BuildNext, MatchNext, JobNext, AdvertiseNext DEF BuildInv
<1>3. Inv => (Told => AdvertisesOnlyMirrored)
  BY DEF AdvertiseInv
<1> HIDE DEF Inv
<1> QED BY <1>1, <1>2, <1>3, PTL DEF Spec

-----------------------------------------------------------------------------
(***************************************************************************)
(* CatalogReady stands for what was recorded.                              *)
(***************************************************************************)
\* A digest is missing only when a probe failed before the catalog was ever
\* resolved.  Two catalogs can then be recorded one after the other.
Countable == "probe" \notin faults \/ \A e, f \in Catalogs : e = f
Undisturbed == faults \cap {"cached", "interrupt"} = {} /\ Countable

Recorded(e, b, l) == <<e, b.k, b.d>> \in l.fp /\ b.k = l.spec[e]
\* The Jobs that exist, and the catalogs once ready, are of the recorded build.
JobsRecorded == \A e \in DOMAIN last.spec : job[e] # NoJob => Recorded(e, job[e], last)
JobsFollow == (\E e \in Catalogs : job[e] # NoJob) => last.spec # <<>>
JobsPushed == \A e \in Catalogs : job[e].phase = "Succeeded" => catalog[e] = job[e]
ReadyRecorded == ready => last.spec # <<>> /\ \A e \in DOMAIN last.spec : Recorded(e, catalog[e], last)
RecordInv ==
    /\ DOMAIN last.spec \subseteq Catalogs
    /\ Undisturbed => JobsRecorded /\ JobsFollow /\ JobsPushed /\ ReadyRecorded

LEMMA EmptySpec == DOMAIN <<>> = {}
  OBVIOUS

\* Where the state is complete, only a single catalog can be without a digest.
LEMMA CompleteNamed ==
    ASSUME TypeInv, NamedInv, Undisturbed, Complete, NEW f \in Operators, PinnedDigest(f) = 0
    PROVE  Operators = {f}
<1>1. CASE "probe" \in faults
  BY <1>1 DEF Undisturbed, Countable, Operators
<1>2. CASE "probe" \notin faults
  <2>1. f \in Catalogs /\ f \in Entries /\ is.spec \in Specs /\ is.spec[f] # 0
    BY CatalogAssumption DEF Operators, TypeInv, SpecOK
  <2>2. is.spec[f] \in Filters(f)
    BY <2>1, SpecEntry
  <2>3. Owned(cm.entries, f, is.spec[f]) # {}
    BY DEF Complete, Owned, Sig
  <2> QED BY <1>2, <2>1, <2>2, <2>3 DEF NamedInv, Named, PinnedDigest
<1> QED BY <1>1, <1>2

\* A reconcile that records a new build starts all its Jobs anew; one that does
\* not leaves the Jobs of the recorded build.
LEMMA FreshBuild ==
    ASSUME TypeInv, NamedInv, JobOK, Undisturbed, Complete, Operators # {}, EnsureJobs({}),
           Wanted({}) = Operators, \A e \in Operators : job[e] = NoJob \/ e \in Deleted,
           last' = [spec |-> BuildSignature, fp |-> IF Fingerprint # {} THEN Fingerprint ELSE last.fp]
    PROVE  \A e \in Operators : job'[e] = NoJob \/ Recorded(e, job'[e], last')
<1> SUFFICES ASSUME NEW e \in Operators, job'[e] # NoJob PROVE Recorded(e, job'[e], last')
  OBVIOUS
<1>0. e \in Catalogs
  BY DEF Operators
<1>1. \A f \in Operators : Blocked(f) => Operators = {f}
  BY CompleteNamed DEF Blocked
<1>2. Reached(e, {})
  BY <1>1 DEF Reached
<1>3. e \in Created({})
  BY <1>0, <1>2 DEF EnsureJobs
<1>4. /\ job'[e] = [phase |-> "Running", k |-> is.spec[e], d |-> PinnedDigest(e)] /\ PinnedDigest(e) # 0
  BY <1>0, <1>3 DEF EnsureJobs, Created, Blocked
<1>5. \A f \in Operators : PinnedDigest(f) # 0
  BY <1>4, CompleteNamed
<1>6. <<e, is.spec[e], PinnedDigest(e)>> \in Fingerprint
  BY <1>5 DEF Fingerprint
<1>7. last'.fp = Fingerprint /\ last'.spec[e] = is.spec[e]
  BY <1>6 DEF BuildSignature
<1> QED BY <1>4, <1>6, <1>7 DEF Recorded
LEMMA SignatureNotEmpty ==
    ASSUME Operators # {}
    PROVE  BuildSignature # <<>> /\ DOMAIN BuildSignature = Operators
<1>1. DOMAIN BuildSignature = Operators
  BY DEF BuildSignature
<1> QED BY <1>1, EmptySpec

LEMMA FreshRecords ==
    ASSUME TypeInv, NamedInv, JobOK, Undisturbed, JobsPushed, Complete, Operators # {}, EnsureJobs({}),
           Wanted({}) = Operators, \A e \in Operators : job[e] = NoJob \/ e \in Deleted,
           last' = [spec |-> BuildSignature, fp |-> IF Fingerprint # {} THEN Fingerprint ELSE last.fp],
           ready' = \A e \in Operators : Phase(e, {}) = "Succeeded", catalog' = catalog
    PROVE  JobsRecorded' /\ JobsFollow' /\ JobsPushed' /\ ReadyRecorded'
<1>1. last'.spec = BuildSignature /\ last'.spec # <<>> /\ DOMAIN last'.spec = Operators
  BY SignatureNotEmpty
<1>2. JobsRecorded'
  BY <1>1, FreshBuild DEF JobsRecorded
<1>3. JobsFollow'
  BY <1>1 DEF JobsFollow
<1>4. \A e \in Catalogs : job'[e].phase = "Running" \/ job'[e] = NoJob \/ job'[e] = job[e]
  BY DEF EnsureJobs
<1>5. JobsPushed'
  BY <1>4 DEF JobsPushed, NoJob
<1>6. ready' = FALSE
  BY DEF Phase
<1> QED BY <1>2, <1>3, <1>5, <1>6 DEF ReadyRecorded

LEMMA KeptRecords ==
    ASSUME TypeInv, NamedInv, JobOK, Undisturbed, Operators # {}, EnsureJobs({}),
           JobsRecorded, JobsFollow, JobsPushed, ReadyRecorded, DOMAIN last.spec \subseteq Catalogs,
           ~Rebuild, Complete => last.spec = BuildSignature /\ (Fingerprint = {} \/ last.fp = Fingerprint),
           last' = last, ready' = \A e \in Operators : Phase(e, {}) = "Succeeded", catalog' = catalog
    PROVE  JobsRecorded' /\ JobsFollow' /\ JobsPushed' /\ ReadyRecorded'
<1>0. Deleted = {}
  BY DEF Deleted
<1>1. ASSUME NEW e \in Catalogs PROVE job'[e] = job[e] \/ (Started(e) /\ Recorded(e, job'[e], last))
  <2>1. CASE e \in Created({})
    <3>1. Started(e)
      BY <2>1 DEF EnsureJobs, Created, Wanted, Blocked, Started
    <3>2. Complete /\ e \in Operators /\ PinnedDigest(e) # 0
      BY <3>1 DEF Started
    <3>3. \A f \in Operators : PinnedDigest(f) # 0
      BY <3>2, CompleteNamed
    <3>4. <<e, is.spec[e], PinnedDigest(e)>> \in Fingerprint
      BY <3>2, <3>3 DEF Fingerprint
    <3>5. last.fp = Fingerprint /\ last.spec[e] = is.spec[e]
      BY <3>2, <3>4 DEF BuildSignature
    <3> QED BY <3>1, <3>4, <3>5 DEF Started, Recorded
  <2>2. CASE e \notin Created({})
    BY <1>0, <2>2 DEF EnsureJobs
  <2> QED BY <2>1, <2>2
<1>2. JobsRecorded'
  BY <1>1 DEF JobsRecorded
<1>3. JobsFollow'
  <2>1. ASSUME NEW e \in Catalogs, Started(e) PROVE last.spec # <<>>
    BY <2>1, SignatureNotEmpty DEF Started
  <2> QED BY <1>1, <2>1 DEF JobsFollow
<1>4. JobsPushed'
  <2>1. \A e \in Catalogs : job'[e].phase = "Running" \/ job'[e] = job[e]
    BY <1>0 DEF EnsureJobs
  <2> QED BY <2>1 DEF JobsPushed
<1>5. ReadyRecorded'
  <2>1. CASE ready
    BY <2>1 DEF ReadyRecorded
  <2>2. CASE ~ready /\ ready'
    <3>1. Wanted({}) = {e \in Operators : job[e] = NoJob}
      BY <1>0, <2>2 DEF Wanted
    <3>2. \A e \in Operators : job[e] # NoJob /\ job[e].phase = "Succeeded"
      BY <2>2, <3>1 DEF Phase
    <3>3. last.spec # <<>> /\ last.spec \in {<<>>, BuildSignature}
      BY <3>2 DEF JobsFollow, Operators, Rebuild, NeedsRebuild
    <3>4. DOMAIN last.spec = Operators
      BY <3>3, SignatureNotEmpty
    <3>5. \A e \in Operators : catalog[e] = job[e] /\ Recorded(e, job[e], last)
      BY <3>2, <3>4 DEF JobsPushed, JobsRecorded, Operators
    <3> QED BY <3>3, <3>4, <3>5 DEF ReadyRecorded
  <2> QED BY <2>1, <2>2 DEF ReadyRecorded, JobOK
<1> QED BY <1>2, <1>3, <1>4, <1>5

LEMMA BuildRecords ==
    ASSUME TypeInv, NamedInv, JobOK, RecordInv, Undisturbed, Operators # {}, BuildWith({})
    PROVE  JobsRecorded' /\ JobsFollow' /\ JobsPushed' /\ ReadyRecorded'
<1>0. catalog' = catalog /\ JobsRecorded /\ JobsFollow /\ JobsPushed /\ ReadyRecorded /\ DOMAIN last.spec \subseteq Catalogs
  BY DEF BuildWith, RecordInv
<1>1. CASE MustWait
  <2>1. last' = last /\ job' = job /\ ready' = FALSE
    BY <1>1 DEF BuildWith, Defer
  <2> QED BY <1>0, <2>1 DEF JobsRecorded, JobsFollow, JobsPushed, ReadyRecorded
<1>2. CASE ~MustWait
  <2>1. Record /\ EnsureJobs({}) /\ ready' = \A e \in Operators : Phase(e, {}) = "Succeeded"
    BY <1>2 DEF BuildWith
  <2>2. Rebuild => Complete /\ ~AnyActive
    BY <1>2 DEF MustWait
  <2> DEFINE new == [spec |-> BuildSignature, fp |-> IF Fingerprint # {} THEN Fingerprint ELSE last.fp]
  <2>3. CASE Rebuild
    <3>1. last' = new
      BY <2>1, <2>2, <2>3 DEF Record
    <3>2. \A e \in Operators : job[e] = NoJob \/ e \in Deleted
      BY <2>2, <2>3 DEF AnyActive, Active, Deleted, JobOK, JobPhases, Operators
    <3>3. Wanted({}) = Operators
      BY <2>3, <3>2 DEF Wanted
    <3> QED BY <1>0, <2>1, <2>2, <2>3, <3>1, <3>2, <3>3, FreshRecords
  <2>4. CASE /\ ~Rebuild /\ Complete
             /\ last.spec # BuildSignature \/ (Fingerprint # {} /\ last.fp # Fingerprint)
    <3>1. last' = new
      BY <2>1, <2>4 DEF Record
    <3>2. ~ready /\ \A e \in Operators : job[e] = NoJob
      <4>1. CASE last.spec # BuildSignature
        <5>1. last.spec = <<>>
          BY <2>4, <4>1 DEF Rebuild, NeedsRebuild
        <5> QED BY <1>0, <5>1 DEF JobsFollow, ReadyRecorded, Operators, JobOK
      <4>2. CASE last.spec = BuildSignature /\ Fingerprint # {} /\ last.fp # Fingerprint
        <5>1. last.fp = {} /\ ~ready
          BY <2>4, <4>2 DEF Rebuild, NeedsRebuild
        <5> QED BY <1>0, <4>2, <5>1, SignatureNotEmpty DEF JobsRecorded, Recorded
      <4> QED BY <2>4, <4>1, <4>2
    <3>3. Wanted({}) = Operators
      BY <3>2 DEF Wanted
    <3> QED BY <1>0, <2>1, <2>4, <3>1, <3>2, <3>3, FreshRecords
  <2>5. CASE /\ ~Rebuild
             /\ Complete => last.spec = BuildSignature /\ (Fingerprint = {} \/ last.fp = Fingerprint)
    <3>1. last' = last
      BY <2>1, <2>5 DEF Record
    <3> QED BY <1>0, <2>1, <2>5, <3>1, KeptRecords
  <2> QED BY <2>3, <2>4, <2>5
<1> QED BY <1>1, <1>2

LEMMA RecordNext ==
    ASSUME TypeInv, NamedInv, JobOK, RecordInv, [Next]_vars
    PROVE  RecordInv'
<1>0. Undisturbed' => Undisturbed
  BY StepsOf DEF Undisturbed, Countable
<1>1. CASE JobsIdle
  BY <1>0, <1>1 DEF JobsIdle, RecordInv, JobsRecorded, JobsFollow, JobsPushed, ReadyRecorded
<1>2. CASE Reconciles
  <2>1. DOMAIN last'.spec \subseteq Catalogs
    <3>0. Defer \/ Record
      BY <1>2 DEF Reconciles, Build, BuildFromCache, BuildInterrupted, BuildWith
    <3>1. last' = last \/ last'.spec = BuildSignature
      BY <3>0 DEF Defer, Record
    <3>2. DOMAIN BuildSignature \subseteq Catalogs
      BY DEF BuildSignature, Operators
    <3> QED BY <3>1, <3>2 DEF RecordInv
  <2>2. ASSUME Undisturbed' PROVE JobsRecorded' /\ JobsFollow' /\ JobsPushed' /\ ReadyRecorded'
    <3>1. BuildWith({}) /\ Operators # {} /\ Undisturbed
      BY <1>0, <1>2, <2>2 DEF Reconciles, Build, BuildFromCache, BuildInterrupted, Fault, Undisturbed
    <3> QED BY <3>1, BuildRecords
  <2> QED BY <2>1, <2>2 DEF RecordInv
<1>3. ASSUME NEW e \in Catalogs, Ends(e) PROVE RecordInv'
  <2>1. /\ last' = last /\ ready' = ready /\ job[e] # NoJob
        /\ \A f \in Catalogs \ {e} : job'[f] = job[f] /\ catalog'[f] = catalog[f]
    BY <1>3 DEF Ends, JobOK, NoJob
  <2>2. \/ job'[e] = NoJob /\ catalog'[e] = catalog[e]
        \/ /\ job'[e] # NoJob /\ job'[e].k = job[e].k /\ job'[e].d = job[e].d
           /\ job'[e].phase = "Succeeded" => catalog'[e] = job'[e]
           /\ catalog'[e] = catalog[e] \/ (catalog'[e] = job'[e] /\ job[e] # NoJob)
    BY <1>3 DEF Ends, JobOK, NoJob
  <2>3. DOMAIN last.spec \subseteq Catalogs
    BY DEF RecordInv
  <2>4. ASSUME Undisturbed' PROVE JobsRecorded' /\ JobsFollow' /\ JobsPushed' /\ ReadyRecorded'
    <3>1. JobsRecorded /\ JobsFollow /\ JobsPushed /\ ReadyRecorded
      BY <1>0, <2>4 DEF RecordInv
    <3>2. JobsRecorded'
      BY <2>1, <2>2, <2>3, <3>1 DEF JobsRecorded, Recorded
    <3>3. JobsFollow'
      BY <2>1, <2>2, <3>1 DEF JobsFollow
    <3>4. JobsPushed'
      BY <2>1, <2>2, <3>1 DEF JobsPushed, NoJob
    <3>5. ReadyRecorded'
      BY <2>1, <2>2, <2>3, <3>1, <3>2 DEF ReadyRecorded, JobsRecorded, Recorded
    <3> QED BY <3>2, <3>3, <3>4, <3>5
  <2> QED BY <2>1, <2>3, <2>4 DEF RecordInv
<1> QED BY <1>1, <1>2, <1>3, JobStepsOf

\* CatalogReady means that the catalogs were built from the inputs recorded for
\* them, for any catalogs and edits.  No digest is missing as long as no probe
\* fails; with a single catalog one may, as then no other is recorded without it.
THEOREM ReadyIsRecorded ==
    Spec => [](Countable => ReadyAsRecordedUndisturbed)
<1> DEFINE Inv == TypeInv /\ NamedInv /\ JobOK /\ RecordInv
<1>1. Init => Inv
  <2>1. Init => RecordInv
    BY EmptySpec DEF Init, RecordInv, JobsRecorded, JobsFollow, JobsPushed, ReadyRecorded, NoJob
  <2> QED BY <2>1, BuildInit, JobInit DEF BuildInv
<1>2. Inv /\ [Next]_vars => Inv'
  BY TypeNext, NamedNext, JobNext, RecordNext
<1>3. Inv => (Countable => ReadyAsRecordedUndisturbed)
  BY DEF RecordInv, Undisturbed, ReadyRecorded, Recorded, ReadyAsRecordedUndisturbed, ReadyAsRecorded
<1> HIDE DEF Inv
<1> QED BY <1>1, <1>2, <1>3, PTL DEF Spec
=============================================================================
