--------------------------- MODULE PartitionProofs ---------------------------
(***************************************************************************)
(* Proofs about the partitioned image state: for any number of ImageSets   *)
(* and images, any edits, and any number of failed calls and crashes.      *)
(***************************************************************************)
EXTENDS PartitionedState, WellFoundedInduction, TLAPS

-----------------------------------------------------------------------------
(***************************************************************************)
(* Loading: what MergeLoaded makes of any number of copies of an image.    *)
(* The recursion is unfolded by induction over sets of indices.            *)
(***************************************************************************)
\* Induction up to a bound, over a set.
LEMMA UpTo ==
    ASSUME NEW N \in Nat, NEW S, 0 \in S, \A n \in 0..N : n < N /\ n \in S => n + 1 \in S
    PROVE  0..N \subseteq S
<1> DEFINE T == (0..N) \ S
<1> SUFFICES ASSUME T # {} PROVE FALSE
  OBVIOUS
<1>1. T \subseteq Nat
  OBVIOUS
<1>2. PICK x \in T : \A y \in T : ~(<<y, x>> \in OpToRel(<, Nat))
  BY <1>1, NatLessThanWellFounded, WFMin, Zenon
<1>3. \A y \in T : ~(y < x)
  BY <1>1, <1>2 DEF OpToRel
<1>4. x # 0 /\ x \in 0..N
  OBVIOUS
<1>5. x - 1 \in 0..N /\ x - 1 \notin T
  BY <1>3, <1>4
<1>6. x - 1 \in S /\ x - 1 < N
  BY <1>4, <1>5
<1>7. (x - 1) + 1 \in S
  BY <1>5, <1>6
<1> QED BY <1>4, <1>7

LEMMA MergeLoadedDefined ==
    ASSUME NEW copies, Len(copies) \in Nat
    PROVE  \E f : /\ f = [i \in 0..Len(copies) |->
                            IF i = 0 THEN None ELSE MergeLoadedEntry(f[i - 1], copies[i])]
                  /\ MergeLoaded(copies) = f[Len(copies)]
<1> DEFINE N == Len(copies)
           Defines(f, n) == f = [i \in 0..n |->
                                   IF i = 0 THEN None ELSE MergeLoadedEntry(f[i - 1], copies[i])]
           S == {n \in 0..N : \E f : Defines(f, n)}
<1>1. 0 \in S
  <2>1. Defines([i \in 0..0 |-> None], 0)
    OBVIOUS
  <2> HIDE DEF Defines
  <2> QED BY <2>1
<1>2. ASSUME NEW n \in 0..N, n < N, n \in S PROVE n + 1 \in S
  <2>1. PICK f : Defines(f, n)
    BY <1>2
  <2> DEFINE g == [i \in 0..(n + 1) |-> IF i = n + 1 THEN MergeLoadedEntry(f[n], copies[n + 1])
                                        ELSE f[i]]
  <2>2. \A i \in 0..n : g[i] = f[i]
    OBVIOUS
  <2>3. \A i \in 0..n : f[i] = IF i = 0 THEN None ELSE MergeLoadedEntry(f[i - 1], copies[i])
    BY <2>1
  <2>4. ASSUME NEW i \in 0..(n + 1)
        PROVE  g[i] = IF i = 0 THEN None ELSE MergeLoadedEntry(g[i - 1], copies[i])
    <3>1. CASE i = n + 1
      <4>1. i - 1 = n /\ i # 0
        BY <3>1
      <4>2. g[i - 1] = f[n]
        BY <4>1, <2>2
      <4>3. g[i] = MergeLoadedEntry(f[n], copies[i])
        BY <3>1
      <4> QED BY <4>1, <4>2, <4>3
    <3>2. CASE i # n + 1
      <4>1. i \in 0..n /\ g[i] = f[i]
        BY <3>2, <2>2
      <4>2. CASE i = 0
        BY <4>1, <4>2, <2>3
      <4>3. CASE i # 0
        <5>1. i - 1 \in 0..n
          BY <4>1, <4>3
        <5>2. g[i - 1] = f[i - 1]
          BY <5>1, <2>2
        <5> QED BY <4>1, <4>3, <5>2, <2>3
      <4> QED BY <4>2, <4>3
    <3> QED BY <3>1, <3>2
  <2>5. Defines(g, n + 1)
    BY <2>4
  <2>6. n + 1 \in 0..N
    BY <1>2
  <2> HIDE DEF Defines, g
  <2> QED BY <2>5, <2>6
<1>3. N \in S
  <2>1. N \in Nat
    OBVIOUS
  <2> HIDE DEF S, N
  <2>2. \A n \in 0..N : n < N /\ n \in S => n + 1 \in S
    BY <1>2
  <2>3. 0..N \subseteq S
    BY <1>1, <2>1, <2>2, UpTo
  <2> QED BY <2>1, <2>3
<1>4. \E f : Defines(f, N)
  BY <1>3
<1>5. MergeLoaded(copies) = (CHOOSE f : Defines(f, N))[N]
  BY DEF MergeLoaded
<1> HIDE DEF Defines
<1>6. Defines(CHOOSE f : Defines(f, N), N)
  BY <1>4
<1> QED BY <1>5, <1>6 DEF Defines

\* What is loaded of an image is one of its copies, if there is any.
LEMMA MergeLoadedFinds ==
    ASSUME NEW copies, Len(copies) \in Nat
    PROVE  \/ /\ MergeLoaded(copies) = None
              /\ \A i \in 1..Len(copies) : copies[i] = None
           \/ \E i \in 1..Len(copies) : copies[i] # None /\ MergeLoaded(copies) = copies[i]
<1>1. PICK f : /\ f = [i \in 0..Len(copies) |->
                         IF i = 0 THEN None ELSE MergeLoadedEntry(f[i - 1], copies[i])]
               /\ MergeLoaded(copies) = f[Len(copies)]
  BY MergeLoadedDefined
<1> DEFINE N == Len(copies)
           Found(n) == \/ f[n] = None /\ \A i \in 1..n : copies[i] = None
                       \/ \E i \in 1..n : copies[i] # None /\ f[n] = copies[i]
           S == {n \in 0..N : Found(n)}
<1>2. f[0] = None
  BY <1>1
<1>3. 0 \in S
  BY <1>2
<1>4. ASSUME NEW n \in 0..N, n < N, n \in S PROVE n + 1 \in S
  <2>1. n + 1 \in 0..N /\ n + 1 # 0 /\ (n + 1) - 1 = n /\ n + 1 \in 1..(n + 1)
    BY <1>4
  <2>2. f[n + 1] = MergeLoadedEntry(f[n], copies[n + 1])
    BY <1>1, <2>1
  <2>3. \A i \in 1..n : i \in 1..(n + 1)
    OBVIOUS
  <2>4. \A i \in 1..(n + 1) : i \in 1..n \/ i = n + 1
    OBVIOUS
  <2>5. f[n + 1] \in {f[n], copies[n + 1]}
        /\ (f[n + 1] = None => f[n] = None /\ copies[n + 1] = None)
    BY <2>2 DEF MergeLoadedEntry
  <2>6. Found(n)
    BY <1>4
  <2>7. Found(n + 1)
    BY <2>1, <2>3, <2>4, <2>5, <2>6
  <2> QED BY <2>1, <2>7
<1>5. Found(N)
  <2>1. N \in Nat
    OBVIOUS
  <2>2. \A n \in 0..N : n < N /\ n \in S => n + 1 \in S
    BY <1>4
  <2> HIDE DEF S
  <2>3. 0..N \subseteq S
    BY <1>3, <2>1, <2>2, UpTo
  <2> QED BY <2>1, <2>3 DEF S
<1> QED BY <1>1, <1>5

-----------------------------------------------------------------------------
(***************************************************************************)
(* The inductive invariants.                                               *)
(***************************************************************************)

Known == {"Pending", "Failed", "Mirrored"}

\* A record of the state: nothing, or an entry with progress.
IsEntry(e) == e = None \/ (e = Entry(e.st, e.rc, e.sig) /\ e.st \in Known /\ e.rc \in Nat)

PcOK ==
    \/ pc \in {Idle, [at |-> "load"], [at |-> "status"]}
    \/ pc \in [at : {"migrate", "resync"}, todo : SUBSET ImageSets]
    \/ pc \in [at : {"flush"}, todo : SUBSET ImageSets, ok : BOOLEAN]
    \/ pc \in [at : {"summary"}, ok : BOOLEAN]

\* While a flush goes on, memory is as the last resolution left it.
Resolved ==
    /\ pc.todo \subseteq Range(mt)
    /\ \A d \in Dests :
         /\ owners[d] \subseteq Range(mt)
         /\ owners[d] # {} => mem[d] # None
         /\ \A is \in owners[d] : meta[d][is] = is

StateInv ==
    /\ mt \in Seq(ImageSets) /\ resync \subseteq ImageSets
    /\ PcOK
    /\ DOMAIN mem = Dests /\ \A d \in Dests : IsEntry(mem[d])
    /\ owners \in [Dests -> SUBSET ImageSets]
    /\ DOMAIN cm = ImageSets
    /\ \A is \in ImageSets : DOMAIN cm[is] = Dests /\ \A d \in Dests : IsEntry(cm[is][d])
    /\ legacy \in [Dests -> SUBSET ImageSets]
    /\ \A d \in Dests : legacy[d] \subseteq Range(mt)
    /\ \A is \in ImageSets \ Range(mt) : \A d \in Dests : cm[is][d] = None
    /\ pc.at = "flush" => Resolved
    /\ pc.at = "migrate" => pc.todo \subseteq Range(mt)
    /\ OwnSignature

\* As long as no migration was given up, nothing but migrated entries is
\* written before the consolidated ConfigMap is gone.
Migrated(is) == Entry("Mirrored", 0, is)
MigrationInv ==
    /\ pc.at \in {"migrate", "load"} => mem = Empty
    /\ legacy # NoOwners =>
         /\ mem = Empty /\ pc.at \in {"idle", "migrate"}
         /\ \A is \in ImageSets, d \in Dests : cm[is][d] # None => is \in legacy[d]
    /\ pc.at = "migrate" => legacy # NoOwners
    /\ pc.at = "migrate" =>
         \A d \in Dests : \A is \in legacy[d] \ pc.todo : cm[is][d] = Migrated(is)

-----------------------------------------------------------------------------
(***************************************************************************)
(* Entries.                                                                *)
(***************************************************************************)
LEMMA EntryFields ==
    ASSUME NEW st \in Known, NEW rc \in Nat, NEW sig
    PROVE  /\ IsEntry(Entry(st, rc, sig)) /\ Entry(st, rc, sig) # None
           /\ Entry(st, rc, sig).st = st /\ Entry(st, rc, sig).rc = rc
           /\ Entry(st, rc, sig).sig = sig
  BY DEF IsEntry, Entry, None, Known

LEMMA NoneIsEntry == IsEntry(None) /\ None.sig = "" /\ None.st = "none" /\ None.rc = 0
  BY DEF IsEntry, None

LEMMA EntrySigned ==
    ASSUME NEW e, IsEntry(e), e # None, NEW sig
    PROVE  /\ IsEntry([e EXCEPT !.sig = sig]) /\ [e EXCEPT !.sig = sig] # None
           /\ [e EXCEPT !.sig = sig].sig = sig
           /\ Progress([e EXCEPT !.sig = sig]) = Progress(e)
<1>1. e = Entry(e.st, e.rc, e.sig) /\ e.st \in Known /\ e.rc \in Nat
  BY DEF IsEntry
<1>2. [e EXCEPT !.sig = sig] = Entry(e.st, e.rc, sig)
  BY <1>1 DEF Entry
<1>3. Progress(Entry(e.st, e.rc, sig)) = Progress(e)
  BY EntryFields, <1>1 DEF Progress
<1> QED BY <1>1, <1>2, <1>3, EntryFields

LEMMA KnownProgress ==
    ASSUME NEW e, IsEntry(e)
    PROVE  Progress(e) = Progress(None) <=> e = None
  BY DEF Progress, IsEntry, None, Known

-----------------------------------------------------------------------------
(***************************************************************************)
(* StateInv is an invariant.                                               *)
(***************************************************************************)
LEMMA StateInit == Init => StateInv
<1> SUFFICES ASSUME Init PROVE StateInv
  OBVIOUS
<1>1. mt \in Seq(ImageSets) /\ legacy \in [Dests -> SUBSET ImageSets]
  BY PartitionAssumption DEF Init
<1>2. PcOK /\ pc.at = "idle"
  BY DEF Init, PcOK, Idle
<1>3. /\ DOMAIN mem = Dests /\ \A d \in Dests : mem[d] = None
      /\ owners \in [Dests -> SUBSET ImageSets]
      /\ resync \subseteq ImageSets
  BY DEF Init, Empty, NoOwners
<1>4. /\ DOMAIN cm = ImageSets
      /\ \A is \in ImageSets : DOMAIN cm[is] = Dests /\ \A d \in Dests : cm[is][d] = None
  BY DEF Init, Empty
<1>5. \A d \in Dests : legacy[d] \subseteq Range(mt)
  BY DEF Init
<1> QED BY <1>1, <1>2, <1>3, <1>4, <1>5, NoneIsEntry DEF StateInv, OwnSignature

\* Steps that change neither memory nor disk.
LEMMA StateMove ==
    ASSUME StateInv, mt' = mt, mem' = mem, owners' = owners, meta' = meta, cm' = cm,
           legacy' = legacy, resync' \subseteq ImageSets,
           \/ pc' = pc
           \/ /\ PcOK' /\ pc'.at # "flush"
              /\ pc'.at = "migrate" => pc'.todo \subseteq Range(mt)
    PROVE  StateInv'
  BY DEF StateInv, PcOK, Resolved, OwnSignature

LEMMA StateUser ==
    ASSUME StateInv,
           EditImageSet \/ AddImageSet \/ \E is \in ImageSets : RequestResync(is)
    PROVE  StateInv'
<1>1. CASE EditImageSet
  BY <1>1, StateMove DEF EditImageSet, memory, disk, StateInv
<1>2. CASE AddImageSet
  <2>1. /\ mt' \in Seq(ImageSets) /\ mt \in Seq(ImageSets)
    BY <1>2, PartitionAssumption DEF AddImageSet, StateInv
  <2>2. Range(mt) \subseteq Range(mt')
    <3>1. Len(mt) <= Len(mt') /\ \A i \in 1..Len(mt) : mt[i] = mt'[i]
      BY <1>2, <2>1 DEF AddImageSet, IsStrictPrefix, IsPrefix
    <3>2. Len(mt) \in Nat /\ Len(mt') \in Nat /\ DOMAIN mt = 1..Len(mt) /\ DOMAIN mt' = 1..Len(mt')
      BY <2>1
    <3> QED BY <3>1, <3>2 DEF Range
  <2>3. /\ mem' = mem /\ owners' = owners /\ meta' = meta /\ cm' = cm /\ legacy' = legacy
        /\ pc' = pc /\ resync' = resync
    BY <1>2 DEF AddImageSet, memory, disk
  <2> QED BY <2>1, <2>2, <2>3 DEF StateInv, PcOK, Resolved, OwnSignature
<1>3. ASSUME NEW is \in ImageSets, RequestResync(is) PROVE StateInv'
  BY <1>3, StateMove DEF RequestResync, memory, disk, StateInv
<1> QED BY <1>1, <1>2, <1>3

\* A load finds one of the stored copies that could be read.
Loaded(unread, d) ==
    MergeLoaded([i \in 1..Len(mt) |-> IF mt[i] \in unread THEN None ELSE cm[mt[i]][d]])

LEMMA LoadFinds ==
    ASSUME StateInv, NEW unread, NEW d \in Dests
    PROVE  \/ /\ Loaded(unread, d) = None
              /\ \A is \in Range(mt) \ unread : cm[is][d] = None
           \/ \E is \in Range(mt) \ unread : cm[is][d] # None /\ Loaded(unread, d) = cm[is][d]
<1> DEFINE n == Len(mt)
           copies == [i \in 1..n |-> IF mt[i] \in unread THEN None ELSE cm[mt[i]][d]]
<1>1. /\ n \in Nat /\ DOMAIN mt = 1..n
  BY DEF StateInv
<1>2. Len(copies) = n
  BY <1>1
<1>3. Loaded(unread, d) = MergeLoaded(copies)
  BY DEF Loaded
<1>4. \A i \in 1..n : copies[i] = IF mt[i] \in unread THEN None ELSE cm[mt[i]][d]
  OBVIOUS
<1>5. \A is : is \in Range(mt) <=> \E i \in 1..n : is = mt[i]
  BY <1>1 DEF Range
<1> HIDE DEF copies, n
<1>6. \/ MergeLoaded(copies) = None /\ \A i \in 1..n : copies[i] = None
      \/ \E i \in 1..n : copies[i] # None /\ MergeLoaded(copies) = copies[i]
  BY <1>1, <1>2, MergeLoadedFinds
<1> QED BY <1>3, <1>4, <1>5, <1>6

LEMMA StateLoad ==
    ASSUME StateInv, NEW unread, LoadFrom(unread)
    PROVE  StateInv'
<1>1. /\ mt' = mt /\ resync' = resync /\ cm' = cm /\ legacy' = legacy
      /\ pc' = [at |-> "resync", todo |-> resync]
      /\ mem' = [d \in Dests |-> Loaded(unread, d)]
      /\ owners' = [d \in Dests |-> {is \in Range(mt) :
                                      (IF is \in unread THEN None ELSE cm[is][d]) # None}]
  BY Zenon DEF LoadFrom, user, disk, Loaded
<1>2. Range(mt) \subseteq ImageSets
  BY DEF StateInv, Range
<1>3. DOMAIN mem' = Dests
  BY <1>1
<1>4. ASSUME NEW d \in Dests PROVE IsEntry(mem'[d])
  <2>1. mem'[d] = Loaded(unread, d)
    BY <1>1
  <2>2. CASE Loaded(unread, d) = None
    BY <2>1, <2>2, NoneIsEntry
  <2>3. CASE \E is \in Range(mt) \ unread : cm[is][d] # None /\ Loaded(unread, d) = cm[is][d]
    <3>1. PICK is \in Range(mt) \ unread : Loaded(unread, d) = cm[is][d]
      BY <2>3
    <3>2. is \in ImageSets
      BY <1>2, <3>1
    <3>3. IsEntry(cm[is][d])
      BY <3>2 DEF StateInv
    <3> QED BY <2>1, <3>1, <3>3
  <2> QED BY <2>2, <2>3, LoadFinds
<1>5. owners' \in [Dests -> SUBSET ImageSets]
  BY <1>1, <1>2
<1>6. PcOK' /\ pc'.at = "resync"
  BY <1>1 DEF PcOK, StateInv
<1> QED BY <1>1, <1>3, <1>4, <1>5, <1>6 DEF StateInv, OwnSignature

LEMMA StateMigrate ==
    ASSUME StateInv,
           MigrateEnd \/ MigrateFails \/ \E is \in ImageSets : MigrateImageSet(is)
    PROVE  StateInv'
<1>1. CASE MigrateFails
  BY <1>1, StateMove DEF MigrateFails, user, memory, disk, StateInv, PcOK
<1>2. CASE MigrateEnd
  <2>1. /\ mt' = mt /\ resync' = resync /\ cm' = cm /\ mem' = mem /\ owners' = owners
        /\ meta' = meta /\ legacy' = NoOwners /\ pc' = [at |-> "load"]
    BY <1>2 DEF MigrateEnd, user, memory
  <2>2. PcOK' /\ pc'.at = "load"
    BY <2>1 DEF PcOK
  <2>3. /\ legacy' \in [Dests -> SUBSET ImageSets]
        /\ \A d \in Dests : legacy'[d] \subseteq Range(mt')
    BY <2>1 DEF NoOwners
  <2> QED BY <2>1, <2>2, <2>3 DEF StateInv, OwnSignature
<1>3. ASSUME NEW is \in ImageSets, MigrateImageSet(is) PROVE StateInv'
  <2>1. /\ mt' = mt /\ resync' = resync /\ mem' = mem /\ owners' = owners
        /\ meta' = meta /\ legacy' = legacy
        /\ pc.at = "migrate" /\ is \in pc.todo /\ pc' = [pc EXCEPT !.todo = @ \ {is}]
        /\ cm' = [cm EXCEPT ![is] = [d \in Dests |->
                     IF is \in legacy[d] THEN Entry("Mirrored", 0, is) ELSE None]]
    BY <1>3 DEF MigrateImageSet, user, memory
  <2>2. pc \in [at : {"migrate", "resync"}, todo : SUBSET ImageSets]
    BY <2>1 DEF StateInv, PcOK, Idle
  <2>3. PcOK' /\ pc'.at = "migrate" /\ pc'.todo = pc.todo \ {is}
    BY <2>1, <2>2 DEF PcOK
  <2>4. /\ DOMAIN cm' = ImageSets
        /\ \A x \in ImageSets : x # is => cm'[x] = cm[x]
        /\ DOMAIN cm'[is] = Dests
        /\ \A d \in Dests : cm'[is][d] = IF is \in legacy[d] THEN Entry("Mirrored", 0, is) ELSE None
    BY <2>1 DEF StateInv
  <2>5. ASSUME NEW d \in Dests
        PROVE  IsEntry(cm'[is][d]) /\ (cm'[is][d] # None => cm'[is][d].sig = is)
    <3>1. "Mirrored" \in Known
      BY DEF Known
    <3>2. CASE is \in legacy[d]
      <4>1. cm'[is][d] = Entry("Mirrored", 0, is)
        BY <2>4, <3>2
      <4> QED BY <4>1, <3>1, EntryFields
    <3>3. CASE is \notin legacy[d]
      <4>1. cm'[is][d] = None
        BY <2>4, <3>3
      <4> QED BY <4>1, NoneIsEntry
    <3> QED BY <3>2, <3>3
  <2>6. is \in Range(mt)
    BY <2>1 DEF StateInv
  <2>7. OwnSignature'
    BY <2>4, <2>5 DEF StateInv, OwnSignature
  <2>8. /\ \A x \in ImageSets : DOMAIN cm'[x] = Dests /\ \A d \in Dests : IsEntry(cm'[x][d])
        /\ \A x \in ImageSets \ Range(mt) : \A d \in Dests : cm'[x][d] = None
    BY <2>4, <2>5, <2>6 DEF StateInv
  <2> QED BY <2>1, <2>3, <2>4, <2>7, <2>8 DEF StateInv
<1> QED BY <1>1, <1>2, <1>3

LEMMA StateResync ==
    ASSUME StateInv, NEW is \in ImageSets, Resync(is)
    PROVE  StateInv'
<1>1. /\ mt' = mt /\ resync' \in {resync, resync \ {is}} /\ cm' = cm /\ legacy' = legacy
      /\ owners' = owners /\ pc.at = "resync" /\ pc' = [pc EXCEPT !.todo = @ \ {is}]
      /\ mem' = [d \in Dests |-> IF d \in Owned(is) \ busy THEN Entry("Pending", 0, mem[d].sig)
                                 ELSE mem[d]]
  BY DEF Resync, disk, ResetImageSetToPending
<1>2. pc \in [at : {"migrate", "resync"}, todo : SUBSET ImageSets]
  BY <1>1 DEF StateInv, PcOK, Idle
<1>3. PcOK' /\ pc'.at = "resync"
  BY <1>1, <1>2 DEF PcOK
<1>4. ASSUME NEW d \in Dests PROVE IsEntry(mem'[d])
  <2>1. "Pending" \in Known
    BY DEF Known
  <2>2. mem'[d] \in {mem[d], Entry("Pending", 0, mem[d].sig)}
    BY <1>1
  <2> QED BY <2>1, <2>2, EntryFields DEF StateInv
<1>5. DOMAIN mem' = Dests
  BY <1>1
<1> QED BY <1>1, <1>3, <1>4, <1>5 DEF StateInv, OwnSignature

\* What the resolution makes of an entry has the progress of before.
Fresh(d) == IF mem[d] = None THEN Entry("Pending", 0, "") ELSE mem[d]

LEMMA ResolveEntries ==
    ASSUME StateInv, Resolve, NEW d \in Dests
    PROVE  /\ owners'[d] = NewOwners[d] /\ NewOwners[d] \subseteq Range(mt)
           /\ NewOwners[d] = {} => mem'[d] = None
           /\ NewOwners[d] # {} => /\ mem'[d] # None
                                   /\ Progress(mem'[d]) = Progress(Fresh(d))
           /\ IsEntry(mem'[d])
           /\ \A is \in ImageSets : is \in NewOwners[d] => meta'[d][is] = is
<1>1. owners'[d] = NewOwners[d] /\ NewOwners[d] \subseteq Range(mt)
  BY DEF Resolve, NewOwners
<1>2. mem'[d] = IF NewOwners[d] = {} THEN None
                ELSE [Fresh(d) EXCEPT !.sig = Signed(d, Fresh(d).sig)]
  BY DEF Resolve, Fresh
<1>3. IsEntry(Fresh(d)) /\ Fresh(d) # None
  <2>1. CASE mem[d] = None
    <3>1. Fresh(d) = Entry("Pending", 0, "") /\ "Pending" \in Known
      BY <2>1 DEF Fresh, Known
    <3>2. IsEntry(Entry("Pending", 0, "")) /\ Entry("Pending", 0, "") # None
      BY DEF IsEntry, Entry, None, Known
    <3> QED BY <3>1, <3>2
  <2>2. CASE mem[d] # None
    BY <2>2 DEF Fresh, StateInv
  <2> QED BY <2>1, <2>2
<1>4. \A is \in ImageSets : is \in NewOwners[d] => meta'[d][is] = is
  BY DEF Resolve
<1>5. CASE NewOwners[d] = {}
  BY <1>1, <1>2, <1>4, <1>5, NoneIsEntry
<1>6. CASE NewOwners[d] # {}
  <2>1. mem'[d] = [Fresh(d) EXCEPT !.sig = Signed(d, Fresh(d).sig)]
    BY <1>2, <1>6
  <2> QED BY <1>1, <1>3, <1>4, <1>6, <2>1, EntrySigned
<1> QED BY <1>5, <1>6

LEMMA StateResolve ==
    ASSUME StateInv, Resolve
    PROVE  StateInv'
<1>1. /\ mt' = mt /\ resync' = resync /\ cm' = cm /\ legacy' = legacy
      /\ owners' = NewOwners /\ DOMAIN mem' = Dests
      /\ pc' \in {[at |-> "flush", todo |-> Range(mt), ok |-> TRUE],
                  [at |-> "summary", ok |-> FALSE], [at |-> "status"]}
  BY DEF Resolve, user, disk
<1>2. Range(mt) \subseteq ImageSets
  BY DEF StateInv, Range
<1>3. PcOK'
  <2>1. CASE pc' = [at |-> "flush", todo |-> Range(mt), ok |-> TRUE]
    <3>1. pc' \in [at : {"flush"}, todo : SUBSET ImageSets, ok : BOOLEAN]
      BY <1>2, <2>1
    <3> QED BY <3>1 DEF PcOK
  <2>2. CASE pc' = [at |-> "summary", ok |-> FALSE]
    BY <2>2 DEF PcOK
  <2>3. CASE pc' = [at |-> "status"]
    BY <2>3 DEF PcOK
  <2> QED BY <1>1, <2>1, <2>2, <2>3
<1>4. NewOwners \in [Dests -> SUBSET ImageSets]
  BY <1>2 DEF NewOwners
<1>5. pc'.at = "flush" => Resolved'
  <2> SUFFICES ASSUME pc'.at = "flush" PROVE Resolved'
    OBVIOUS
  <2>1. pc'.todo \subseteq Range(mt)
    BY <1>1
  <2>2. ASSUME NEW d \in Dests
        PROVE  /\ owners'[d] \subseteq Range(mt)
               /\ owners'[d] # {} => mem'[d] # None
               /\ \A is \in owners'[d] : meta'[d][is] = is
    BY <1>2, ResolveEntries
  <2> QED BY <1>1, <2>1, <2>2 DEF Resolved
<1>6. \A d \in Dests : IsEntry(mem'[d])
  BY ResolveEntries
<1>7. pc'.at # "migrate"
  BY <1>1
<1> QED BY <1>1, <1>3, <1>4, <1>5, <1>6, <1>7 DEF StateInv, OwnSignature

\* What a flush writes of an image: the progress in memory, with the owner's
\* own signature.
LEMMA ViewEntries ==
    ASSUME StateInv, pc.at = "flush", NEW is \in ImageSets, NEW d \in Dests
    PROVE  /\ is \notin owners[d] => View(is)[d] = None
           /\ is \in owners[d] => /\ View(is)[d] # None /\ View(is)[d].sig = is
                                  /\ Progress(View(is)[d]) = Progress(mem[d])
           /\ IsEntry(View(is)[d])
<1>1. View(is)[d] = IF is \in owners[d] THEN OwnerView(d, is) ELSE None
  BY DEF View, Owned
<1>2. CASE is \notin owners[d]
  BY <1>1, <1>2, NoneIsEntry
<1>3. CASE is \in owners[d]
  <2>1. meta[d][is] = is /\ is # "" /\ mem[d] # None /\ IsEntry(mem[d])
    BY <1>3, PartitionAssumption DEF StateInv, Resolved
  <2>2. View(is)[d] = [mem[d] EXCEPT !.sig = is]
    BY <1>1, <1>3, <2>1 DEF OwnerView
  <2>3. /\ IsEntry([mem[d] EXCEPT !.sig = is]) /\ [mem[d] EXCEPT !.sig = is] # None
        /\ [mem[d] EXCEPT !.sig = is].sig = is
        /\ Progress([mem[d] EXCEPT !.sig = is]) = Progress(mem[d])
    BY <2>1, EntrySigned
  <2> QED BY <1>3, <2>2, <2>3
<1> QED BY <1>2, <1>3

LEMMA StateFlush ==
    ASSUME StateInv, NEW is \in ImageSets, FlushOne(is)
    PROVE  StateInv'
<1>1. /\ mt' = mt /\ resync' = resync /\ mem' = mem /\ owners' = owners
      /\ meta' = meta /\ legacy' = legacy
      /\ pc.at = "flush" /\ is \in pc.todo
      /\ pc' \in {[pc EXCEPT !.todo = @ \ {is}], [pc EXCEPT !.todo = @ \ {is}, !.ok = FALSE]}
      /\ cm' \in {cm, [cm EXCEPT ![is] = View(is)]}
  BY DEF FlushOne, user, memory
<1>2. pc \in [at : {"flush"}, todo : SUBSET ImageSets, ok : BOOLEAN]
  BY <1>1 DEF StateInv, PcOK, Idle
<1>3. pc' \in [at : {"flush"}, todo : SUBSET ImageSets, ok : BOOLEAN] /\ pc'.todo = pc.todo \ {is}
  BY <1>1, <1>2
<1>4. PcOK' /\ pc'.at = "flush"
  BY <1>3 DEF PcOK
<1>5. Resolved'
  BY <1>1, <1>3 DEF StateInv, Resolved
<1>6. is \in Range(mt)
  BY <1>1 DEF StateInv, Resolved
<1>7. /\ DOMAIN cm' = ImageSets
      /\ \A x \in ImageSets : x # is => cm'[x] = cm[x]
      /\ cm'[is] \in {cm[is], View(is)}
  BY <1>1 DEF StateInv
<1>8. DOMAIN cm'[is] = Dests
  BY <1>7 DEF StateInv, View
<1>9. ASSUME NEW d \in Dests
      PROVE  IsEntry(cm'[is][d]) /\ (cm'[is][d] # None => cm'[is][d].sig = is)
  <2>1. CASE cm'[is] = cm[is]
    BY <2>1 DEF StateInv, OwnSignature
  <2>2. CASE cm'[is] = View(is)
    BY <1>1, <2>2, ViewEntries
  <2> QED BY <1>7, <2>1, <2>2
<1>10. OwnSignature'
  BY <1>7, <1>9 DEF StateInv, OwnSignature
<1>11. /\ \A x \in ImageSets : DOMAIN cm'[x] = Dests /\ \A d \in Dests : IsEntry(cm'[x][d])
       /\ \A x \in ImageSets \ Range(mt) : \A d \in Dests : cm'[x][d] = None
  BY <1>6, <1>7, <1>8, <1>9 DEF StateInv
<1> QED BY <1>1, <1>4, <1>5, <1>7, <1>10, <1>11 DEF StateInv

LEMMA StateMoves ==
    ASSUME StateInv,
           \/ StartTick \/ FlushIndex \/ SaveSummary \/ WriteStatus \/ Aggregate
           \/ \E d \in Dests : Dispatch(d)
    PROVE  StateInv'
<1>1. CASE StartTick
  <2>1. /\ mt' = mt /\ mem' = mem /\ owners' = owners /\ meta' = meta /\ cm' = cm
        /\ legacy' = legacy /\ resync' = resync
        /\ pc' \in {[at |-> "resync", todo |-> resync], [at |-> "load"],
                    [at |-> "migrate", todo |-> UNION Range(legacy)]}
    BY <1>1 DEF StartTick, user, memory, disk
  <2>2. UNION Range(legacy) \subseteq Range(mt) /\ Range(mt) \subseteq ImageSets
        /\ resync \subseteq ImageSets
    BY DEF StateInv, Range
  <2>3. PcOK' /\ pc'.at # "flush" /\ (pc'.at = "migrate" => pc'.todo \subseteq Range(mt))
    BY <2>1, <2>2 DEF PcOK
  <2> QED BY <2>1, <2>2, <2>3, StateMove
<1>2. CASE FlushIndex
  <2>1. pc \in [at : {"flush"}, todo : SUBSET ImageSets, ok : BOOLEAN]
    BY <1>2 DEF FlushIndex, StateInv, PcOK, Idle
  <2>2. /\ mt' = mt /\ mem' = mem /\ owners' = owners /\ meta' = meta /\ cm' = cm
        /\ legacy' = legacy /\ resync' = resync
        /\ pc' \in {[at |-> "summary", ok |-> pc.ok], [at |-> "summary", ok |-> FALSE]}
    BY <1>2 DEF FlushIndex, user, memory
  <2>3. PcOK' /\ pc'.at = "summary"
    <3>1. pc.ok \in BOOLEAN
      BY <2>1
    <3>2. pc' \in [at : {"summary"}, ok : BOOLEAN]
      <4>1. CASE pc' = [at |-> "summary", ok |-> pc.ok]
        <5>1. \A b \in BOOLEAN : [at |-> "summary", ok |-> b] \in [at : {"summary"}, ok : BOOLEAN]
          OBVIOUS
        <5> QED BY <3>1, <4>1, <5>1, Zenon
      <4>2. CASE pc' = [at |-> "summary", ok |-> FALSE]
        BY <4>2
      <4> QED BY <2>2, <4>1, <4>2
    <3> QED BY <3>2 DEF PcOK
  <2> QED BY <2>2, <2>3, StateMove DEF StateInv
<1>3. CASE SaveSummary
  BY <1>3, StateMove DEF SaveSummary, user, StateInv, PcOK
<1>4. CASE WriteStatus
  BY <1>4, StateMove DEF WriteStatus, user, memory, disk, StateInv, PcOK, Idle
<1>5. CASE Aggregate
  BY <1>5, StateMove DEF Aggregate, user, memory, disk, StateInv
<1>6. ASSUME NEW d \in Dests, Dispatch(d) PROVE StateInv'
  BY <1>6, StateMove DEF Dispatch, user, disk, StateInv
<1> QED BY <1>1, <1>2, <1>3, <1>4, <1>5, <1>6

\* What a report makes of an entry.
LEMMA ReportEntries ==
    ASSUME StateInv, NEW d \in Dests, Report(d)
    PROVE  /\ DOMAIN mem' = Dests
           /\ \A x \in Dests : x # d => mem'[x] = mem[x]
           /\ mem[d] = None => mem'[d] = None
           /\ mem[d] # None => IsEntry(mem'[d]) /\ mem'[d] # None
<1>1. CASE mem[d] = None
  BY <1>1 DEF Report, StateInv
<1>2. CASE mem[d] # None
  <2>1. mem[d] = Entry(mem[d].st, mem[d].rc, mem[d].sig) /\ mem[d].rc + 1 \in Nat
    BY <1>2 DEF StateInv, IsEntry
  <2>2. CASE mem' = [mem EXCEPT ![d] = Entry("Mirrored", 0, @.sig)]
    <3>1. mem'[d] = Entry("Mirrored", 0, mem[d].sig) /\ "Mirrored" \in Known
      BY <2>2 DEF StateInv, Known
    <3>2. IsEntry(mem'[d]) /\ mem'[d] # None
      BY <3>1, EntryFields
    <3> QED BY <1>2, <2>2, <3>2 DEF StateInv
  <2>3. CASE mem' = [mem EXCEPT ![d].rc = @ + 1,
                                ![d].st = IF mem[d].rc + 1 >= MaxRetry THEN "Failed" ELSE "Pending"]
    <3> DEFINE st == IF mem[d].rc + 1 >= MaxRetry THEN "Failed" ELSE "Pending"
    <3>1. st \in Known
      BY DEF Known
    <3> HIDE DEF st
    <3>2. mem'[d] = [mem[d] EXCEPT !.rc = @ + 1, !.st = st]
      BY <2>3 DEF StateInv, st
    <3>3. mem'[d] = Entry(st, mem[d].rc + 1, mem[d].sig)
      BY <3>2, <2>1 DEF Entry
    <3>4. IsEntry(mem'[d]) /\ mem'[d] # None
      BY <2>1, <3>1, <3>3, EntryFields
    <3> QED BY <1>2, <2>3, <3>4 DEF StateInv
  <2> QED BY <1>2, <2>2, <2>3 DEF Report
<1> QED BY <1>1, <1>2

LEMMA StateReport ==
    ASSUME StateInv, NEW d \in Dests, Report(d)
    PROVE  StateInv'
<1>1. /\ mt' = mt /\ resync' = resync /\ cm' = cm /\ legacy' = legacy
      /\ owners' = owners /\ meta' = meta /\ pc' = pc /\ pc = Idle
  BY DEF Report, user, disk
<1>2. DOMAIN mem' = Dests /\ \A x \in Dests : IsEntry(mem'[x])
  <2>1. DOMAIN mem' = Dests
    BY ReportEntries
  <2>2. ASSUME NEW x \in Dests PROVE IsEntry(mem'[x])
    BY ReportEntries, NoneIsEntry DEF StateInv
  <2> QED BY <2>1, <2>2
<1>3. PcOK' /\ pc'.at = "idle"
  BY <1>1 DEF PcOK, Idle
<1> QED BY <1>1, <1>2, <1>3 DEF StateInv, OwnSignature

LEMMA StateCrash ==
    ASSUME StateInv, Crash
    PROVE  StateInv'
<1>1. /\ mt' = mt /\ resync' = resync /\ cm' = cm /\ legacy' = legacy
      /\ owners' = NoOwners /\ mem' = Empty /\ pc' = Idle
  BY DEF Crash, user, disk
<1>2. DOMAIN mem' = Dests /\ \A d \in Dests : IsEntry(mem'[d])
  BY <1>1, NoneIsEntry DEF Empty
<1>3. owners' \in [Dests -> SUBSET ImageSets]
  BY <1>1 DEF NoOwners
<1>4. PcOK' /\ pc'.at = "idle"
  BY <1>1 DEF PcOK, Idle
<1> QED BY <1>1, <1>2, <1>3, <1>4 DEF StateInv, OwnSignature

LEMMA StateStep == StateInv /\ [Next]_vars => StateInv'
<1> SUFFICES ASSUME StateInv, [Next]_vars PROVE StateInv'
  OBVIOUS
<1>1. CASE UNCHANGED vars
  BY <1>1, StateMove DEF vars, user, memory, disk, StateInv
<1>2. CASE EditImageSet \/ AddImageSet \/ \E is \in ImageSets : RequestResync(is)
  BY <1>2, StateUser
<1>3. CASE LoadState \/ LoadFails
  BY <1>3, StateLoad DEF LoadState, LoadFails
<1>4. CASE MigrateEnd \/ MigrateFails \/ \E is \in ImageSets : MigrateImageSet(is)
  BY <1>4, StateMigrate
<1>5. CASE \/ StartTick \/ FlushIndex \/ SaveSummary \/ WriteStatus \/ Aggregate
           \/ \E d \in Dests : Dispatch(d)
  BY <1>5, StateMoves
<1>6. CASE Resolve \/ Crash
  BY <1>6, StateResolve, StateCrash
<1>7. ASSUME NEW is \in ImageSets, Resync(is) \/ FlushOne(is) PROVE StateInv'
  BY <1>7, StateResync, StateFlush
<1>8. ASSUME NEW d \in Dests, Report(d) PROVE StateInv'
  BY <1>8, StateReport
<1> QED BY <1>1, <1>2, <1>3, <1>4, <1>5, <1>6, <1>7, <1>8 DEF Next, Manager

LEMMA StateAlways == Spec => []StateInv
  BY StateInit, StateStep, PTL DEF Spec

\* The ConfigMap of every ImageSet carries the signatures of its own entries,
\* through every flush, migration, failed write, restart and edit.
THEOREM EveryOwnerKeepsItsSignature == Spec => []OwnSignature
<1>1. StateInv => OwnSignature
  BY DEF StateInv
<1> QED BY <1>1, StateAlways, PTL

-----------------------------------------------------------------------------
(***************************************************************************)
(* MigrationInv is an invariant, unless a migration may be given up.       *)
(***************************************************************************)
LEMMA MigrationInit == Init => MigrationInv
<1> SUFFICES ASSUME Init PROVE MigrationInv
  OBVIOUS
<1>1. mem = Empty /\ pc.at = "idle" /\ \A is \in ImageSets, d \in Dests : cm[is][d] = None
  BY DEF Init, Empty, Idle
<1> QED BY <1>1 DEF MigrationInv

LEMMA MigrationMove ==
    ASSUME MigrationInv, cm' = cm, legacy' = legacy, mem' = mem, pc' = pc
    PROVE  MigrationInv'
  BY DEF MigrationInv

\* Once the manager has loaded, the consolidated ConfigMap is gone.
LEMMA MigrationOver ==
    ASSUME MigrationInv, legacy' = legacy,
           pc.at \notin {"idle", "migrate"} \/ legacy = NoOwners,
           pc'.at # "migrate", pc'.at = "load" => mem' = Empty
    PROVE  MigrationInv'
  BY DEF MigrationInv

LEMMA MigrationStep ==
    ASSUME "migrate" \notin Faults, StateInv, MigrationInv, [Next]_vars
    PROVE  MigrationInv'
<1>1. CASE \/ UNCHANGED vars \/ EditImageSet \/ AddImageSet \/ Aggregate
           \/ \E is \in ImageSets : RequestResync(is)
           \/ \E d \in Dests : Dispatch(d)
  BY <1>1, MigrationMove
     DEF vars, user, memory, disk, EditImageSet, AddImageSet, Aggregate, RequestResync, Dispatch
<1>2. CASE StartTick
  <2>1. /\ cm' = cm /\ legacy' = legacy /\ mem' = mem /\ pc = Idle
        /\ pc' = IF mem # Empty THEN [at |-> "resync", todo |-> resync]
                 ELSE IF legacy = NoOwners THEN [at |-> "load"]
                 ELSE [at |-> "migrate", todo |-> UNION Range(legacy)]
    BY <1>2 DEF StartTick, memory, disk
  <2>2. CASE mem # Empty
    BY <2>1, <2>2, MigrationOver DEF MigrationInv
  <2>3. CASE mem = Empty /\ legacy = NoOwners
    BY <2>1, <2>3, MigrationOver
  <2>4. CASE mem = Empty /\ legacy # NoOwners
    <3>1. pc' = [at |-> "migrate", todo |-> UNION Range(legacy)]
      BY <2>1, <2>4
    <3>2. \A d \in Dests : legacy[d] \ pc'.todo = {}
      BY <3>1 DEF StateInv, Range
    <3> QED BY <2>1, <2>4, <3>1, <3>2 DEF MigrationInv
  <2> QED BY <2>2, <2>3, <2>4
<1>3. ASSUME NEW is \in ImageSets, MigrateImageSet(is) PROVE MigrationInv'
  <2>1. /\ mem' = mem /\ legacy' = legacy
        /\ pc.at = "migrate" /\ is \in pc.todo /\ pc' = [pc EXCEPT !.todo = @ \ {is}]
        /\ cm' = [cm EXCEPT ![is] = [d \in Dests |->
                     IF is \in legacy[d] THEN Entry("Mirrored", 0, is) ELSE None]]
    BY <1>3 DEF MigrateImageSet, memory
  <2>2. pc \in [at : {"migrate", "resync"}, todo : SUBSET ImageSets]
    BY <2>1 DEF StateInv, PcOK, Idle
  <2>3. pc'.at = "migrate" /\ pc'.todo = pc.todo \ {is}
    BY <2>1, <2>2
  <2>4. /\ \A x \in ImageSets : x # is => cm'[x] = cm[x]
        /\ \A d \in Dests : cm'[is][d] = IF is \in legacy[d] THEN Migrated(is) ELSE None
    BY <2>1 DEF StateInv, Migrated
  <2>5. \A d \in Dests : legacy[d] \subseteq ImageSets
    BY DEF StateInv
  <2> QED BY <2>1, <2>3, <2>4, <2>5 DEF MigrationInv
<1>4. CASE MigrateEnd
  BY <1>4 DEF MigrateEnd, memory, MigrationInv
<1>5. ~MigrateFails
  BY DEF MigrateFails, Fault
<1>6. CASE LoadState \/ LoadFails
  <2>1. legacy' = legacy /\ pc.at = "load" /\ pc' = [at |-> "resync", todo |-> resync]
    BY <1>6, Zenon DEF LoadState, LoadFails, LoadFrom, disk
  <2> QED BY <2>1, MigrationOver
<1>7. ASSUME NEW is \in ImageSets, Resync(is) \/ FlushOne(is) PROVE MigrationInv'
  <2>1. legacy' = legacy /\ pc.at \in {"resync", "flush"}
        /\ pc' \in {[pc EXCEPT !.todo = @ \ {is}], [pc EXCEPT !.todo = @ \ {is}, !.ok = FALSE]}
    BY <1>7 DEF Resync, FlushOne, disk
  <2>2. \/ pc \in [at : {"migrate", "resync"}, todo : SUBSET ImageSets]
        \/ pc \in [at : {"flush"}, todo : SUBSET ImageSets, ok : BOOLEAN]
    BY <2>1 DEF StateInv, PcOK, Idle
  <2>3. pc'.at = pc.at
    BY <2>1, <2>2
  <2> QED BY <2>1, <2>3, MigrationOver
<1>8. CASE Resolve
  <2>1. legacy' = legacy /\ pc.at = "resync" /\ pc'.at \in {"flush", "summary", "status"}
    BY <1>8 DEF Resolve, disk
  <2> QED BY <2>1, MigrationOver
<1>9. CASE FlushIndex \/ SaveSummary \/ WriteStatus
  <2>1. legacy' = legacy /\ pc.at \in {"flush", "summary", "status"}
        /\ pc'.at \in {"summary", "status", "idle"}
    BY <1>9 DEF FlushIndex, SaveSummary, WriteStatus, disk, Idle
  <2> QED BY <2>1, MigrationOver
<1>10. ASSUME NEW d \in Dests, Report(d) PROVE MigrationInv'
  <2>1. /\ cm' = cm /\ legacy' = legacy /\ pc' = pc /\ pc.at = "idle" /\ pc'.at = "idle"
    BY <1>10 DEF Report, disk, Idle
  <2>2. CASE legacy = NoOwners
    BY <2>1, <2>2, MigrationOver
  <2>3. CASE legacy # NoOwners
    <3>1. mem[d] = None
      BY <2>3 DEF MigrationInv, Empty
    <3>2. mem' = mem
      BY <1>10, <3>1 DEF Report
    <3> QED BY <2>1, <3>2, MigrationMove
  <2> QED BY <2>2, <2>3
<1>11. CASE Crash
  <2>1. /\ cm' = cm /\ legacy' = legacy /\ mem' = Empty /\ pc'.at = "idle"
    BY <1>11 DEF Crash, disk, Idle
  <2> QED BY <2>1 DEF MigrationInv
<1> QED BY <1>1, <1>2, <1>3, <1>4, <1>5, <1>6, <1>7, <1>8, <1>9, <1>10, <1>11 DEF Next, Manager

LEMMA MigrationAlways ==
    ASSUME "migrate" \notin Faults
    PROVE  Spec => [](StateInv /\ MigrationInv)
<1>1. StateInv /\ MigrationInv /\ [Next]_vars => MigrationInv'
  BY MigrationStep
<1> QED BY <1>1, MigrationInit, StateAlways, PTL DEF Spec

-----------------------------------------------------------------------------
(***************************************************************************)
(* The ConfigMaps implement one store.  What the store's variables stand   *)
(* for here, and its steps in these terms.                                 *)
(***************************************************************************)
Live == [d \in Dests |-> Progress(mem[d])]
Stored == [d \in Dests |-> Copies(d)]
HasLoaded == mem # Empty \/ pc.at \notin {"idle", "migrate", "load"}
Impaired == faults \cap {"migrate", "load"} # {}
Moving == {d \in Dests : \A is \in owners[d] : cm[is][d] = None}
storeVars == <<Live, Stored, HasLoaded, Impaired>>
StoreStep == [Store!Next]_storeVars

LEMMA StoreInitially ==
    ASSUME Live = [d \in Dests |-> Progress(None)], ~HasLoaded, ~Impaired
    PROVE  Store!Init
  BY DEF Store!Init, Live, HasLoaded, Impaired

LEMMA StoreWorks ==
    ASSUME HasLoaded, UNCHANGED <<Stored, HasLoaded, Impaired>>
    PROVE  StoreStep
<1>1. Store!Work
  BY DEF Store!Work, HasLoaded, Stored, Impaired
<1> QED BY <1>1 DEF Store!Next, StoreStep

LEMMA StoreWrites ==
    ASSUME UNCHANGED <<Live, HasLoaded, Impaired>>,
           \A d \in Dests :
               /\ Stored'[d] \subseteq Stored[d] \cup ({Live[d]} \ {Progress(None)})
               /\ Stored'[d] = {} =>
                    Stored[d] = {} \/ (HasLoaded /\ (Live[d] = Progress(None) \/ d \in Moving))
    PROVE  StoreStep
<1>1. Store!Write
  BY Zenon DEF Store!Write, Live, HasLoaded, Stored, Impaired, Moving
<1> QED BY <1>1 DEF Store!Next, StoreStep

LEMMA StoreRestarts ==
    ASSUME ~HasLoaded', Live' = [d \in Dests |-> Progress(None)], UNCHANGED <<Stored, Impaired>>
    PROVE  StoreStep
<1>1. Store!Restart
  BY DEF Store!Restart, Live, HasLoaded, Impaired, Stored
<1> QED BY <1>1 DEF Store!Next, StoreStep

LEMMA StoreLoads ==
    ASSUME ~HasLoaded, HasLoaded', Impaired => Impaired', UNCHANGED Stored,
           \A d \in Dests : Live'[d] \in (IF Stored[d] = {} \/ Impaired'
                                          THEN Stored[d] \cup {Progress(None)} ELSE Stored[d])
    PROVE  StoreStep
<1>1. Store!Load
  BY Zenon DEF Store!Load, Live, HasLoaded, Impaired, Stored
<1> QED BY <1>1 DEF Store!Next, StoreStep

LEMMA StoreStutters ==
    ASSUME UNCHANGED <<Live, Stored, HasLoaded, Impaired>>
    PROVE  StoreStep
  BY DEF StoreStep, storeVars

\* Which variables the store reads.
LEMMA SameStored ==
    ASSUME mt' = mt, cm' = cm, legacy' = legacy
    PROVE  Stored' = Stored
  BY DEF Stored, Copies

LEMMA SameLive ==
    ASSUME mem' = mem
    PROVE  Live' = Live
  BY DEF Live

LEMMA NothingLive ==
    ASSUME mem = Empty
    PROVE  Live = [d \in Dests |-> Progress(None)]
  BY DEF Live, Empty

LEMMA StillImpaired ==
    ASSUME \/ UNCHANGED faults
           \/ \E kind \in {"write", "copy", "clear", "crash"} : Fault(kind)
    PROVE  Impaired' = Impaired
  BY DEF Impaired, Fault

\* The copies a restart may find of an image.
StoredIs ==
    \A d \in Dests : \A p : p \in Stored[d] <=>
        \/ \E is \in Range(mt) : cm[is][d] # None /\ p = Progress(cm[is][d])
        \/ legacy[d] # {} /\ p = [st |-> "Mirrored", rc |-> 0]

LEMMA StoredCopies == StoredIs /\ StoredIs'
<1>1. StoredIs
  <2> SUFFICES ASSUME NEW d \in Dests, NEW p
               PROVE  p \in Stored[d] <=>
                        \/ \E is \in Range(mt) : cm[is][d] # None /\ p = Progress(cm[is][d])
                        \/ legacy[d] # {} /\ p = [st |-> "Mirrored", rc |-> 0]
    BY DEF StoredIs
  <2>1. Stored[d] = Copies(d)
    BY DEF Stored
  <2>2. p \in {Progress(cm[is][d]) : is \in {x \in Range(mt) : cm[x][d] # None}}
          <=> \E is \in Range(mt) : cm[is][d] # None /\ p = Progress(cm[is][d])
    OBVIOUS
  <2>3. p \in (IF legacy[d] = {} THEN {} ELSE {[st |-> "Mirrored", rc |-> 0]})
          <=> legacy[d] # {} /\ p = [st |-> "Mirrored", rc |-> 0]
    OBVIOUS
  <2> QED BY <2>1, <2>2, <2>3, Zenon DEF Copies
<1> QED BY <1>1, PTL

\* Steps that change nothing the store shows.
LEMMA StoreSilent ==
    ASSUME StateInv, StateInv', MigrationInv,
           \/ UNCHANGED vars \/ EditImageSet \/ AddImageSet \/ Aggregate
           \/ StartTick \/ MigrateEnd \/ FlushIndex \/ SaveSummary
           \/ \E is \in ImageSets : RequestResync(is)
           \/ \E d \in Dests : Dispatch(d)
    PROVE  StoreStep
<1>1. CASE \/ UNCHANGED vars \/ EditImageSet \/ Aggregate
           \/ \E is \in ImageSets : RequestResync(is)
           \/ \E d \in Dests : Dispatch(d)
  <2>1. UNCHANGED <<mt, mem, cm, legacy, pc, faults>>
    BY <1>1 DEF vars, user, memory, disk, EditImageSet, Aggregate, RequestResync, Dispatch
  <2>2. HasLoaded' = HasLoaded
    BY <2>1 DEF HasLoaded, Empty
  <2> QED BY <2>1, <2>2, SameStored, SameLive, StillImpaired, StoreStutters
<1>2. CASE AddImageSet
  <2>1. UNCHANGED <<mem, cm, legacy, pc, faults>>
    BY <1>2 DEF AddImageSet, memory, disk
  <2>2. HasLoaded' = HasLoaded
    BY <2>1 DEF HasLoaded, Empty
  <2>3. Range(mt) \subseteq Range(mt') /\ Range(mt') \subseteq ImageSets
    <3>1. mt \in Seq(ImageSets) /\ mt' \in Seq(ImageSets)
      BY DEF StateInv
    <3>2. Len(mt) <= Len(mt') /\ \A i \in 1..Len(mt) : mt[i] = mt'[i]
      BY <1>2, <3>1 DEF AddImageSet, IsStrictPrefix, IsPrefix
    <3>3. Len(mt) \in Nat /\ Len(mt') \in Nat /\ DOMAIN mt = 1..Len(mt) /\ DOMAIN mt' = 1..Len(mt')
      BY <3>1
    <3> QED BY <3>1, <3>2, <3>3 DEF Range
  <2>4. \A x \in Dests : Copies(x)' = Copies(x)
    <3> SUFFICES ASSUME NEW x \in Dests PROVE Copies(x)' = Copies(x)
      OBVIOUS
    <3>1. {y \in Range(mt') : cm[y][x] # None} = {y \in Range(mt) : cm[y][x] # None}
      BY <2>3 DEF StateInv
    <3> QED BY <2>1, <3>1 DEF Copies
  <2>5. Stored' = Stored
    BY <2>4, Zenon DEF Stored
  <2> QED BY <2>1, <2>2, <2>5, SameLive, StillImpaired, StoreStutters
<1>3. CASE StartTick
  <2>1. UNCHANGED <<mt, mem, cm, legacy, faults>> /\ pc.at = "idle"
        /\ pc'.at = IF mem # Empty THEN "resync" ELSE IF legacy = NoOwners THEN "load" ELSE "migrate"
    BY <1>3 DEF StartTick, user, memory, disk, Idle
  <2>2. HasLoaded' = HasLoaded
    BY <2>1 DEF HasLoaded, Empty
  <2> QED BY <2>1, <2>2, SameStored, SameLive, StillImpaired, StoreStutters
<1>4. CASE MigrateEnd
  <2>1. UNCHANGED <<mt, mem, cm, faults>> /\ pc.at = "migrate" /\ pc.todo = {}
        /\ pc'.at = "load" /\ legacy' = NoOwners
    BY <1>4 DEF MigrateEnd, user, memory
  <2>2. HasLoaded' = HasLoaded
    BY <2>1 DEF HasLoaded, Empty
  <2>3. ASSUME NEW x \in Dests PROVE Stored'[x] = Stored[x]
    <3>1. legacy'[x] = {}
      BY <2>1 DEF NoOwners
    <3>2. CASE legacy[x] = {}
      <4>1. \A p : p \in Stored'[x] <=> p \in Stored[x]
        BY <2>1, <3>1, <3>2, StoredCopies DEF StoredIs
      <4> QED BY <4>1 DEF Stored, Copies
    <3>3. CASE legacy[x] # {}
      <4>1. PICK y \in legacy[x] : cm[y][x] = Migrated(y)
        BY <2>1, <3>3 DEF MigrationInv
      <4>2. y \in Range(mt)
        BY <4>1 DEF StateInv
      <4>3. cm[y][x] # None /\ Progress(cm[y][x]) = [st |-> "Mirrored", rc |-> 0]
        <5>1. Migrated(y) # None /\ Progress(Migrated(y)) = [st |-> "Mirrored", rc |-> 0]
          BY DEF Migrated, Entry, None, Progress
        <5> QED BY <4>1, <5>1, Zenon
      <4>4. \A p : p \in Stored'[x] <=> p \in Stored[x]
        BY <2>1, <3>1, <3>3, <4>2, <4>3, StoredCopies DEF StoredIs
      <4> QED BY <4>4 DEF Stored, Copies
    <3> QED BY <3>2, <3>3
  <2>4. Stored' = Stored
    BY <2>3 DEF Stored
  <2> QED BY <2>1, <2>2, <2>4, SameLive, StillImpaired, StoreStutters
<1>5. CASE FlushIndex \/ SaveSummary
  <2>1. UNCHANGED <<mt, mem, cm, legacy>> /\ pc.at \in {"flush", "summary"}
        /\ pc'.at \in {"summary", "status"} /\ (UNCHANGED faults \/ Fault("write"))
    BY <1>5 DEF FlushIndex, SaveSummary, user, memory
  <2>2. HasLoaded' = HasLoaded
    BY <2>1 DEF HasLoaded, Empty
  <2>3. Impaired' = Impaired
    BY <2>1, StillImpaired
  <2> QED BY <2>1, <2>2, <2>3, SameStored, SameLive, StoreStutters
<1> QED BY <1>1, <1>2, <1>3, <1>4, <1>5

\* Every copy written comes from memory or from the consolidated ConfigMap,
\* and the last copy of an image goes only when its owners changed.
LEMMA StoreFlush ==
    ASSUME StateInv, StateInv', MigrationInv, NEW is \in ImageSets, FlushOne(is)
    PROVE  StoreStep
<1>1. /\ UNCHANGED <<mt, mem, legacy>> /\ pc.at = "flush" /\ is \in pc.todo
      /\ cm' \in {cm, [cm EXCEPT ![is] = View(is)]} /\ (UNCHANGED faults \/ Fault("write"))
      /\ pc' \in {[pc EXCEPT !.todo = @ \ {is}], [pc EXCEPT !.todo = @ \ {is}, !.ok = FALSE]}
  BY DEF FlushOne, user, memory
<1>2. pc \in [at : {"flush"}, todo : SUBSET ImageSets, ok : BOOLEAN]
  BY <1>1 DEF StateInv, PcOK, Idle
<1>3. HasLoaded' = HasLoaded /\ HasLoaded
  <2>1. pc'.at = "flush"
    BY <1>1, <1>2
  <2> QED BY <1>1, <2>1 DEF HasLoaded
<1>4. Impaired' = Impaired
  BY <1>1, StillImpaired
<1>5. Live' = Live
  BY <1>1, SameLive
<1>6. CASE cm' = cm
  BY <1>1, <1>3, <1>4, <1>5, <1>6, SameStored, StoreStutters
<1>7. CASE cm' = [cm EXCEPT ![is] = View(is)]
  <2> SUFFICES ASSUME NEW d \in Dests
               PROVE  /\ Stored'[d] \subseteq Stored[d] \cup ({Live[d]} \ {Progress(None)})
                      /\ Stored'[d] = {} => Stored[d] = {} \/ d \in Moving
    BY <1>3, <1>4, <1>5, StoreWrites
  <2>1. /\ \A x \in ImageSets : x # is => cm'[x] = cm[x]
        /\ cm'[is] = View(is)
    BY <1>7 DEF StateInv
  <2>2. legacy[d] = {} /\ legacy'[d] = {}
    BY <1>1 DEF MigrationInv, NoOwners
  <2>3. Range(mt) \subseteq ImageSets /\ owners[d] \subseteq Range(mt) /\ is \in Range(mt)
    BY <1>1 DEF StateInv, Resolved, Range
  <2>4. /\ is \notin owners[d] => View(is)[d] = None
        /\ is \in owners[d] => View(is)[d] # None /\ Progress(View(is)[d]) = Progress(mem[d])
    BY <1>1, ViewEntries
  <2>5. ASSUME NEW p \in Stored'[d]
        PROVE  p \in Stored[d] \cup ({Live[d]} \ {Progress(None)})
    <3>1. PICK x \in Range(mt) : cm'[x][d] # None /\ p = Progress(cm'[x][d])
      BY <1>1, <2>2, <2>5, StoredCopies DEF StoredIs
    <3>2. CASE x # is
      <4>1. cm'[x][d] = cm[x][d]
        BY <2>1, <2>3, <3>2
      <4> QED BY <3>1, <4>1, StoredCopies DEF StoredIs
    <3>3. CASE x = is
      <4>1. View(is)[d] # None /\ p = Progress(View(is)[d]) /\ IsEntry(View(is)[d])
        BY <1>1, <2>1, <3>1, <3>3, ViewEntries
      <4>2. p = Progress(mem[d]) /\ p # Progress(None)
        BY <2>4, <4>1, KnownProgress
      <4> QED BY <4>2 DEF Live
    <3> QED BY <3>2, <3>3
  <2>6. ASSUME Stored'[d] = {}, NEW x \in owners[d]
        PROVE  cm[x][d] = None
    <3>1. \A y \in Range(mt) : cm'[y][d] = None
      BY <1>1, <2>6, StoredCopies DEF StoredIs
    <3> QED BY <2>1, <2>3, <2>4, <3>1
  <2> QED BY <2>5, <2>6 DEF Moving
<1> QED BY <1>1, <1>6, <1>7

LEMMA StoreMigrates ==
    ASSUME StateInv, StateInv', MigrationInv, NEW is \in ImageSets, MigrateImageSet(is)
    PROVE  StoreStep
<1>1. /\ UNCHANGED <<mt, mem, legacy, faults>> /\ pc.at = "migrate" /\ is \in pc.todo
      /\ pc' = [pc EXCEPT !.todo = @ \ {is}]
      /\ cm' = [cm EXCEPT ![is] = [d \in Dests |->
                   IF is \in legacy[d] THEN Entry("Mirrored", 0, is) ELSE None]]
  BY DEF MigrateImageSet, user, memory
<1>2. pc \in [at : {"migrate", "resync"}, todo : SUBSET ImageSets]
  BY <1>1 DEF StateInv, PcOK, Idle
<1>3. HasLoaded' = HasLoaded
  <2>1. pc'.at = "migrate"
    BY <1>1, <1>2
  <2> QED BY <1>1, <2>1 DEF HasLoaded, Empty
<1>4. Impaired' = Impaired /\ Live' = Live
  BY <1>1, StillImpaired, SameLive
<1> SUFFICES ASSUME NEW d \in Dests
             PROVE  /\ Stored'[d] \subseteq Stored[d]
                    /\ Stored'[d] = {} => Stored[d] = {}
  BY <1>3, <1>4, StoreWrites
<1>5. /\ \A x \in ImageSets : x # is => cm'[x] = cm[x]
      /\ cm'[is][d] = IF is \in legacy[d] THEN Entry("Mirrored", 0, is) ELSE None
  BY <1>1 DEF StateInv
<1>6. is \notin legacy[d] => cm[is][d] = None
  BY <1>1 DEF MigrationInv
<1>7. Range(mt) \subseteq ImageSets
  BY DEF StateInv, Range
<1>8. Progress(Entry("Mirrored", 0, is)) = [st |-> "Mirrored", rc |-> 0]
  BY DEF Progress, Entry
<1>9. ASSUME NEW p \in Stored'[d] PROVE p \in Stored[d]
  <2>1. CASE legacy[d] # {} /\ p = [st |-> "Mirrored", rc |-> 0]
    BY <2>1, StoredCopies DEF StoredIs
  <2>2. ASSUME NEW x \in Range(mt), cm'[x][d] # None, p = Progress(cm'[x][d])
        PROVE  p \in Stored[d]
    <3>1. CASE x # is
      <4>1. cm'[x][d] = cm[x][d]
        BY <1>5, <1>7, <3>1
      <4> QED BY <2>2, <4>1, StoredCopies DEF StoredIs
    <3>2. CASE x = is
      BY <1>5, <1>8, <2>1, <2>2, <3>2
    <3> QED BY <3>1, <3>2
  <2> QED BY <1>1, <1>9, <2>1, <2>2, StoredCopies DEF StoredIs
<1>10. ASSUME Stored'[d] = {}, Stored[d] # {} PROVE FALSE
  <2>1. legacy[d] = {} /\ \A x \in Range(mt) : cm'[x][d] = None
    BY <1>1, <1>10, StoredCopies DEF StoredIs
  <2>2. \A x \in Range(mt) : cm[x][d] = None
    BY <1>5, <1>6, <1>7, <2>1
  <2> QED BY <1>10, <2>1, <2>2, StoredCopies DEF StoredIs
<1> QED BY <1>9, <1>10

LEMMA StoreRead ==
    ASSUME StateInv, MigrationInv, LoadState \/ LoadFails
    PROVE  StoreStep
<1>1. PICK unread : LoadFrom(unread) /\ ((unread = {} /\ UNCHANGED faults) \/ Fault("load"))
  BY DEF LoadState, LoadFails
<1>2. /\ UNCHANGED <<mt, cm, legacy>> /\ pc.at = "load"
      /\ pc' = [at |-> "resync", todo |-> resync]
      /\ mem' = [d \in Dests |-> Loaded(unread, d)]
  BY <1>1, Zenon DEF LoadFrom, user, disk, Loaded
<1>3. ~HasLoaded /\ HasLoaded'
  BY <1>2 DEF HasLoaded, MigrationInv
<1>4. (Impaired => Impaired') /\ (unread # {} => Impaired')
  BY <1>1 DEF Impaired, Fault
<1>5. Stored' = Stored
  BY <1>2, SameStored
<1>6. ASSUME NEW d \in Dests
      PROVE  Live'[d] \in (IF Stored[d] = {} \/ Impaired'
                           THEN Stored[d] \cup {Progress(None)} ELSE Stored[d])
  <2>1. Live'[d] = Progress(Loaded(unread, d))
    BY <1>2 DEF Live
  <2>2. legacy[d] = {}
    BY <1>2 DEF MigrationInv, NoOwners
  <2>3. CASE /\ Loaded(unread, d) = None
             /\ \A is \in Range(mt) \ unread : cm[is][d] = None
    <3>1. unread = {} => Stored[d] = {}
      BY <2>2, <2>3, StoredCopies DEF StoredIs
    <3> QED BY <1>4, <2>1, <2>3, <3>1
  <2>4. CASE \E is \in Range(mt) \ unread : cm[is][d] # None /\ Loaded(unread, d) = cm[is][d]
    <3>1. Progress(Loaded(unread, d)) \in Stored[d]
      BY <2>4, StoredCopies DEF StoredIs
    <3> QED BY <2>1, <3>1
  <2> QED BY <2>3, <2>4, LoadFinds
<1> QED BY <1>3, <1>4, <1>5, <1>6, StoreLoads

LEMMA StoreProgress ==
    ASSUME StateInv,
           \/ Resolve \/ Crash \/ WriteStatus
           \/ \E is \in ImageSets : Resync(is)
           \/ \E d \in Dests : Report(d)
    PROVE  StoreStep
<1>1. ASSUME NEW is \in ImageSets, Resync(is) PROVE StoreStep
  <2>1. UNCHANGED <<mt, cm, legacy>> /\ pc.at = "resync" /\ pc' = [pc EXCEPT !.todo = @ \ {is}]
        /\ (UNCHANGED faults \/ Fault("clear"))
    BY <1>1 DEF Resync, disk
  <2>2. pc \in [at : {"migrate", "resync"}, todo : SUBSET ImageSets]
    BY <2>1 DEF StateInv, PcOK, Idle
  <2>3. pc'.at = "resync"
    BY <2>1, <2>2
  <2>4. HasLoaded /\ HasLoaded'
    BY <2>1, <2>3 DEF HasLoaded
  <2>5. Impaired' = Impaired
    BY <2>1, StillImpaired
  <2> QED BY <2>1, <2>4, <2>5, SameStored, StoreWorks
<1>2. CASE Resolve
  <2>1. UNCHANGED <<mt, cm, legacy, faults>> /\ pc.at = "resync"
        /\ pc'.at \in {"flush", "summary", "status"}
    BY <1>2 DEF Resolve, user, disk
  <2>2. HasLoaded /\ HasLoaded'
    BY <2>1 DEF HasLoaded
  <2> QED BY <2>1, <2>2, StillImpaired, SameStored, StoreWorks
<1>3. ASSUME NEW d \in Dests, Report(d) PROVE StoreStep
  <2>1. UNCHANGED <<mt, cm, legacy, pc>> /\ (UNCHANGED faults \/ Fault("copy"))
    BY <1>3 DEF Report, user, disk
  <2>2. Impaired' = Impaired
    BY <2>1, StillImpaired
  <2>3. CASE mem[d] = None
    <3>1. mem' = mem
      BY <1>3, <2>3 DEF Report
    <3>2. HasLoaded' = HasLoaded
      BY <2>1, <3>1 DEF HasLoaded, Empty
    <3> QED BY <2>1, <2>2, <3>1, <3>2, SameStored, SameLive, StoreStutters
  <2>4. CASE mem[d] # None
    <3>1. mem'[d] # None
      BY <1>3, <2>4, ReportEntries
    <3>2. mem # Empty /\ mem' # Empty
      BY <2>4, <3>1 DEF Empty
    <3>3. HasLoaded /\ HasLoaded'
      BY <3>2 DEF HasLoaded, Empty
    <3> QED BY <2>1, <2>2, <3>3, SameStored, StoreWorks
  <2> QED BY <2>3, <2>4
<1>4. CASE Crash
  <2>1. UNCHANGED <<mt, cm, legacy>> /\ Fault("crash") /\ mem' = Empty /\ pc' = Idle
    BY <1>4 DEF Crash, user, disk
  <2>2. ~HasLoaded' /\ Live' = [x \in Dests |-> Progress(None)]
    BY <2>1 DEF HasLoaded, Idle, Live, Empty
  <2>3. Impaired' = Impaired
    BY <2>1, StillImpaired
  <2> QED BY <2>1, <2>2, <2>3, SameStored, StoreRestarts
<1>5. CASE WriteStatus
  <2>1. UNCHANGED <<mt, cm, legacy, mem, faults>> /\ pc.at = "status" /\ pc' = Idle
    BY <1>5 DEF WriteStatus, user, memory, disk
  <2>2. Impaired' = Impaired /\ Stored' = Stored /\ Live' = Live
    BY <2>1, StillImpaired, SameStored, SameLive
  <2>3. CASE mem = Empty
    <3>1. ~HasLoaded' /\ Live' = [x \in Dests |-> Progress(None)]
      BY <2>1, <2>2, <2>3, NothingLive DEF HasLoaded, Idle, Empty
    <3> QED BY <2>2, <3>1, StoreRestarts
  <2>4. CASE mem # Empty
    <3>1. HasLoaded /\ HasLoaded'
      BY <2>1, <2>4 DEF HasLoaded, Empty
    <3> QED BY <2>2, <3>1, StoreStutters
  <2> QED BY <2>3, <2>4
<1> QED BY <1>1, <1>2, <1>3, <1>4, <1>5

LEMMA StoreInit == Init => Store!Init
<1> SUFFICES ASSUME Init PROVE Store!Init
  OBVIOUS
<1>1. mem = Empty /\ pc.at = "idle" /\ faults = {}
  BY DEF Init, Idle
<1>2. Live = [d \in Dests |-> Progress(None)] /\ ~HasLoaded /\ ~Impaired
  BY <1>1, NothingLive DEF HasLoaded, Impaired
<1> QED BY <1>2, StoreInitially

LEMMA StoreNext ==
    ASSUME "migrate" \notin Faults, StateInv, StateInv', MigrationInv, [Next]_vars
    PROVE  StoreStep
<1>1. CASE \/ UNCHANGED vars \/ EditImageSet \/ AddImageSet \/ Aggregate
           \/ StartTick \/ MigrateEnd \/ FlushIndex \/ SaveSummary
           \/ \E is \in ImageSets : RequestResync(is)
           \/ \E d \in Dests : Dispatch(d)
  BY <1>1, StoreSilent
<1>2. ~MigrateFails
  BY DEF MigrateFails, Fault
<1>3. CASE LoadState \/ LoadFails
  BY <1>3, StoreRead
<1>4. ASSUME NEW is \in ImageSets, MigrateImageSet(is) \/ FlushOne(is) PROVE StoreStep
  BY <1>4, StoreMigrates, StoreFlush
<1>5. CASE \/ Resolve \/ Crash \/ WriteStatus
           \/ \E is \in ImageSets : Resync(is)
           \/ \E d \in Dests : Report(d)
  BY <1>5, StoreProgress
<1> QED BY <1>1, <1>2, <1>3, <1>4, <1>5 DEF Next, Manager

\* The ConfigMaps of the ImageSets and the consolidated one together keep the
\* promise of one store: whatever writes and reads fail and wherever the
\* manager dies, a restart finds every stored image with progress that was
\* stored for it, as long as no migration is given up half way.
THEOREM ThePartitionsAreOneStore ==
    ASSUME "migrate" \notin Faults
    PROVE  Spec => StoreSpec
<1>1. Spec => [](StateInv /\ MigrationInv)
  BY MigrationAlways
<1>2. StateInv /\ StateInv' /\ MigrationInv /\ [Next]_vars => StoreStep
  BY StoreNext
<1>3. Spec => [][Store!Next]_storeVars
  BY <1>1, <1>2, PTL DEF Spec, StoreStep
<1>4. Spec => Store!Init
  BY StoreInit DEF Spec
<1> QED BY <1>3, <1>4, PTL
       DEF StoreSpec, Store!Spec, storeVars, Live, HasLoaded, Impaired, Stored

-----------------------------------------------------------------------------
(***************************************************************************)
(* The summary.                                                            *)
(***************************************************************************)
Found(d) == MergeLoaded([i \in 1..Len(mt) |-> cm[mt[i]][d]])

\* What a restart would find is what is in memory.
InSync ==
    \A d \in Dests : /\ owners[d] \subseteq Range(mt)
                     /\ Found(d).st = IF owners[d] # {} THEN mem[d].st ELSE "none"

\* Memory that is not dirty is in sync, and so is what the summary counts.
Flushed == \A is \in Range(mt) \ pc.todo : \A d \in Dests : cm[is][d] = View(is)[d]
Settled ==
    /\ pc.at \in {"resync", "status"} \/ (pc.at = "idle" /\ mem # Empty) => dirty \/ InSync
    /\ pc.at = "flush" => Flushed
    /\ pc.at = "summary" => InSync
Unharmed == faults \cap {"write", "load"} = {}

SyncInv ==
    /\ pc.at \in {"migrate", "load"} => mem = Empty
    /\ Unharmed => Settled

\* What is loaded is Mirrored if a copy is, and else has the most failures.
Best(x, copies, n) ==
    \/ x = None /\ \A i \in 1..n : copies[i] = None
    \/ x # None /\ x.st = "Mirrored"
    \/ /\ x # None /\ x.st # "Mirrored" /\ x.rc \in Nat
       /\ \A i \in 1..n : copies[i] = None \/ (copies[i].st # "Mirrored" /\ copies[i].rc <= x.rc)

LEMMA MergeLoadedBest ==
    ASSUME NEW copies, NEW m \in Nat, \A i \in 1..m : IsEntry(copies[i]), NEW f, f[0] = None,
           \A i \in 1..m : f[i] = MergeLoadedEntry(f[i - 1], copies[i])
    PROVE  Best(f[m], copies, m)
<1> DEFINE S == {i \in 0..m : Best(f[i], copies, i)}
<1>1. 0 \in S
  BY DEF Best
<1>2. ASSUME NEW i \in 0..m, i < m, i \in S PROVE i + 1 \in S
  <2>1. i + 1 \in 0..m /\ (i + 1) - 1 = i /\ i + 1 \in 1..m /\ i + 1 \in 1..(i + 1)
    BY <1>2
  <2>2. f[i + 1] = MergeLoadedEntry(f[i], copies[i + 1])
    BY <2>1
  <2>3. \A k \in 1..(i + 1) : k \in 1..i \/ k = i + 1
    OBVIOUS
  <2>4. copies[i + 1] = None \/ (copies[i + 1] # None /\ copies[i + 1].rc \in Nat)
    BY <2>1 DEF IsEntry
  <2> DEFINE x == f[i]
             y == copies[i + 1]
             z == f[i + 1]
  <2>5. Best(x, copies, i) /\ z = MergeLoadedEntry(x, y)
    BY <1>2, <2>2
  <2>6. y = copies[i + 1] /\ (y = None \/ (y # None /\ y.rc \in Nat))
    BY <2>4
  <2> HIDE DEF x, y, z
  <2>7. CASE x = None
    <3>1. z = y /\ \A k \in 1..i : copies[k] = None
      BY <2>5, <2>7 DEF MergeLoadedEntry, Best
    <3>2. y = None \/ y.st = "Mirrored" => Best(z, copies, i + 1)
      BY <2>3, <2>6, <3>1 DEF Best
    <3>3. ASSUME y # None, y.st # "Mirrored" PROVE Best(z, copies, i + 1)
      <4>1. y.rc \in Nat /\ y.rc <= y.rc
        BY <2>6, <3>3
      <4> QED BY <2>3, <2>6, <3>1, <3>3, <4>1 DEF Best
    <3>4. Best(z, copies, i + 1)
      BY <3>2, <3>3
    <3> QED BY <2>1, <3>4 DEF z
  <2>8. CASE x # None /\ x.st = "Mirrored"
    <3>1. z # None /\ z.st = "Mirrored"
      BY <2>5, <2>8 DEF MergeLoadedEntry
    <3> QED BY <2>1, <3>1 DEF z, Best
  <2>9. CASE x # None /\ x.st # "Mirrored"
    <3>1. /\ x.rc \in Nat
          /\ \A k \in 1..i : copies[k] = None \/ (copies[k].st # "Mirrored" /\ copies[k].rc <= x.rc)
      BY <2>5, <2>9 DEF Best
    <3>2. CASE y = None
      <4>1. z = x
        BY <2>5, <2>9, <3>2 DEF MergeLoadedEntry
      <4>2. Best(z, copies, i + 1)
        BY <2>3, <2>6, <2>9, <3>1, <3>2, <4>1 DEF Best
      <4> QED BY <2>1, <4>2 DEF z
    <3>3. CASE y # None /\ y.st = "Mirrored"
      <4>1. z = y
        BY <2>5, <2>9, <3>3 DEF MergeLoadedEntry
      <4> QED BY <2>1, <3>3, <4>1 DEF z, Best
    <3>4. CASE y # None /\ y.st # "Mirrored"
      <4>1. y.rc \in Nat /\ z = IF y.rc > x.rc THEN y ELSE x
        BY <2>5, <2>6, <2>9, <3>4 DEF MergeLoadedEntry
      <4>2. z.rc \in Nat /\ z # None /\ z.st # "Mirrored" /\ x.rc <= z.rc /\ y.rc <= z.rc
        BY <2>9, <3>1, <3>4, <4>1
      <4>3. ASSUME NEW k \in 1..(i + 1), copies[k] # None
            PROVE  copies[k].st # "Mirrored" /\ copies[k].rc <= z.rc
        <5>1. CASE k = i + 1
          BY <2>6, <3>4, <4>2, <5>1
        <5>2. CASE k \in 1..i
          <6>1. copies[k].st # "Mirrored" /\ copies[k].rc <= x.rc
            BY <3>1, <4>3, <5>2
          <6>2. k \in 1..m
            BY <2>1, <5>2
          <6>3. copies[k].rc \in Nat
            BY <4>3, <6>2 DEF IsEntry
          <6> QED BY <3>1, <4>2, <6>1, <6>3
        <5> QED BY <2>3, <5>1, <5>2
      <4>4. Best(z, copies, i + 1)
        BY <4>2, <4>3 DEF Best
      <4> QED BY <2>1, <4>4 DEF z
    <3> QED BY <3>2, <3>3, <3>4
  <2> QED BY <2>7, <2>8, <2>9
<1>3. \A i \in 0..m : i < m /\ i \in S => i + 1 \in S
  BY <1>2
<1> HIDE DEF S
<1>4. 0..m \subseteq S
  BY <1>1, <1>3, UpTo
<1> QED BY <1>4 DEF S

\* Copies that are missing or repeat earlier ones make no difference.
LEMMA MergeLoadedLonger ==
    ASSUME NEW m \in Nat, NEW n \in Nat, m <= n, NEW a, NEW b, Len(a) = m, Len(b) = n,
           \A i \in 1..m : a[i] = b[i], \A i \in 1..n : IsEntry(b[i]),
           \A i \in 1..n : i > m => b[i] = None \/ \E j \in 1..m : b[i] = b[j]
    PROVE  MergeLoaded(a).st = MergeLoaded(b).st
<1>1. PICK f : /\ f = [i \in 0..Len(a) |-> IF i = 0 THEN None ELSE MergeLoadedEntry(f[i - 1], a[i])]
               /\ MergeLoaded(a) = f[Len(a)]
  BY MergeLoadedDefined
<1>2. PICK g : /\ g = [i \in 0..Len(b) |-> IF i = 0 THEN None ELSE MergeLoadedEntry(g[i - 1], b[i])]
               /\ MergeLoaded(b) = g[Len(b)]
  BY MergeLoadedDefined
<1>3. /\ f[0] = None /\ \A i \in 1..m : f[i] = MergeLoadedEntry(f[i - 1], b[i])
      /\ g[0] = None /\ \A i \in 1..n : g[i] = MergeLoadedEntry(g[i - 1], b[i])
  BY <1>1, <1>2
<1>4. Best(f[m], b, m)
  <2>1. \A i \in 1..m : IsEntry(b[i])
    OBVIOUS
  <2> QED BY <1>3, <2>1, MergeLoadedBest
<1> DEFINE Same(i) == IF i <= m THEN g[i] = f[i]
                      ELSE g[i] = f[m] \/ (g[i] # None /\ f[m] # None /\ g[i].st = "Mirrored" /\ f[m].st = "Mirrored")
           S == {i \in 0..n : Same(i)}
<1>5. 0 \in S
  BY <1>3
<1>6. ASSUME NEW i \in 0..n, i < n, i \in S PROVE i + 1 \in S
  <2>1. i + 1 \in 0..n /\ (i + 1) - 1 = i /\ i + 1 \in 1..n
    BY <1>6
  <2>2. g[i + 1] = MergeLoadedEntry(g[i], b[i + 1])
    BY <1>3, <2>1
  <2>3. CASE i + 1 <= m
    <3>1. i + 1 \in 1..m /\ i <= m
      BY <2>1, <2>3
    <3>2. f[i + 1] = MergeLoadedEntry(f[i], b[i + 1])
      BY <1>3, <2>1, <3>1
    <3>3. g[i] = f[i]
      BY <1>6, <3>1
    <3> QED BY <2>1, <2>2, <2>3, <3>2, <3>3
  <2>4. CASE ~(i + 1 <= m)
    <3> DEFINE x == g[i]
               y == b[i + 1]
               z == g[i + 1]
               best == f[m]
    <3>1. x = best \/ (x # None /\ best # None /\ x.st = "Mirrored" /\ best.st = "Mirrored")
      <4>1. i = m \/ ~(i <= m)
        BY <1>6, <2>4
      <4> QED BY <1>6, <4>1
    <3>2. y = None \/ \E j \in 1..m : y = b[j]
      BY <2>1, <2>4
    <3>3. /\ best = None => y = None
          /\ best # None /\ best.st # "Mirrored" =>
               best.rc \in Nat /\ (y = None \/ (y.st # "Mirrored" /\ y.rc <= best.rc))
      <4> HIDE DEF y, best
      <4> QED BY <1>4, <3>2 DEF Best, best
    <3>4. z = MergeLoadedEntry(x, y) /\ (y # None => y.rc \in Nat)
      BY <2>1, <2>2 DEF IsEntry
    <3> HIDE DEF x, y, z, best
    <3>5. z = best \/ (z # None /\ best # None /\ z.st = "Mirrored" /\ best.st = "Mirrored")
      <4>1. CASE best = None
        BY <3>1, <3>3, <3>4, <4>1 DEF MergeLoadedEntry
      <4>2. CASE best # None /\ best.st = "Mirrored"
        BY <3>1, <3>4, <4>2 DEF MergeLoadedEntry
      <4>3. CASE best # None /\ best.st # "Mirrored"
        <5>1. x = best
          BY <3>1, <4>3
        <5>2. CASE y = None
          BY <3>4, <4>3, <5>1, <5>2 DEF MergeLoadedEntry
        <5>3. CASE y # None
          <6>1. ~(y.rc > x.rc) /\ y.st # "Mirrored"
            BY <3>3, <3>4, <4>3, <5>1, <5>3
          <6> QED BY <3>4, <4>3, <5>1, <5>3, <6>1 DEF MergeLoadedEntry
        <5> QED BY <5>2, <5>3
      <4> QED BY <4>1, <4>2, <4>3
    <3> QED BY <2>1, <2>4, <3>5 DEF z, best
  <2> QED BY <2>3, <2>4
<1>7. Same(n)
  <2>1. \A i \in 0..n : i < n /\ i \in S => i + 1 \in S
    BY <1>6
  <2> HIDE DEF S
  <2>2. 0..n \subseteq S
    BY <1>5, <2>1, UpTo
  <2>3. n \in S
    BY <2>2
  <2> QED BY <2>3 DEF S
<1>8. n <= m => n = m
  OBVIOUS
<1> QED BY <1>1, <1>2, <1>7, <1>8

LEMMA FoundIsLoaded ==
    ASSUME NEW d
    PROVE  Found(d) = Loaded({}, d)
<1>1. [i \in 1..Len(mt) |-> cm[mt[i]][d]] = [i \in 1..Len(mt) |-> IF mt[i] \in {} THEN None ELSE cm[mt[i]][d]]
  OBVIOUS
<1> QED BY <1>1, Zenon DEF Found, Loaded

\* A new ImageSet brings no copies along.
LEMMA AddedIsEmpty ==
    ASSUME StateInv, AddImageSet
    PROVE  /\ mt' \in Seq(ImageSets) /\ Range(mt) \subseteq Range(mt')
           /\ \A d \in Dests : (Found(d).st)' = Found(d).st
<1>1. mt' \in Seq(ImageSets) /\ mt \in Seq(ImageSets)
  BY PartitionAssumption DEF AddImageSet, StateInv
<1>2. Len(mt) <= Len(mt') /\ \A i \in 1..Len(mt) : mt[i] = mt'[i]
  BY <1>1 DEF AddImageSet, IsStrictPrefix, IsPrefix
<1>3. Len(mt) \in Nat /\ Len(mt') \in Nat /\ DOMAIN mt = 1..Len(mt) /\ DOMAIN mt' = 1..Len(mt')
  BY <1>1
<1>4. Range(mt) \subseteq Range(mt')
  BY <1>2, <1>3 DEF Range
<1>5. ASSUME NEW d \in Dests PROVE (Found(d).st)' = Found(d).st
  <2> DEFINE a == [i \in 1..Len(mt) |-> cm[mt[i]][d]]
             b == [i \in 1..Len(mt') |-> cm[mt'[i]][d]]
  <2>1. cm' = cm
    BY DEF AddImageSet, disk
  <2>2. Found(d) = MergeLoaded(a) /\ Found(d)' = MergeLoaded(b)
    BY <2>1 DEF Found
  <2>3. Len(a) = Len(mt) /\ Len(b) = Len(mt') /\ \A i \in 1..Len(mt) : a[i] = b[i]
    BY <1>2, <1>3
  <2>4. ASSUME NEW i \in 1..Len(mt')
        PROVE  IsEntry(b[i]) /\ (b[i] = None \/ \E j \in 1..Len(mt) : b[i] = b[j])
    <3>1. mt'[i] \in ImageSets /\ b[i] = cm[mt'[i]][d]
      BY <1>1, <1>3
    <3>2. IsEntry(b[i])
      BY <3>1 DEF StateInv
    <3>3. CASE mt'[i] \notin Range(mt)
      BY <3>1, <3>2, <3>3 DEF StateInv
    <3>4. CASE mt'[i] \in Range(mt)
      <4>1. PICK j \in 1..Len(mt) : mt'[i] = mt[j]
        BY <1>3, <3>4 DEF Range
      <4>2. b[j] = cm[mt[j]][d]
        BY <1>2, <1>3, <4>1
      <4> QED BY <3>1, <3>2, <4>1, <4>2
    <3> QED BY <3>3, <3>4
  <2> HIDE DEF a, b
  <2>5. \A i \in 1..Len(mt') : IsEntry(b[i])
    BY <2>4
  <2>6. \A i \in 1..Len(mt') : i > Len(mt) => b[i] = None \/ \E j \in 1..Len(mt) : b[i] = b[j]
    BY <2>4
  <2>7. MergeLoaded(a).st = MergeLoaded(b).st
    BY <1>2, <1>3, <2>3, <2>5, <2>6, MergeLoadedLonger
  <2> QED BY <2>2, <2>7
<1> QED BY <1>1, <1>4, <1>5

LEMMA SyncInit == Init => SyncInv
<1> SUFFICES ASSUME Init PROVE SyncInv
  OBVIOUS
<1>1. pc.at = "idle" /\ mem = Empty
  BY DEF Init, Idle
<1> QED BY <1>1 DEF SyncInv, Settled

LEMMA SameSync ==
    ASSUME mt' = mt, mem' = mem, owners' = owners, cm' = cm
    PROVE  InSync' = InSync
<1>1. \A d : Found(d)' = Found(d)
  BY DEF Found
<1> QED BY <1>1 DEF InSync

\* Faults are not forgotten.
LEMMA StillUnharmed ==
    ASSUME faults \subseteq faults', Unharmed'
    PROVE  Unharmed
  BY DEF Unharmed

\* Steps that leave what is in memory and in the ConfigMaps.
LEMMA SyncMove ==
    ASSUME SyncInv, mt' = mt, mem' = mem, owners' = owners, meta' = meta, cm' = cm, dirty' = dirty,
           faults \subseteq faults',
           \/ pc' = pc
           \/ pc.at = "idle" /\ mem # Empty /\ pc'.at = "resync"
           \/ pc'.at \in {"migrate", "load"} /\ mem = Empty
           \/ pc.at = "status" /\ pc'.at = "idle"
    PROVE  SyncInv'
<1>1. InSync' = InSync
  BY SameSync
<1>2. pc' = pc => Flushed' = Flushed
  <2>1. \A is : View(is)' = View(is)
    BY DEF View, Owned, OwnerView
  <2> QED BY <2>1 DEF Flushed
<1>3. Unharmed' => Unharmed
  BY StillUnharmed
<1>4. pc'.at \in {"migrate", "load"} => mem' = Empty
  BY DEF SyncInv
<1>5. ASSUME Unharmed' PROVE Settled'
  <2>1. Settled
    BY <1>3, <1>5 DEF SyncInv
  <2>2. CASE pc' = pc
    BY <1>1, <1>2, <2>1, <2>2 DEF Settled
  <2>3. CASE pc' # pc
    BY <1>1, <2>1, <2>3 DEF Settled
  <2> QED BY <2>2, <2>3
<1> QED BY <1>4, <1>5 DEF SyncInv

LEMMA SyncUser ==
    ASSUME StateInv, SyncInv,
           EditImageSet \/ AddImageSet \/ \E is \in ImageSets : RequestResync(is)
    PROVE  SyncInv'
<1>1. CASE EditImageSet
  BY <1>1, SyncMove DEF EditImageSet, memory, disk
<1>2. ASSUME NEW is \in ImageSets, RequestResync(is) PROVE SyncInv'
  BY <1>2, SyncMove DEF RequestResync, memory, disk
<1>3. CASE AddImageSet
  <2>1. /\ mem' = mem /\ owners' = owners /\ meta' = meta /\ cm' = cm /\ dirty' = dirty
        /\ pc' = pc /\ faults' = faults
    BY <1>3 DEF AddImageSet, memory, disk
  <2>2. /\ mt' \in Seq(ImageSets) /\ Range(mt) \subseteq Range(mt')
        /\ \A d \in Dests : (Found(d).st)' = Found(d).st
    BY <1>3, AddedIsEmpty
  <2>3. InSync => InSync'
    BY <2>1, <2>2 DEF InSync
  <2>4. ASSUME pc.at = "flush", Flushed PROVE Flushed'
    <3>1. \A is : View(is)' = View(is)
      BY <2>1 DEF View, Owned, OwnerView
    <3>2. Range(mt') \subseteq ImageSets
      BY <2>2 DEF Range
    <3>3. ASSUME NEW is \in Range(mt') \ pc.todo, NEW d \in Dests PROVE cm[is][d] = View(is)[d]
      <4>1. CASE is \in Range(mt)
        BY <2>4, <3>3, <4>1 DEF Flushed
      <4>2. CASE is \notin Range(mt)
        <5>1. is \in ImageSets /\ is \notin owners[d] /\ cm[is][d] = None
          BY <2>4, <3>2, <4>2 DEF StateInv, Resolved
        <5> QED BY <2>4, <5>1, ViewEntries
      <4> QED BY <4>1, <4>2
    <3> QED BY <2>1, <3>1, <3>3 DEF Flushed
  <2>5. Unharmed' = Unharmed
    BY <2>1 DEF Unharmed
  <2> QED BY <2>1, <2>3, <2>4, <2>5 DEF SyncInv, Settled
<1> QED BY <1>1, <1>2, <1>3

LEMMA SyncMigrate ==
    ASSUME StateInv, SyncInv,
           MigrateEnd \/ MigrateFails \/ \E is \in ImageSets : MigrateImageSet(is)
    PROVE  SyncInv'
<1>1. pc.at = "migrate" /\ mem' = mem
  BY DEF MigrateEnd, MigrateFails, MigrateImageSet, memory
<1>2. pc'.at \in {"migrate", "load"}
  <2>1. CASE MigrateEnd \/ MigrateFails
    BY <2>1 DEF MigrateEnd, MigrateFails
  <2>2. ASSUME NEW is \in ImageSets, MigrateImageSet(is) PROVE pc'.at = "migrate"
    <3>1. pc \in [at : {"migrate", "resync"}, todo : SUBSET ImageSets]
      BY <1>1 DEF StateInv, PcOK, Idle
    <3> QED BY <2>2, <3>1 DEF MigrateImageSet
  <2> QED BY <2>1, <2>2
<1> QED BY <1>1, <1>2 DEF SyncInv, Settled

LEMMA SyncLoad ==
    ASSUME StateInv, SyncInv, LoadState \/ LoadFails
    PROVE  SyncInv'
<1>1. CASE LoadFails
  <2>1. "load" \in faults'
    BY <1>1 DEF LoadFails, Fault
  <2>2. pc'.at = "resync"
    <3>1. pc' = [at |-> "resync", todo |-> resync]
      BY <1>1, Zenon DEF LoadFails, LoadFrom
    <3> QED BY <3>1
  <2> QED BY <2>1, <2>2 DEF SyncInv, Unharmed
<1>2. CASE LoadState
  <2>1. /\ mt' = mt /\ cm' = cm /\ pc' = [at |-> "resync", todo |-> resync]
        /\ mem' = [d \in Dests |-> Loaded({}, d)]
        /\ owners' = [d \in Dests |-> {is \in Range(mt) : (IF is \in {} THEN None ELSE cm[is][d]) # None}]
    BY <1>2, Zenon DEF LoadState, LoadFrom, user, disk, Loaded
  <2>2. ASSUME NEW d \in Dests
        PROVE  /\ owners'[d] \subseteq Range(mt)
               /\ Found(d)'.st = IF owners'[d] # {} THEN mem'[d].st ELSE "none"
    <3>1. Found(d)' = Found(d) /\ Found(d) = Loaded({}, d) /\ mem'[d] = Loaded({}, d)
      BY <2>1, FoundIsLoaded DEF Found
    <3>2. owners'[d] = {is \in Range(mt) : cm[is][d] # None}
      BY <2>1
    <3>3. Loaded({}, d) = None \/ owners'[d] # {}
      BY <3>2, LoadFinds
    <3> QED BY <3>1, <3>2, <3>3, NoneIsEntry
  <2>3. InSync'
    BY <2>1, <2>2 DEF InSync
  <2>4. pc'.at = "resync"
    BY <2>1
  <2> QED BY <2>3, <2>4 DEF SyncInv, Settled
<1> QED BY <1>1, <1>2

LEMMA SyncResync ==
    ASSUME StateInv, SyncInv, NEW is \in ImageSets, Resync(is)
    PROVE  SyncInv'
<1>1. /\ mt' = mt /\ cm' = cm /\ owners' = owners /\ pc.at = "resync"
      /\ pc' = [pc EXCEPT !.todo = @ \ {is}] /\ faults \subseteq faults'
  BY DEF Resync, disk, Fault
<1>2. dirty' \/ (~dirty /\ mem' = mem)
  BY Zenon DEF Resync
<1>3. pc \in [at : {"migrate", "resync"}, todo : SUBSET ImageSets]
  BY <1>1 DEF StateInv, PcOK, Idle
<1>4. pc'.at = "resync"
  BY <1>1, <1>3
<1>5. Unharmed' => dirty' \/ InSync'
  <2> SUFFICES ASSUME Unharmed' PROVE dirty' \/ InSync'
    OBVIOUS
  <2>1. dirty \/ InSync
    BY <1>1, StillUnharmed DEF SyncInv, Settled
  <2> QED BY <1>1, <1>2, <2>1, SameSync
<1> QED BY <1>4, <1>5 DEF SyncInv, Settled

LEMMA SyncResolve ==
    ASSUME StateInv, SyncInv, Resolve
    PROVE  SyncInv'
<1>1. /\ mt' = mt /\ cm' = cm /\ pc.at = "resync" /\ faults' = faults
  BY DEF Resolve, user, disk
<1>2. pc' = IF dirty' THEN [at |-> "flush", todo |-> Range(mt), ok |-> TRUE]
            ELSE IF ~counted THEN [at |-> "summary", ok |-> FALSE] ELSE [at |-> "status"]
  BY DEF Resolve
<1>3. dirty' \/ (~dirty /\ mem' = mem /\ owners' = owners)
  BY Zenon DEF Resolve
<1>4. CASE dirty'
  <2>1. pc'.at = "flush" /\ pc'.todo = Range(mt)
    BY <1>2, <1>4
  <2>2. Flushed'
    BY <1>1, <2>1 DEF Flushed
  <2> QED BY <2>1, <2>2 DEF SyncInv, Settled
<1>5. CASE ~dirty'
  <2>1. pc'.at \in {"summary", "status"}
    BY <1>2, <1>5
  <2>2. Unharmed' => InSync'
    <3> SUFFICES ASSUME Unharmed' PROVE InSync'
      OBVIOUS
    <3>1. dirty \/ InSync
      BY <1>1, StillUnharmed DEF SyncInv, Settled
    <3> QED BY <1>1, <1>3, <1>5, <3>1, SameSync
  <2> QED BY <2>1, <2>2 DEF SyncInv, Settled
<1> QED BY <1>4, <1>5

LEMMA SyncFlush ==
    ASSUME StateInv, SyncInv, NEW is \in ImageSets, FlushOne(is)
    PROVE  SyncInv'
<1>1. /\ mt' = mt /\ mem' = mem /\ owners' = owners /\ meta' = meta /\ pc.at = "flush"
      /\ is \in pc.todo
      /\ pc' \in {[pc EXCEPT !.todo = @ \ {is}], [pc EXCEPT !.todo = @ \ {is}, !.ok = FALSE]}
  BY DEF FlushOne, user, memory
<1>2. pc \in [at : {"flush"}, todo : SUBSET ImageSets, ok : BOOLEAN]
  BY <1>1 DEF StateInv, PcOK, Idle
<1>3. pc'.at = "flush" /\ pc'.todo = pc.todo \ {is}
  BY <1>1, <1>2
<1>4. ASSUME Unharmed' PROVE Flushed'
  <2>1. cm' = [cm EXCEPT ![is] = View(is)] /\ faults' = faults
    BY <1>4 DEF FlushOne, Fault, Unharmed
  <2>2. Flushed
    BY <1>1, <1>4, <2>1, StillUnharmed DEF SyncInv, Settled
  <2>3. \A x : View(x)' = View(x)
    BY <1>1 DEF View, Owned, OwnerView
  <2>4. cm'[is] = View(is) /\ \A x \in ImageSets : x # is => cm'[x] = cm[x]
    BY <2>1 DEF StateInv
  <2>5. Range(mt) \subseteq ImageSets
    BY DEF StateInv, Range
  <2>6. ASSUME NEW x \in Range(mt) \ pc'.todo, NEW d \in Dests PROVE cm'[x][d] = View(x)[d]
    BY <1>3, <2>2, <2>4, <2>5, <2>6 DEF Flushed
  <2> QED BY <1>1, <2>3, <2>6 DEF Flushed
<1> QED BY <1>3, <1>4 DEF SyncInv, Settled

\* After a flush every copy has the progress that is in memory.
LEMMA FlushedIsSync ==
    ASSUME StateInv, pc.at = "flush", pc.todo = {}, Flushed
    PROVE  InSync
<1> SUFFICES ASSUME NEW d \in Dests
             PROVE  /\ owners[d] \subseteq Range(mt)
                    /\ Found(d).st = IF owners[d] # {} THEN mem[d].st ELSE "none"
  BY DEF InSync
<1>1. owners[d] \subseteq Range(mt) /\ Range(mt) \subseteq ImageSets
  BY DEF StateInv, Resolved, Range
<1>2. \A is \in Range(mt) : /\ is \notin owners[d] => cm[is][d] = None
                            /\ is \in owners[d] => cm[is][d] # None /\ cm[is][d].st = mem[d].st
  <2> SUFFICES ASSUME NEW is \in Range(mt)
               PROVE  /\ is \notin owners[d] => cm[is][d] = None
                      /\ is \in owners[d] => cm[is][d] # None /\ cm[is][d].st = mem[d].st
    OBVIOUS
  <2>1. cm[is][d] = View(is)[d] /\ is \in ImageSets
    BY <1>1 DEF Flushed
  <2>2. /\ is \notin owners[d] => View(is)[d] = None
        /\ is \in owners[d] => View(is)[d] # None /\ Progress(View(is)[d]) = Progress(mem[d])
    BY <2>1, ViewEntries
  <2>3. \A a, b : Progress(a) = Progress(b) => a.st = b.st
    BY DEF Progress
  <2> QED BY <2>1, <2>2, <2>3
<1>3. Found(d) = Loaded({}, d)
  BY FoundIsLoaded
<1>4. \/ Loaded({}, d) = None /\ \A is \in Range(mt) : cm[is][d] = None
      \/ \E is \in Range(mt) : cm[is][d] # None /\ Loaded({}, d) = cm[is][d]
  BY LoadFinds
<1> QED BY <1>1, <1>2, <1>3, <1>4, NoneIsEntry

LEMMA SyncReport ==
    ASSUME StateInv, SyncInv, NEW d \in Dests, Report(d)
    PROVE  SyncInv'
<1>1. /\ mt' = mt /\ cm' = cm /\ owners' = owners /\ pc' = pc /\ pc.at = "idle" /\ faults \subseteq faults'
  BY DEF Report, user, disk, Fault, Idle
<1>2. dirty' \/ (~dirty /\ mem' = mem)
  BY Zenon DEF Report
<1>3. Unharmed' /\ mem' # Empty => dirty' \/ InSync'
  <2> SUFFICES ASSUME Unharmed', mem' # Empty, mem' = mem, ~dirty PROVE InSync'
    BY <1>2
  <2>1. dirty \/ InSync
    BY <1>1, StillUnharmed DEF SyncInv, Settled
  <2> QED BY <1>1, <2>1, SameSync
<1> QED BY <1>1, <1>3 DEF SyncInv, Settled

LEMMA SyncTick ==
    ASSUME StateInv, SyncInv,
           \/ StartTick \/ FlushIndex \/ SaveSummary \/ WriteStatus \/ Aggregate \/ Crash
           \/ \E d \in Dests : Dispatch(d)
    PROVE  SyncInv'
<1>1. CASE StartTick
  <2>1. /\ mt' = mt /\ mem' = mem /\ owners' = owners /\ meta' = meta /\ cm' = cm
        /\ dirty' = dirty /\ faults' = faults /\ pc.at = "idle"
    BY <1>1 DEF StartTick, user, memory, disk, Idle
  <2>2. \/ mem # Empty /\ pc'.at = "resync"
        \/ mem = Empty /\ pc'.at \in {"migrate", "load"}
    BY <1>1 DEF StartTick
  <2> QED BY <2>1, <2>2, SyncMove
<1>2. CASE FlushIndex
  <2>1. /\ mt' = mt /\ mem' = mem /\ owners' = owners /\ cm' = cm /\ pc.at = "flush" /\ pc.todo = {}
        /\ pc'.at = "summary" /\ faults \subseteq faults'
    BY <1>2 DEF FlushIndex, user, memory, Fault
  <2>2. Unharmed' => InSync'
    <3> SUFFICES ASSUME Unharmed' PROVE InSync'
      OBVIOUS
    <3>1. Flushed
      BY <2>1, StillUnharmed DEF SyncInv, Settled
    <3> QED BY <2>1, <3>1, FlushedIsSync, SameSync
  <2> QED BY <2>1, <2>2 DEF SyncInv, Settled
<1>3. CASE SaveSummary
  <2>1. /\ mt' = mt /\ mem' = mem /\ owners' = owners /\ cm' = cm /\ pc.at = "summary"
        /\ pc'.at = "status" /\ faults \subseteq faults'
    BY <1>3 DEF SaveSummary, user, Fault
  <2>2. Unharmed' => InSync'
    BY <2>1, SameSync, StillUnharmed DEF SyncInv, Settled
  <2> QED BY <2>1, <2>2 DEF SyncInv, Settled
<1>4. CASE WriteStatus
  BY <1>4, SyncMove DEF WriteStatus, user, memory, disk, Idle
<1>5. CASE Aggregate
  BY <1>5, SyncMove DEF Aggregate, user, memory, disk
<1>6. CASE Crash
  BY <1>6 DEF Crash, SyncInv, Settled, Idle
<1>7. ASSUME NEW d \in Dests, Dispatch(d) PROVE SyncInv'
  BY <1>7, SyncMove DEF Dispatch, user, disk
<1> QED BY <1>1, <1>2, <1>3, <1>4, <1>5, <1>6, <1>7

LEMMA SyncStep == StateInv /\ SyncInv /\ [Next]_vars => SyncInv'
<1> SUFFICES ASSUME StateInv, SyncInv, [Next]_vars PROVE SyncInv'
  OBVIOUS
<1>1. CASE UNCHANGED vars
  BY <1>1, SyncMove DEF vars, user, memory, disk
<1>2. CASE EditImageSet \/ AddImageSet \/ \E is \in ImageSets : RequestResync(is)
  BY <1>2, SyncUser
<1>3. CASE LoadState \/ LoadFails
  BY <1>3, SyncLoad
<1>4. CASE MigrateEnd \/ MigrateFails \/ \E is \in ImageSets : MigrateImageSet(is)
  BY <1>4, SyncMigrate
<1>5. CASE \/ StartTick \/ FlushIndex \/ SaveSummary \/ WriteStatus \/ Aggregate \/ Crash
           \/ \E d \in Dests : Dispatch(d)
  BY <1>5, SyncTick
<1>6. CASE Resolve
  BY <1>6, SyncResolve
<1>7. ASSUME NEW is \in ImageSets, Resync(is) \/ FlushOne(is) PROVE SyncInv'
  BY <1>7, SyncResync, SyncFlush
<1>8. ASSUME NEW d \in Dests, Report(d) PROVE SyncInv'
  BY <1>8, SyncReport
<1> QED BY <1>1, <1>2, <1>3, <1>4, <1>5, <1>6, <1>7, <1>8 DEF Next, Manager

\* Counts looks at nothing but the states.
LEMMA SameCounts ==
    ASSUME NEW f, NEW g, \A d \in Dests : IsEntry(f[d]) /\ IsEntry(g[d]) /\ f[d].st = g[d].st
    PROVE  Counts(f) = Counts(g)
<1>1. \A d \in Dests : f[d] = None <=> g[d] = None
  BY NoneIsEntry DEF IsEntry, Known
<1>2. \A S : {d \in Dests : f[d] # None /\ f[d].st \in S} = {d \in Dests : g[d] # None /\ g[d].st \in S}
  BY <1>1
<1> QED BY <1>2, Zenon DEF Counts

LEMMA SummaryCounts ==
    ASSUME StateInv, InSync
    PROVE  Counted = Counts([d \in Dests |-> MergeLoaded([i \in 1..Len(mt) |-> cm[mt[i]][d]])])
<1> DEFINE f == [d \in Dests |-> IF owners[d] \cap Range(mt) # {} THEN mem[d] ELSE None]
           g == [d \in Dests |-> Found(d)]
<1>1. ASSUME NEW d \in Dests PROVE IsEntry(f[d]) /\ IsEntry(g[d]) /\ f[d].st = g[d].st
  <2>1. IsEntry(mem[d]) /\ owners[d] \subseteq Range(mt)
        /\ Found(d).st = IF owners[d] # {} THEN mem[d].st ELSE "none"
    BY DEF StateInv, InSync
  <2>2. f[d] = IF owners[d] # {} THEN mem[d] ELSE None
    BY <2>1
  <2>3. IsEntry(Found(d))
    <3>1. Found(d) = None \/ \E is \in Range(mt) : Found(d) = cm[is][d]
      BY LoadFinds, FoundIsLoaded
    <3>2. Range(mt) \subseteq ImageSets
      BY DEF StateInv, Range
    <3> QED BY <3>1, <3>2, NoneIsEntry DEF StateInv
  <2>4. g[d] = Found(d)
    OBVIOUS
  <2> HIDE DEF f, g
  <2> QED BY <2>1, <2>2, <2>3, <2>4, NoneIsEntry
<1>2. Counted = Counts(f)
  BY Zenon DEF Counted
<1>3. [d \in Dests |-> MergeLoaded([i \in 1..Len(mt) |-> cm[mt[i]][d]])] = g
  BY Zenon DEF Found
<1> HIDE DEF f, g
<1> QED BY <1>1, <1>2, <1>3, SameCounts

(***************************************************************************)
(* Every summary the manager writes counts what a restart would find in    *)
(* the ConfigMaps, shared images once, as long as no ConfigMap could not   *)
(* be read or written: after any crash, migration, edit and resync, also   *)
(* where an ImageSet is listed while the flush goes on.                    *)
(***************************************************************************)
THEOREM TheSummaryDescribesTheState == Spec => SummaryDescribesState
<1> DEFINE Describes ==
      summary' # summary /\ faults \cap {"write", "load"} = {} =>
         summary'.n = Counts([d \in Dests |-> MergeLoaded([i \in 1..Len(mt) |-> cm[mt[i]][d]])])
<1>1. StateInv /\ SyncInv /\ [Next]_vars => [Describes]_vars
  <2> SUFFICES ASSUME StateInv, SyncInv, [Next]_vars, summary' # summary, Unharmed
               PROVE  summary'.n = Counts([d \in Dests |-> MergeLoaded([i \in 1..Len(mt) |-> cm[mt[i]][d]])])
    BY Zenon DEF Unharmed
  <2>1. SaveSummary
    BY DEF Next, Manager, vars, disk, EditImageSet, AddImageSet, RequestResync, StartTick, MigrateEnd,
           MigrateFails, MigrateImageSet, LoadState, LoadFails, LoadFrom, Resync, Resolve, FlushOne,
           FlushIndex, WriteStatus, Dispatch, Report, Crash, Aggregate
  <2>2. pc.at = "summary" /\ summary'.n = Counted
    BY <2>1 DEF SaveSummary
  <2>3. InSync
    BY <2>2 DEF SyncInv, Settled
  <2> QED BY <2>2, <2>3, SummaryCounts
<1>2. Spec => [][Describes]_vars
  <2> HIDE DEF Describes
  <2> QED BY <1>1, StateAlways, SyncInit, SyncStep, PTL DEF Spec
<1> QED BY <1>2, PTL DEF SummaryDescribesState
=============================================================================
