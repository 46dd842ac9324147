-------------------------- MODULE ProcessLock_proofs --------------------------
(***************************************************************************)
(* Theorems about ProcessLock, for any set of processes, any number of     *)
(* retries, calls and crashes and any reclaim depth:                       *)
(*  - type correctness;                                                    *)
(*  - while no process has died, the lock excludes, the holder's own       *)
(*    record stays in the directory, the work is an atomic mutation of the *)
(*    store, and a lock that nobody uses leaves nothing behind.            *)
(***************************************************************************)
EXTENDS ProcessLock, TLAPS

Guarding == {"publish", "readGuard", "recheckClaim", "recheckGuard"}

\* What TypeOK needs to be inductive: a process in a call has an identity, one
\* past the candidate has a guard level, and only a level above the deepest
\* one lists a subdirectory.
InCallOK == \A p \in Proc : pc[p] # "idle" => calls[p] \in Token
GuardingOK == \A p \in Proc : pc[p] \in Guarding => lvl[p] \in Level
ListedOK ==
    \A p \in Proc : \A l \in 0..MaxDepth :
        \A e \in todo[p][l] : e[1] = "sub" => l < MaxDepth

TypeInv == TypeOK /\ InCallOK /\ GuardingOK /\ ListedOK

-----------------------------------------------------------------------------
LEMMA SerialType ==
    ASSUME TypeInv, NEW p \in Proc
    PROVE  Serial(p) \in Nat
<1>1. calls[p] \in Nat /\ att[p] \in Nat
  BY BoundsNat DEF TypeInv, TypeOK, ControlOK
<1>2. calls[p] * (Retries + 1) \in Nat
  <2>1. \A a, b \in Nat : a * b \in Nat
    BY SMT
  <2>2. Retries + 1 \in Nat
    BY BoundsNat
  <2> QED BY <1>1, <2>1, <2>2
<1> QED BY <1>1, <1>2 DEF Serial

LEMMA EntriesType ==
    ASSUME TypeInv, NEW l \in 0..MaxDepth
    PROVE  /\ Entries(l) \subseteq Entry
           /\ \A e \in Entries(l) : e[1] = "sub" => l < MaxDepth
<1>1. Names(l) \subseteq EntryName
  BY DEF Names, EntryName
<1>2. "sub" \in Names(l) => l < MaxDepth
  BY BoundsNat DEF Names, TypeInv, TypeOK, DiskOK
<1>3. \A n \in Names(l) : File(n) \in Entry /\ File(n)[1] = n
  BY <1>1 DEF File, Entry
<1>4. \A q \in Proc : <<"cand", q, Serial(q)>> \in Entry
  BY SerialType DEF Entry, EntryName
<1> QED BY <1>2, <1>3, <1>4 DEF Entries

LEMMA MeType ==
    ASSUME TypeInv, NEW p \in Proc, pc[p] # "idle"
    PROVE  Me(p) \in Id
BY DEF TypeInv, InCallOK, Me, Id

LEMMA InitType == Init => TypeInv
<1> SUFFICES ASSUME Init PROVE TypeInv
  OBVIOUS
<1>1. DiskOK /\ StoreOK
  BY BoundsNat DEF Init, DiskOK, StoreOK, IdOrNone
<1>2. ControlOK /\ MemoOK /\ RemovalOK /\ TodoOK
  BY BoundsNat DEF Init, ControlOK, MemoOK, RemovalOK, TodoOK, IdOrNone, Label
<1>3. InCallOK /\ GuardingOK /\ ListedOK
  BY DEF Init, InCallOK, GuardingOK, ListedOK, Guarding
<1> QED BY <1>1, <1>2, <1>3 DEF TypeInv, TypeOK

-----------------------------------------------------------------------------
(* One lemma per action *)

LEMMA CallType ==
    ASSUME TypeInv, NEW p \in Proc, Call(p), UNCHANGED crashed
    PROVE  TypeInv'
<1> USE BoundsNat
<1>1. DiskOK /\ StoreOK /\ ControlOK /\ MemoOK /\ RemovalOK /\ TodoOK
  BY DEF TypeInv, TypeOK
<1>2. InCallOK /\ GuardingOK /\ ListedOK
  BY DEF TypeInv
<1>3. pc[p] # "idle" => Me(p) \in Id
  BY MeType
<1>4. DiskOK'
  BY <1>1 DEF Call, disk, DiskOK
<1>5. StoreOK'
  BY <1>1, <1>3 DEF Call, local, StoreOK
<1>6. ControlOK'
  BY <1>1 DEF Call, Goto, ControlOK, Label
<1>7. MemoOK'
  BY <1>1 DEF Call, MemoOK
<1>8. RemovalOK' /\ TodoOK'
  BY <1>1 DEF Call, local, RemovalOK, TodoOK
<1>9. InCallOK' /\ GuardingOK' /\ ListedOK'
  <2>1. /\ pc' = [pc EXCEPT ![p] = "install"] /\ calls' = [calls EXCEPT ![p] = @ + 1]
        /\ calls[p] < MaxCalls /\ UNCHANGED <<lvl, todo>>
    BY DEF Call, Goto
  <2>2. InCallOK'
    BY <1>1, <1>2, <2>1 DEF InCallOK, ControlOK, Token
  <2>3. GuardingOK' /\ ListedOK'
    BY <1>1, <1>2, <2>1 DEF GuardingOK, ListedOK, Guarding, ControlOK
  <2> QED BY <2>2, <2>3
<1> QED BY <1>4, <1>5, <1>6, <1>7, <1>8, <1>9 DEF TypeInv, TypeOK

LEMMA InstallType ==
    ASSUME TypeInv, NEW p \in Proc, Install(p), UNCHANGED crashed
    PROVE  TypeInv'
<1> USE BoundsNat
<1>1. DiskOK /\ StoreOK /\ ControlOK /\ MemoOK /\ RemovalOK /\ TodoOK
  BY DEF TypeInv, TypeOK
<1>2. InCallOK /\ GuardingOK /\ ListedOK
  BY DEF TypeInv
<1>3. pc[p] # "idle" => Me(p) \in Id
  BY MeType
<1>4. DiskOK'
  BY <1>1, <1>3 DEF Install, DiskOK, IdOrNone
<1>5. StoreOK'
  BY <1>1, <1>3 DEF Install, local, StoreOK
<1>6. ControlOK'
  BY <1>1 DEF Install, local, Goto, ControlOK, Label
<1>7. MemoOK'
  BY <1>1 DEF Install, local, MemoOK
<1>8. RemovalOK' /\ TodoOK'
  BY <1>1 DEF Install, local, RemovalOK, TodoOK
<1>9. InCallOK' /\ GuardingOK' /\ ListedOK'
  BY <1>1, <1>2 DEF Install, local, Goto, InCallOK, GuardingOK, ListedOK, Guarding, ControlOK
<1> QED BY <1>4, <1>5, <1>6, <1>7, <1>8, <1>9 DEF TypeInv, TypeOK

LEMMA ReadPrimaryType ==
    ASSUME TypeInv, NEW p \in Proc, ReadPrimary(p), UNCHANGED crashed
    PROVE  TypeInv'
<1> USE BoundsNat
<1>1. DiskOK /\ StoreOK /\ ControlOK /\ MemoOK /\ RemovalOK /\ TodoOK
  BY DEF TypeInv, TypeOK
<1>2. InCallOK /\ GuardingOK /\ ListedOK
  BY DEF TypeInv
<1>3. pc[p] # "idle" => Me(p) \in Id
  BY MeType
<1>4. DiskOK'
  BY <1>1 DEF ReadPrimary, disk, DiskOK
<1>5. StoreOK'
  BY <1>1, <1>3 DEF ReadPrimary, local, StoreOK
<1>6. ControlOK'
  BY <1>1 DEF ReadPrimary, Goto, ControlOK, Label
<1>7. MemoOK'
  BY <1>1 DEF ReadPrimary, MemoOK, DiskOK
<1>8. RemovalOK' /\ TodoOK'
  BY <1>1 DEF ReadPrimary, local, RemovalOK, TodoOK
<1>9. InCallOK' /\ GuardingOK' /\ ListedOK'
  BY <1>2 DEF ReadPrimary, Goto, InCallOK, GuardingOK, ListedOK, Guarding
<1> QED BY <1>4, <1>5, <1>6, <1>7, <1>8, <1>9 DEF TypeInv, TypeOK

LEMMA ReadBackupType ==
    ASSUME TypeInv, NEW p \in Proc, ReadBackup(p), UNCHANGED crashed
    PROVE  TypeInv'
<1> USE BoundsNat
<1>1. DiskOK /\ StoreOK /\ ControlOK /\ MemoOK /\ RemovalOK /\ TodoOK
  BY DEF TypeInv, TypeOK
<1>2. InCallOK /\ GuardingOK /\ ListedOK
  BY DEF TypeInv
<1>3. pc[p] # "idle" => Me(p) \in Id
  BY MeType
<1>4. DiskOK'
  BY <1>1 DEF ReadBackup, disk, DiskOK
<1>5. StoreOK'
  BY <1>1, <1>3 DEF ReadBackup, NextAttempt, local, StoreOK
<1>6. ControlOK'
  BY <1>1 DEF ReadBackup, NextAttempt, Goto, ControlOK, Label
<1>7. MemoOK'
  <2>1. ResolveOwner(obsP[p], backup) \in IdOrNone
    BY <1>1 DEF DiskOK, MemoOK, ResolveOwner, IdOrNone
  <2>2. 1 \in 1..(MaxDepth + 1)
    OBVIOUS
  <2> QED BY <1>1, <2>1, <2>2 DEF ReadBackup, MemoOK
<1>8. RemovalOK' /\ TodoOK'
  BY <1>1 DEF ReadBackup, RemovalOK, TodoOK
<1>9. InCallOK' /\ GuardingOK' /\ ListedOK'
  BY <1>1, <1>2 DEF ReadBackup, NextAttempt, local, Goto, InCallOK, GuardingOK, ListedOK,
      Guarding, ControlOK, MemoOK
<1> QED BY <1>4, <1>5, <1>6, <1>7, <1>8, <1>9 DEF TypeInv, TypeOK

LEMMA MakeCandidateType ==
    ASSUME TypeInv, NEW p \in Proc, MakeCandidate(p), UNCHANGED crashed
    PROVE  TypeInv'
<1> USE BoundsNat
<1>1. DiskOK /\ StoreOK /\ ControlOK /\ MemoOK /\ RemovalOK /\ TodoOK
  BY DEF TypeInv, TypeOK
<1>2. InCallOK /\ GuardingOK /\ ListedOK
  BY DEF TypeInv
<1>3. pc[p] # "idle" => Me(p) \in Id
  BY MeType
<1>4. DiskOK'
  <2>1. lvl[p] <= MaxDepth => lvl[p] \in 0..MaxDepth
    BY <1>1 DEF MemoOK
  <2>2. DiskOK
    BY <1>1
  <2> QED BY <2>1, <2>2 DEF MakeCandidate, DiskOK
<1>5. StoreOK'
  BY <1>1, <1>3 DEF MakeCandidate, NextAttempt, local, StoreOK
<1>6. ControlOK'
  BY <1>1 DEF MakeCandidate, NextAttempt, Goto, ControlOK, Label
<1>7. MemoOK'
  BY <1>1 DEF MakeCandidate, MemoOK
<1>8. RemovalOK' /\ TodoOK'
  BY <1>1 DEF MakeCandidate, RemovalOK, TodoOK
<1>9. InCallOK' /\ GuardingOK' /\ ListedOK'
  BY <1>1, <1>2 DEF MakeCandidate, NextAttempt, Goto, InCallOK, GuardingOK, ListedOK, Guarding,
      ControlOK, MemoOK, Level
<1> QED BY <1>4, <1>5, <1>6, <1>7, <1>8, <1>9 DEF TypeInv, TypeOK

LEMMA PublishGuardType ==
    ASSUME TypeInv, NEW p \in Proc, PublishGuard(p), UNCHANGED crashed
    PROVE  TypeInv'
<1> USE BoundsNat
<1>1. DiskOK /\ StoreOK /\ ControlOK /\ MemoOK /\ RemovalOK /\ TodoOK
  BY DEF TypeInv, TypeOK
<1>2. InCallOK /\ GuardingOK /\ ListedOK
  BY DEF TypeInv
<1>3. pc[p] # "idle" => Me(p) \in Id
  BY MeType
<1>4. DiskOK'
  <2>1. lvl[p] \in Level /\ lvl[p] + 1 \in 0..(MaxDepth + 1) /\ 0 \in 0..MaxDepth
    BY <1>2 DEF PublishGuard, GuardingOK, Guarding, Level
  <2>2. Me(p) \in IdOrNone
    BY <1>3 DEF PublishGuard, IdOrNone
  <2>3. DiskOK
    BY <1>1
  <2> QED BY <2>1, <2>2, <2>3 DEF PublishGuard, DiskOK
<1>5. StoreOK'
  BY <1>1, <1>3 DEF PublishGuard, local, StoreOK
<1>6. ControlOK'
  BY <1>1 DEF PublishGuard, local, Goto, ControlOK, Label
<1>7. MemoOK'
  BY <1>1 DEF PublishGuard, local, MemoOK
<1>8. RemovalOK' /\ TodoOK'
  BY <1>1 DEF PublishGuard, local, RemovalOK, TodoOK
<1>9. InCallOK' /\ GuardingOK' /\ ListedOK'
  BY <1>1, <1>2 DEF PublishGuard, local, Goto, InCallOK, GuardingOK, ListedOK, Guarding,
      ControlOK
<1> QED BY <1>4, <1>5, <1>6, <1>7, <1>8, <1>9 DEF TypeInv, TypeOK

LEMMA CandidateLostType ==
    ASSUME TypeInv, NEW p \in Proc, CandidateLost(p), UNCHANGED crashed
    PROVE  TypeInv'
<1> USE BoundsNat
<1>1. DiskOK /\ StoreOK /\ ControlOK /\ MemoOK /\ RemovalOK /\ TodoOK
  BY DEF TypeInv, TypeOK
<1>2. InCallOK /\ GuardingOK /\ ListedOK
  BY DEF TypeInv
<1>3. pc[p] # "idle" => Me(p) \in Id
  BY MeType
<1>4. DiskOK'
  BY <1>1 DEF CandidateLost, disk, DiskOK
<1>5. StoreOK'
  BY <1>1, <1>3 DEF CandidateLost, NextAttempt, local, StoreOK
<1>6. ControlOK'
  BY <1>1 DEF CandidateLost, NextAttempt, Goto, ControlOK, Label
<1>7. MemoOK'
  BY <1>1 DEF CandidateLost, MemoOK
<1>8. RemovalOK' /\ TodoOK'
  BY <1>1 DEF CandidateLost, RemovalOK, TodoOK
<1>9. InCallOK' /\ GuardingOK' /\ ListedOK'
  BY <1>1, <1>2 DEF CandidateLost, NextAttempt, Goto, InCallOK, GuardingOK, ListedOK, Guarding,
      ControlOK
<1> QED BY <1>4, <1>5, <1>6, <1>7, <1>8, <1>9 DEF TypeInv, TypeOK

LEMMA ReadGuardType ==
    ASSUME TypeInv, NEW p \in Proc, ReadGuard(p), UNCHANGED crashed
    PROVE  TypeInv'
<1> USE BoundsNat
<1>1. DiskOK /\ StoreOK /\ ControlOK /\ MemoOK /\ RemovalOK /\ TodoOK
  BY DEF TypeInv, TypeOK
<1>2. InCallOK /\ GuardingOK /\ ListedOK
  BY DEF TypeInv
<1>3. pc[p] # "idle" => Me(p) \in Id
  BY MeType
<1>4. DiskOK'
  BY <1>1 DEF ReadGuard, disk, DiskOK
<1>5. StoreOK'
  BY <1>1, <1>3 DEF ReadGuard, NextAttempt, local, StoreOK
<1>6. ControlOK'
  BY <1>1 DEF ReadGuard, NextAttempt, Goto, ControlOK, Label
<1>7. MemoOK'
  <2>1. lvl[p] + 1 \in 1..(MaxDepth + 1)
    BY <1>2 DEF ReadGuard, GuardingOK, Guarding, Level
  <2>2. MemoOK
    BY <1>1
  <2> QED BY <2>1, <2>2 DEF ReadGuard, MemoOK
<1>8. RemovalOK' /\ TodoOK'
  BY <1>1 DEF ReadGuard, RemovalOK, TodoOK
<1>9. InCallOK' /\ GuardingOK' /\ ListedOK'
  BY <1>1, <1>2 DEF ReadGuard, NextAttempt, local, Goto, InCallOK, GuardingOK, ListedOK, Guarding, ControlOK, MemoOK, RemovalOK, TodoOK, Level, Token
<1> QED BY <1>4, <1>5, <1>6, <1>7, <1>8, <1>9 DEF TypeInv, TypeOK

LEMMA RecheckClaimType ==
    ASSUME TypeInv, NEW p \in Proc, RecheckClaim(p), UNCHANGED crashed
    PROVE  TypeInv'
<1> USE BoundsNat
<1>1. DiskOK /\ StoreOK /\ ControlOK /\ MemoOK /\ RemovalOK /\ TodoOK
  BY DEF TypeInv, TypeOK
<1>2. InCallOK /\ GuardingOK /\ ListedOK
  BY DEF TypeInv
<1>3. pc[p] # "idle" => Me(p) \in Id
  BY MeType
<1>4. DiskOK'
  BY <1>1 DEF RecheckClaim, disk, DiskOK
<1>5. StoreOK'
  BY <1>1, <1>3 DEF RecheckClaim, NextAttempt, local, StoreOK
<1>6. ControlOK'
  BY <1>1 DEF RecheckClaim, NextAttempt, Goto, ControlOK, Label
<1>7. MemoOK'
  BY <1>1 DEF RecheckClaim, MemoOK
<1>8. RemovalOK' /\ TodoOK'
  BY <1>1 DEF RecheckClaim, RemovalOK, TodoOK
<1>9. InCallOK' /\ GuardingOK' /\ ListedOK'
  BY <1>1, <1>2 DEF RecheckClaim, NextAttempt, Goto, InCallOK, GuardingOK, ListedOK, Guarding,
      ControlOK
<1> QED BY <1>4, <1>5, <1>6, <1>7, <1>8, <1>9 DEF TypeInv, TypeOK

LEMMA RecheckGuardType ==
    ASSUME TypeInv, NEW p \in Proc, RecheckGuard(p), UNCHANGED crashed
    PROVE  TypeInv'
<1> USE BoundsNat
<1>1. DiskOK /\ StoreOK /\ ControlOK /\ MemoOK /\ RemovalOK /\ TodoOK
  BY DEF TypeInv, TypeOK
<1>2. InCallOK /\ GuardingOK /\ ListedOK
  BY DEF TypeInv
<1>3. pc[p] # "idle" => Me(p) \in Id
  BY MeType
<1>4. DiskOK'
  BY <1>1 DEF RecheckGuard, disk, DiskOK
<1>5. StoreOK'
  BY <1>1, <1>3 DEF RecheckGuard, NextAttempt, local, StoreOK
<1>6. ControlOK'
  BY <1>1 DEF RecheckGuard, NextAttempt, Goto, ControlOK, Label
<1>7. MemoOK'
  BY <1>1 DEF RecheckGuard, MemoOK
<1>8. RemovalOK' /\ TodoOK'
  <2>1. RemovalOK /\ TodoOK
    BY <1>1
  <2>2. RemovalOK'
    BY <2>1 DEF RecheckGuard, RemovalOK
  <2>3. TodoOK'
    BY <2>1 DEF RecheckGuard, TodoOK
  <2> QED BY <2>2, <2>3
<1>9. InCallOK' /\ GuardingOK' /\ ListedOK'
  BY <1>1, <1>2 DEF RecheckGuard, NextAttempt, Goto, InCallOK, GuardingOK, ListedOK, Guarding,
      ControlOK
<1> QED BY <1>4, <1>5, <1>6, <1>7, <1>8, <1>9 DEF TypeInv, TypeOK

LEMMA ListLevelType ==
    ASSUME TypeInv, NEW p \in Proc, ListLevel(p), UNCHANGED crashed
    PROVE  TypeInv'
<1> USE BoundsNat
<1>1. DiskOK /\ StoreOK /\ ControlOK /\ MemoOK /\ RemovalOK /\ TodoOK
  BY DEF TypeInv, TypeOK
<1>2. InCallOK /\ GuardingOK /\ ListedOK
  BY DEF TypeInv
<1>3. pc[p] # "idle" => Me(p) \in Id
  BY MeType
<1>4. DiskOK'
  BY <1>1 DEF ListLevel, disk, DiskOK
<1>5. StoreOK'
  BY <1>1 DEF ListLevel, StoreOK
<1>6. ControlOK'
  BY <1>1 DEF ListLevel, LevelRemoved, RemovalEnds, NextAttempt, Goto, ControlOK, Label
<1>7. MemoOK'
  BY <1>1 DEF ListLevel, MemoOK
<1>8. RemovalOK' /\ TodoOK'
  <2>1. RemovalOK /\ TodoOK /\ rl[p] \in 0..MaxDepth
    BY <1>1 DEF RemovalOK
  <2>2. Entries(rl[p]) \in SUBSET Entry
    BY <2>1, EntriesType
  <2>3. todo' = todo \/ todo' = [todo EXCEPT ![p][rl[p]] = Entries(rl[p])]
    BY DEF ListLevel
  <2>4. TodoOK'
    <3>1. CASE todo' = todo
      BY <2>1, <3>1 DEF TodoOK
    <3>2. ASSUME NEW E \in SUBSET Entry, todo' = [todo EXCEPT ![p][rl[p]] = E]
          PROVE  TodoOK'
      BY <2>1, <3>2 DEF TodoOK
    <3> QED BY <2>2, <2>3, <3>1, <3>2
  <2>5. rl' = rl \/ (rl[p] # 0 /\ rl' = [rl EXCEPT ![p] = @ - 1])
    BY DEF ListLevel, LevelRemoved
  <2>6. rl' \in [Proc -> 0..MaxDepth]
    BY <2>1, <2>5 DEF RemovalOK
  <2>7. removing' = removing
    BY DEF ListLevel
  <2> QED BY <2>1, <2>4, <2>6, <2>7 DEF RemovalOK
<1>9. InCallOK' /\ GuardingOK' /\ ListedOK'
  <2>1. TodoOK /\ rl[p] \in 0..MaxDepth
    BY <1>1 DEF RemovalOK
  <2>2. todo' = todo \/ todo' = [todo EXCEPT ![p][rl[p]] = Entries(rl[p])]
    BY DEF ListLevel
  <2>3. \A e \in Entries(rl[p]) : e[1] = "sub" => rl[p] < MaxDepth
    BY <2>1, EntriesType
  <2>4. ListedOK'
    BY <1>2, <2>1, <2>2, <2>3 DEF ListedOK, TodoOK
  <2>5. InCallOK' /\ GuardingOK'
    BY <1>1, <1>2 DEF ListLevel, LevelRemoved, RemovalEnds, NextAttempt, Goto, InCallOK,
        GuardingOK, Guarding, ControlOK
  <2> QED BY <2>4, <2>5
<1> QED BY <1>4, <1>5, <1>6, <1>7, <1>8, <1>9 DEF TypeInv, TypeOK

LEMMA RemoveEntryType ==
    ASSUME TypeInv, NEW p \in Proc, RemoveEntry(p), UNCHANGED crashed
    PROVE  TypeInv'
<1> USE BoundsNat
<1>1. DiskOK /\ StoreOK /\ ControlOK /\ MemoOK /\ RemovalOK /\ TodoOK
  BY DEF TypeInv, TypeOK
<1>2. InCallOK /\ GuardingOK /\ ListedOK
  BY DEF TypeInv
<1>3. pc[p] # "idle" => Me(p) \in Id
  BY MeType
<1>4. DiskOK'
  <2>1. DiskOK /\ NoId \in IdOrNone /\ 0 \in 0..MaxDepth
    BY <1>1 DEF IdOrNone
  <2>2. guard' \in [Level -> IdOrNone] /\ owner' \in IdOrNone /\ backup' \in IdOrNone
    <3>1. PICK e \in todo[p][rl[p]] :
              /\ owner' = IF e[1] = "owner" THEN NoId ELSE owner
              /\ backup' = IF e[1] = "backup" THEN NoId ELSE backup
              /\ guard' = IF e[1] = "claimer" THEN [guard EXCEPT ![rl[p]] = NoId] ELSE guard
      BY DEF RemoveEntry
    <3>2. owner' \in IdOrNone /\ backup' \in IdOrNone
      BY <2>1, <3>1 DEF DiskOK
    <3>3. guard' \in [Level -> IdOrNone]
      BY <2>1, <3>1 DEF DiskOK
    <3> QED BY <3>2, <3>3
  <2>3. cand' \in [Proc -> 0..MaxDepth]
    <3>1. PICK e \in todo[p][rl[p]] :
              cand' = [q \in Proc |-> IF e = <<"cand", q, Serial(q)>> /\ cand[q] = rl[p] + 1
                                      THEN 0 ELSE cand[q]]
      BY DEF RemoveEntry
    <3> QED BY <2>1, <3>1 DEF DiskOK
  <2> QED BY <2>1, <2>2, <2>3 DEF RemoveEntry, DiskOK
<1>5. StoreOK'
  BY <1>1, <1>3 DEF RemoveEntry, local, StoreOK
<1>6. ControlOK'
  BY <1>1 DEF RemoveEntry, Goto, ControlOK, Label
<1>7. MemoOK'
  BY <1>1 DEF RemoveEntry, MemoOK
<1>8. RemovalOK' /\ TodoOK'
  <2>1. RemovalOK /\ TodoOK /\ rl[p] \in 0..MaxDepth
    BY <1>1 DEF RemovalOK
  <2>2. PICK e \in todo[p][rl[p]] :
            /\ todo' = [todo EXCEPT ![p][rl[p]] = @ \ {e}]
            /\ IF e[1] = "sub" THEN rl' = [rl EXCEPT ![p] = @ + 1] ELSE UNCHANGED rl
    BY DEF RemoveEntry
  <2>3. TodoOK'
    BY <2>1, <2>2 DEF TodoOK
  <2>4. e[1] = "sub" => rl[p] + 1 \in 0..MaxDepth
    BY <1>2, <2>1, <2>2 DEF ListedOK
  <2>5. rl' \in [Proc -> 0..MaxDepth]
    BY <2>1, <2>2, <2>4 DEF RemovalOK
  <2>6. removing' = removing
    BY DEF RemoveEntry
  <2> QED BY <2>1, <2>3, <2>5, <2>6 DEF RemovalOK
<1>9. InCallOK' /\ GuardingOK' /\ ListedOK'
  <2>1. PICK e \in todo[p][rl[p]] :
            /\ todo' = [todo EXCEPT ![p][rl[p]] = @ \ {e}]
            /\ pc' = [pc EXCEPT ![p] = "list"] \/ pc' = pc
    BY DEF RemoveEntry, Goto
  <2>2. pc[p] = "remove" /\ calls' = calls /\ lvl' = lvl
    BY DEF RemoveEntry
  <2>3. InCallOK' /\ GuardingOK'
    BY <1>1, <1>2, <2>1, <2>2 DEF InCallOK, GuardingOK, Guarding, ControlOK
  <2>4. \A q \in Proc, l \in 0..MaxDepth : todo'[q][l] \subseteq todo[q][l]
    BY <1>1, <2>1 DEF TodoOK, RemovalOK
  <2>5. ListedOK'
    BY <1>2, <2>4 DEF ListedOK
  <2> QED BY <2>3, <2>5
<1> QED BY <1>4, <1>5, <1>6, <1>7, <1>8, <1>9 DEF TypeInv, TypeOK

LEMMA RemoveLevelType ==
    ASSUME TypeInv, NEW p \in Proc, RemoveLevel(p), UNCHANGED crashed
    PROVE  TypeInv'
<1> USE BoundsNat
<1>1. DiskOK /\ StoreOK /\ ControlOK /\ MemoOK /\ RemovalOK /\ TodoOK
  BY DEF TypeInv, TypeOK
<1>2. InCallOK /\ GuardingOK /\ ListedOK
  BY DEF TypeInv
<1>3. pc[p] # "idle" => Me(p) \in Id
  BY MeType
<1>4. DiskOK'
  <2>1. DiskOK /\ rl[p] \in 0..(MaxDepth + 1)
    BY <1>1 DEF RemovalOK
  <2>2. dirs' \in {dirs, rl[p]} /\ UNCHANGED <<owner, backup, guard, cand>>
    BY DEF RemoveLevel
  <2> QED BY <2>1, <2>2 DEF DiskOK
<1>5. StoreOK'
  BY <1>1 DEF RemoveLevel, StoreOK
<1>6. ControlOK'
  BY <1>1 DEF RemoveLevel, LevelRemoved, RemovalEnds, NextAttempt, Goto, ControlOK, Label
<1>7. MemoOK'
  BY <1>1 DEF RemoveLevel, MemoOK
<1>8. RemovalOK' /\ TodoOK'
  <2>1. RemovalOK /\ TodoOK
    BY <1>1
  <2>2. rl' = rl \/ (rl[p] # 0 /\ rl' = [rl EXCEPT ![p] = @ - 1])
    BY DEF RemoveLevel, LevelRemoved
  <2>3. UNCHANGED <<todo, removing>>
    BY DEF RemoveLevel
  <2>4. rl' \in [Proc -> 0..MaxDepth]
    BY <2>1, <2>2 DEF RemovalOK
  <2> QED BY <2>1, <2>3, <2>4 DEF RemovalOK, TodoOK
<1>9. InCallOK' /\ GuardingOK' /\ ListedOK'
  BY <1>1, <1>2 DEF RemoveLevel, LevelRemoved, RemovalEnds, NextAttempt, local, Goto, InCallOK, GuardingOK, ListedOK, Guarding, ControlOK, MemoOK, RemovalOK, TodoOK, Level, Token
<1> QED BY <1>4, <1>5, <1>6, <1>7, <1>8, <1>9 DEF TypeInv, TypeOK

LEMMA LoadType ==
    ASSUME TypeInv, NEW p \in Proc, Load(p), UNCHANGED crashed
    PROVE  TypeInv'
<1> USE BoundsNat
<1>1. DiskOK /\ StoreOK /\ ControlOK /\ MemoOK /\ RemovalOK /\ TodoOK
  BY DEF TypeInv, TypeOK
<1>2. InCallOK /\ GuardingOK /\ ListedOK
  BY DEF TypeInv
<1>3. pc[p] # "idle" => Me(p) \in Id
  BY MeType
<1>4. DiskOK'
  BY <1>1 DEF Load, disk, DiskOK
<1>5. StoreOK'
  BY <1>1, <1>3 DEF Load, local, StoreOK
<1>6. ControlOK'
  BY <1>1 DEF Load, Goto, ControlOK, Label
<1>7. MemoOK'
  BY <1>1 DEF Load, MemoOK
<1>8. RemovalOK' /\ TodoOK'
  BY <1>1 DEF Load, local, RemovalOK, TodoOK
<1>9. InCallOK' /\ GuardingOK' /\ ListedOK'
  BY <1>2 DEF Load, Goto, InCallOK, GuardingOK, ListedOK, Guarding
<1> QED BY <1>4, <1>5, <1>6, <1>7, <1>8, <1>9 DEF TypeInv, TypeOK

LEMMA SaveType ==
    ASSUME TypeInv, NEW p \in Proc, Save(p), UNCHANGED crashed
    PROVE  TypeInv'
<1> USE BoundsNat
<1>1. DiskOK /\ StoreOK /\ ControlOK /\ MemoOK /\ RemovalOK /\ TodoOK
  BY DEF TypeInv, TypeOK
<1>2. InCallOK /\ GuardingOK /\ ListedOK
  BY DEF TypeInv
<1>3. pc[p] # "idle" => Me(p) \in Id
  BY MeType
<1>4. DiskOK'
  BY <1>1 DEF Save, disk, DiskOK
<1>5. StoreOK'
  BY <1>1, <1>3 DEF Save, local, StoreOK
<1>6. ControlOK'
  BY <1>1 DEF Save, local, Goto, ControlOK, Label
<1>7. MemoOK'
  BY <1>1 DEF Save, local, MemoOK
<1>8. RemovalOK' /\ TodoOK'
  BY <1>1 DEF Save, local, RemovalOK, TodoOK
<1>9. InCallOK' /\ GuardingOK' /\ ListedOK'
  BY <1>2 DEF Save, local, Goto, InCallOK, GuardingOK, ListedOK, Guarding
<1> QED BY <1>4, <1>5, <1>6, <1>7, <1>8, <1>9 DEF TypeInv, TypeOK

LEMMA WorkThrowsType ==
    ASSUME TypeInv, NEW p \in Proc, WorkThrows(p), UNCHANGED crashed
    PROVE  TypeInv'
<1> USE BoundsNat
<1>1. DiskOK /\ StoreOK /\ ControlOK /\ MemoOK /\ RemovalOK /\ TodoOK
  BY DEF TypeInv, TypeOK
<1>2. InCallOK /\ GuardingOK /\ ListedOK
  BY DEF TypeInv
<1>3. pc[p] # "idle" => Me(p) \in Id
  BY MeType
<1>4. DiskOK'
  BY <1>1 DEF WorkThrows, disk, DiskOK
<1>5. StoreOK'
  BY <1>1, <1>3 DEF WorkThrows, local, StoreOK
<1>6. ControlOK'
  BY <1>1 DEF WorkThrows, local, Goto, ControlOK, Label
<1>7. MemoOK'
  BY <1>1 DEF WorkThrows, local, MemoOK
<1>8. RemovalOK' /\ TodoOK'
  BY <1>1 DEF WorkThrows, local, RemovalOK, TodoOK
<1>9. InCallOK' /\ GuardingOK' /\ ListedOK'
  BY <1>2 DEF WorkThrows, local, Goto, InCallOK, GuardingOK, ListedOK, Guarding
<1> QED BY <1>4, <1>5, <1>6, <1>7, <1>8, <1>9 DEF TypeInv, TypeOK

LEMMA ReleaseReadPrimaryType ==
    ASSUME TypeInv, NEW p \in Proc, ReleaseReadPrimary(p), UNCHANGED crashed
    PROVE  TypeInv'
<1> USE BoundsNat
<1>1. DiskOK /\ StoreOK /\ ControlOK /\ MemoOK /\ RemovalOK /\ TodoOK
  BY DEF TypeInv, TypeOK
<1>2. InCallOK /\ GuardingOK /\ ListedOK
  BY DEF TypeInv
<1>3. pc[p] # "idle" => Me(p) \in Id
  BY MeType
<1>4. DiskOK'
  BY <1>1 DEF ReleaseReadPrimary, disk, DiskOK
<1>5. StoreOK'
  BY <1>1, <1>3 DEF ReleaseReadPrimary, local, StoreOK
<1>6. ControlOK'
  BY <1>1 DEF ReleaseReadPrimary, Goto, ControlOK, Label
<1>7. MemoOK'
  BY <1>1 DEF ReleaseReadPrimary, MemoOK, DiskOK
<1>8. RemovalOK' /\ TodoOK'
  BY <1>1 DEF ReleaseReadPrimary, local, RemovalOK, TodoOK
<1>9. InCallOK' /\ GuardingOK' /\ ListedOK'
  BY <1>2 DEF ReleaseReadPrimary, Goto, InCallOK, GuardingOK, ListedOK, Guarding
<1> QED BY <1>4, <1>5, <1>6, <1>7, <1>8, <1>9 DEF TypeInv, TypeOK

LEMMA ReleaseType ==
    ASSUME TypeInv, NEW p \in Proc, Release(p), UNCHANGED crashed
    PROVE  TypeInv'
<1> USE BoundsNat
<1>1. DiskOK /\ StoreOK /\ ControlOK /\ MemoOK /\ RemovalOK /\ TodoOK
  BY DEF TypeInv, TypeOK
<1>2. InCallOK /\ GuardingOK /\ ListedOK
  BY DEF TypeInv
<1>3. pc[p] # "idle" => Me(p) \in Id
  BY MeType
<1>4. DiskOK'
  BY <1>1 DEF Release, disk, DiskOK
<1>5. StoreOK'
  BY <1>1, <1>3 DEF Release, local, StoreOK
<1>6. ControlOK'
  BY <1>1 DEF Release, Goto, ControlOK, Label
<1>7. MemoOK'
  BY <1>1 DEF Release, MemoOK
<1>8. RemovalOK' /\ TodoOK'
  <2>1. RemovalOK /\ TodoOK
    BY <1>1
  <2>2. RemovalOK'
    BY <2>1 DEF Release, RemovalOK
  <2>3. TodoOK'
    BY <2>1 DEF Release, TodoOK
  <2> QED BY <2>2, <2>3
<1>9. InCallOK' /\ GuardingOK' /\ ListedOK'
  BY <1>1, <1>2 DEF Release, Goto, InCallOK, GuardingOK, ListedOK, Guarding, ControlOK
<1> QED BY <1>4, <1>5, <1>6, <1>7, <1>8, <1>9 DEF TypeInv, TypeOK

LEMMA CrashType ==
    ASSUME TypeInv, NEW p \in Proc, Crash(p)
    PROVE  TypeInv'
<1> USE BoundsNat
<1>1. DiskOK /\ StoreOK /\ ControlOK /\ MemoOK /\ RemovalOK /\ TodoOK
  BY DEF TypeInv, TypeOK
<1>2. InCallOK /\ GuardingOK /\ ListedOK
  BY DEF TypeInv
<1>3. pc[p] # "idle" => Me(p) \in Id
  BY MeType
<1>4. DiskOK'
  BY <1>1 DEF Crash, disk, DiskOK
<1>5. StoreOK'
  BY <1>1, <1>3 DEF Crash, local, StoreOK
<1>6. ControlOK'
  BY <1>1 DEF Crash, local, ControlOK
<1>7. MemoOK'
  BY <1>1 DEF Crash, local, MemoOK
<1>8. RemovalOK' /\ TodoOK'
  BY <1>1 DEF Crash, local, RemovalOK, TodoOK
<1>9. InCallOK' /\ GuardingOK' /\ ListedOK'
  BY <1>2 DEF Crash, local, InCallOK, GuardingOK, ListedOK
<1> QED BY <1>4, <1>5, <1>6, <1>7, <1>8, <1>9 DEF TypeInv, TypeOK

LEMMA NextType == TypeInv /\ [Next]_vars => TypeInv'
<1> SUFFICES ASSUME TypeInv, [Next]_vars PROVE TypeInv'
  OBVIOUS
<1>1. CASE UNCHANGED vars
  BY <1>1 DEF vars, TypeInv, TypeOK, DiskOK, StoreOK, ControlOK, MemoOK, RemovalOK, TodoOK,
      InCallOK, GuardingOK, ListedOK
<1>2. ASSUME NEW p \in Proc, UNCHANGED crashed, Call(p) PROVE TypeInv'
  BY <1>2, CallType
<1>3. ASSUME NEW p \in Proc, Crash(p) PROVE TypeInv'
  BY <1>3, CrashType
<1>4. ASSUME NEW p \in Proc, Step(p) PROVE TypeInv'
  BY <1>4, InstallType, ReadPrimaryType, ReadBackupType, MakeCandidateType, PublishGuardType, CandidateLostType, ReadGuardType, RecheckClaimType, RecheckGuardType, ListLevelType, RemoveEntryType, RemoveLevelType, LoadType, SaveType, WorkThrowsType, ReleaseReadPrimaryType, ReleaseType DEF Step
<1> QED BY <1>1, <1>2, <1>3, <1>4 DEF Next

\* Every variable keeps its type: the bookkeeping of a removal never leaves the
\* levels that can exist, however guards are nested and removed.
THEOREM TypeCorrect == Spec => []TypeOK
<1>1. TypeInv => TypeOK
  BY DEF TypeInv
<1> QED BY <1>1, InitType, NextType, PTL DEF Spec

-----------------------------------------------------------------------------
(***************************************************************************)
(* While nobody has died there is no guard and no reclaim: an observed     *)
(* owner is always alive.  The directory is either absent, or owned, or    *)
(* being emptied by the process that releases it; and what a releasing     *)
(* process still has to unlink is still its own.  The last point is what   *)
(* makes exclusion inductive: an installation over the emptied directory   *)
(* can overtake the removal's rmdir, but never one of its unlinks.         *)
(***************************************************************************)
Reclaiming == {"candidate"} \cup Guarding

NoGuards ==
    /\ dirs \in {0, 1}
    /\ \A l \in Level : guard[l] = NoId
    /\ \A p \in Proc : cand[p] = 0
    /\ \A p \in Proc : pc[p] \notin Reclaiming

RecordsAgree ==
    /\ dirs = 0 => owner = NoId /\ backup = NoId
    /\ owner # NoId /\ backup # NoId => owner = backup

HolderInPlace ==
    \A p \in Proc : InWork(p) \/ pc[p] = "list" => owner = Me(p) /\ backup = Me(p)

RemovesItsOwn ==
    \A p \in Proc :
        /\ pc[p] \in {"list", "remove"} => rl[p] = 0 /\ removing[p] = "release"
        /\ pc[p] = "remove" =>
              /\ todo[p][0] \subseteq {File("owner"), File("backup")}
              /\ File("owner") \in todo[p][0] => owner = Me(p)
              /\ File("backup") \in todo[p][0] => backup = Me(p)

SnapshotCurrent == \A p \in Proc : pc[p] = "save" => snap[p] = store

Quiet == NoGuards /\ RecordsAgree /\ HolderInPlace /\ RemovesItsOwn /\ SnapshotCurrent

IInv == TypeInv /\ (crashed = {} => Quiet)

LEMMA MeDistinct ==
    ASSUME TypeInv, NEW p \in Proc, NEW q \in Proc, Me(p) = Me(q)
    PROVE  p = q
BY DEF Me

LEMMA QuietExcludes ==
    ASSUME TypeInv, Quiet, NEW p \in Proc, NEW q \in Proc,
           InWork(p) \/ pc[p] = "list", InWork(q) \/ pc[q] = "list"
    PROVE  p = q
BY MeDistinct DEF Quiet, HolderInPlace

LEMMA InstallQuiet ==
    ASSUME TypeInv, Quiet, crashed = {}, NEW p \in Proc, Install(p)
    PROVE  Quiet'
<1> USE BoundsNat, NoIdFresh
<1>1. NoGuards /\ RecordsAgree /\ HolderInPlace /\ RemovesItsOwn /\ SnapshotCurrent
  BY DEF Quiet
<1>2. \A q \in Proc : pc[q] # "idle" => Me(q) \in Id /\ Me(q) # NoId
  BY MeType
<1>3. pc \in [Proc -> Label]
  BY DEF TypeInv, TypeOK, ControlOK
<1>4. NoGuards'
  BY <1>1, <1>3 DEF Install, Goto, NoGuards, Reclaiming, Guarding
<1>5. RecordsAgree'
  BY <1>1 DEF Install, RecordsAgree
<1>6. HolderInPlace'
  BY <1>1, <1>2, <1>3 DEF Install, CanRename, EmptyDir, Entries, Names, Goto, HolderInPlace,
      InWork, Me, RecordsAgree
<1>7. RemovesItsOwn'
  BY <1>1, <1>2, <1>3 DEF Install, CanRename, EmptyDir, Entries, Names, File, Goto, local,
      RemovesItsOwn, Me, RecordsAgree
<1>8. SnapshotCurrent'
  BY <1>1, <1>3 DEF Install, Goto, local, SnapshotCurrent
<1> QED BY <1>4, <1>5, <1>6, <1>7, <1>8 DEF Quiet

LEMMA ReadPrimaryQuiet ==
    ASSUME TypeInv, Quiet, crashed = {}, NEW p \in Proc, ReadPrimary(p)
    PROVE  Quiet'
<1> USE BoundsNat, NoIdFresh
<1>1. NoGuards /\ RecordsAgree /\ HolderInPlace /\ RemovesItsOwn /\ SnapshotCurrent
  BY DEF Quiet
<1>2. \A q \in Proc : pc[q] # "idle" => Me(q) \in Id /\ Me(q) # NoId
  BY MeType
<1>3. pc \in [Proc -> Label]
  BY DEF TypeInv, TypeOK, ControlOK
<1>4. NoGuards'
  BY <1>1 DEF ReadPrimary, Goto, disk, NoGuards, Reclaiming, Guarding
<1>5. RecordsAgree'
  BY <1>1 DEF ReadPrimary, disk, RecordsAgree
<1>6. HolderInPlace'
  BY <1>1 DEF ReadPrimary, Goto, disk, HolderInPlace, InWork, Me
<1>7. RemovesItsOwn'
  BY <1>1 DEF ReadPrimary, Goto, disk, RemovesItsOwn, Me
<1>8. SnapshotCurrent'
  BY <1>1 DEF ReadPrimary, Goto, SnapshotCurrent
<1> QED BY <1>4, <1>5, <1>6, <1>7, <1>8 DEF Quiet

LEMMA ReadBackupQuiet ==
    ASSUME TypeInv, Quiet, crashed = {}, NEW p \in Proc, ReadBackup(p)
    PROVE  Quiet'
<1> USE BoundsNat, NoIdFresh
<1>1. NoGuards /\ RecordsAgree /\ HolderInPlace /\ RemovesItsOwn /\ SnapshotCurrent
  BY DEF Quiet
<1>2. \A q \in Proc : pc[q] # "idle" => Me(q) \in Id /\ Me(q) # NoId
  BY MeType
<1>3. pc \in [Proc -> Label]
  BY DEF TypeInv, TypeOK, ControlOK
<1>4. NoGuards'
  BY <1>1, <1>3 DEF ReadBackup, NextAttempt, Alive, Goto, disk, NoGuards, Reclaiming, Guarding
<1>5. RecordsAgree'
  BY <1>1 DEF ReadBackup, disk, RecordsAgree
<1>6. HolderInPlace'
  BY <1>1, <1>3 DEF ReadBackup, NextAttempt, Goto, disk, HolderInPlace, InWork, Me
<1>7. RemovesItsOwn'
  BY <1>1, <1>3 DEF ReadBackup, NextAttempt, Goto, disk, RemovesItsOwn, Me
<1>8. SnapshotCurrent'
  BY <1>1, <1>3 DEF ReadBackup, NextAttempt, Goto, SnapshotCurrent
<1> QED BY <1>4, <1>5, <1>6, <1>7, <1>8 DEF Quiet

LEMMA ListLevelQuiet ==
    ASSUME TypeInv, Quiet, crashed = {}, NEW p \in Proc, ListLevel(p)
    PROVE  Quiet'
<1> USE BoundsNat, NoIdFresh
<1>1. NoGuards /\ RecordsAgree /\ HolderInPlace /\ RemovesItsOwn /\ SnapshotCurrent
  BY DEF Quiet
<1>2. \A q \in Proc : pc[q] # "idle" => Me(q) \in Id /\ Me(q) # NoId
  BY MeType
<1>3. pc \in [Proc -> Label]
  BY DEF TypeInv, TypeOK, ControlOK
<1>4. /\ dirs = 1 /\ owner = Me(p) /\ backup = Me(p) /\ pc[p] = "list"
      /\ rl[p] = 0 /\ removing[p] = "release"
  BY <1>1, <1>2 DEF ListLevel, HolderInPlace, RecordsAgree, NoGuards, RemovesItsOwn
<1>5. /\ todo' = [todo EXCEPT ![p][0] = Entries(0)]
      /\ pc' = [pc EXCEPT ![p] = "remove"]
      /\ UNCHANGED <<dirs, owner, backup, guard, cand, rl, calls, removing, snap, store>>
  BY <1>4 DEF ListLevel, Goto, disk
<1>6. Entries(0) \subseteq {File("owner"), File("backup")}
  BY <1>1, <1>4 DEF Entries, Names, NoGuards, Level
<1>7. todo \in [Proc -> [0..MaxDepth -> SUBSET Entry]]
  BY DEF TypeInv, TypeOK, TodoOK
<1>8. NoGuards'
  BY <1>1, <1>3, <1>5 DEF NoGuards, Reclaiming, Guarding
<1>9. RecordsAgree'
  BY <1>1, <1>5 DEF RecordsAgree
<1>10. HolderInPlace'
  BY <1>1, <1>3, <1>5 DEF HolderInPlace, InWork, Me
<1>11. RemovesItsOwn'
  <2>1. todo'[p][0] = Entries(0) /\ \A q \in Proc \ {p} : todo'[q] = todo[q]
    BY <1>5, <1>7
  <2>2. \A q \in Proc \ {p} : pc'[q] = pc[q]
    BY <1>3, <1>5
  <2>3. \A q \in Proc : Me(q)' = Me(q)
    BY <1>5 DEF Me
  <2>4. rl' = rl /\ removing' = removing /\ owner' = owner /\ backup' = backup
    BY <1>5
  <2>5. \A n : File(n)' = File(n)
    BY DEF File
  <2> QED BY <1>1, <1>4, <1>6, <2>1, <2>2, <2>3, <2>4, <2>5 DEF RemovesItsOwn
<1>12. SnapshotCurrent'
  BY <1>1, <1>3, <1>5 DEF SnapshotCurrent
<1> QED BY <1>8, <1>9, <1>10, <1>11, <1>12 DEF Quiet

LEMMA RemoveEntryQuiet ==
    ASSUME TypeInv, Quiet, crashed = {}, NEW p \in Proc, RemoveEntry(p)
    PROVE  Quiet'
<1> USE BoundsNat, NoIdFresh
<1>1. NoGuards /\ RecordsAgree /\ HolderInPlace /\ RemovesItsOwn /\ SnapshotCurrent
  BY DEF Quiet
<1>2. \A q \in Proc : pc[q] # "idle" => Me(q) \in Id /\ Me(q) # NoId
  BY MeType
<1>3. pc \in [Proc -> Label]
  BY DEF TypeInv, TypeOK, ControlOK
<1>4. PICK e \in todo[p][rl[p]] :
          /\ todo' = [todo EXCEPT ![p][rl[p]] = @ \ {e}]
          /\ owner' = IF e[1] = "owner" THEN NoId ELSE owner
          /\ backup' = IF e[1] = "backup" THEN NoId ELSE backup
          /\ guard' = IF e[1] = "claimer" THEN [guard EXCEPT ![rl[p]] = NoId] ELSE guard
          /\ cand' = [q \in Proc |-> IF e = <<"cand", q, Serial(q)>> /\ cand[q] = rl[p] + 1
                                     THEN 0 ELSE cand[q]]
          /\ IF e[1] = "sub" THEN rl' = [rl EXCEPT ![p] = @ + 1] /\ Goto(p, "list")
             ELSE UNCHANGED <<rl, pc>>
  BY DEF RemoveEntry
<1>5. pc[p] = "remove" /\ UNCHANGED <<dirs, store, calls, removing, snap>>
  BY DEF RemoveEntry
<1>6. rl[p] = 0 /\ e \in {File("owner"), File("backup")} /\ e \in todo[p][0]
  BY <1>1, <1>4, <1>5 DEF RemovesItsOwn
<1>7. e[1] \in {"owner", "backup"}
  BY <1>6 DEF File
<1>8. rl' = rl /\ pc' = pc /\ guard' = guard
  BY <1>4, <1>7
<1>9. \A q \in Proc : cand'[q] = 0
  BY <1>1, <1>4 DEF NoGuards
<1>10. todo \in [Proc -> [0..MaxDepth -> SUBSET Entry]]
  BY DEF TypeInv, TypeOK, TodoOK
<1>11. todo'[p][0] = todo[p][0] \ {e} /\ \A q \in Proc \ {p} : todo'[q] = todo[q]
  BY <1>4, <1>6, <1>10
<1>12. \A q \in Proc : Me(q)' = Me(q)
  BY <1>5 DEF Me
<1>13. e = File("owner") => owner = Me(p)
  BY <1>1, <1>5, <1>6 DEF RemovesItsOwn
<1>14. e = File("backup") => backup = Me(p)
  BY <1>1, <1>5, <1>6 DEF RemovesItsOwn
<1>15. /\ e = File("owner") => owner' = NoId /\ backup' = backup
       /\ e = File("backup") => owner' = owner /\ backup' = NoId
  BY <1>4 DEF File
<1>16. NoGuards'
  BY <1>1, <1>5, <1>8, <1>9 DEF NoGuards
<1>17. RecordsAgree'
  BY <1>1, <1>5, <1>6, <1>15 DEF RecordsAgree
<1>18. HolderInPlace'
  <2>1. \A q \in Proc : InWork(q) \/ pc[q] = "list" => q # p
    BY <1>5 DEF InWork
  <2>2. \A q \in Proc : InWork(q)' = InWork(q)
    BY <1>8 DEF InWork
  <2> QED BY <1>1, <1>6, <1>8, <1>12, <1>13, <1>14, <1>15, <2>1, <2>2, MeDistinct DEF HolderInPlace
<1>19. RemovesItsOwn'
  <2>1. \A n : File(n)' = File(n)
    BY DEF File
  <2>2. File("owner") # File("backup")
    BY DEF File
  <2>3. ASSUME NEW q \in Proc, q # p, pc'[q] = "remove"
        PROVE  /\ File("owner") \in todo'[q][0] => owner' = Me(q)
               /\ File("backup") \in todo'[q][0] => backup' = Me(q)
    BY <1>1, <1>6, <1>8, <1>11, <1>13, <1>14, <1>15, <2>3, MeDistinct DEF RemovesItsOwn
  <2>4. /\ File("owner") \in todo'[p][0] => owner' = Me(p)
        /\ File("backup") \in todo'[p][0] => backup' = Me(p)
    BY <1>1, <1>5, <1>6, <1>11, <1>15, <2>2 DEF RemovesItsOwn
  <2>5. \A q \in Proc : pc'[q] = "remove" => todo'[q][0] \subseteq {File("owner"), File("backup")}
    BY <1>1, <1>5, <1>8, <1>11 DEF RemovesItsOwn
  <2> QED BY <1>1, <1>5, <1>8, <1>12, <2>1, <2>3, <2>4, <2>5 DEF RemovesItsOwn
<1>20. SnapshotCurrent'
  BY <1>1, <1>5, <1>8 DEF SnapshotCurrent
<1> QED BY <1>16, <1>17, <1>18, <1>19, <1>20 DEF Quiet

LEMMA RemoveLevelQuiet ==
    ASSUME TypeInv, Quiet, crashed = {}, NEW p \in Proc, RemoveLevel(p)
    PROVE  Quiet'
<1> USE BoundsNat, NoIdFresh
<1>1. NoGuards /\ RecordsAgree /\ HolderInPlace /\ RemovesItsOwn /\ SnapshotCurrent
  BY DEF Quiet
<1>2. \A q \in Proc : pc[q] # "idle" => Me(q) \in Id /\ Me(q) # NoId
  BY MeType
<1>3. pc \in [Proc -> Label]
  BY DEF TypeInv, TypeOK, ControlOK
<1>4. rl[p] = 0 /\ removing[p] = "release" /\ pc[p] = "remove"
  BY <1>1 DEF RemoveLevel, RemovesItsOwn
<1>5. /\ pc' = [pc EXCEPT ![p] = "idle"]
      /\ UNCHANGED <<owner, backup, guard, cand, rl, calls, todo, removing, snap, store>>
  BY <1>4 DEF RemoveLevel, LevelRemoved, RemovalEnds, Goto
<1>6. dirs' = dirs \/ (EmptyDir(0) /\ dirs' = 0)
  BY <1>4 DEF RemoveLevel
<1>7. EmptyDir(0) => owner = NoId /\ backup = NoId
  BY DEF EmptyDir, Entries, Names
<1>8. NoGuards'
  BY <1>1, <1>3, <1>5, <1>6 DEF NoGuards, Reclaiming, Guarding
<1>9. RecordsAgree'
  BY <1>1, <1>5, <1>6, <1>7 DEF RecordsAgree
<1>10. HolderInPlace'
  BY <1>1, <1>3, <1>5 DEF HolderInPlace, InWork, Me
<1>11. RemovesItsOwn'
  BY <1>1, <1>3, <1>5 DEF RemovesItsOwn, Me, File
<1>12. SnapshotCurrent'
  BY <1>1, <1>3, <1>5 DEF SnapshotCurrent
<1> QED BY <1>8, <1>9, <1>10, <1>11, <1>12 DEF Quiet

LEMMA LoadQuiet ==
    ASSUME TypeInv, Quiet, crashed = {}, NEW p \in Proc, Load(p)
    PROVE  Quiet'
<1> USE BoundsNat, NoIdFresh
<1>1. NoGuards /\ RecordsAgree /\ HolderInPlace /\ RemovesItsOwn /\ SnapshotCurrent
  BY DEF Quiet
<1>2. \A q \in Proc : pc[q] # "idle" => Me(q) \in Id /\ Me(q) # NoId
  BY MeType
<1>3. pc \in [Proc -> Label]
  BY DEF TypeInv, TypeOK, ControlOK
<1>4. NoGuards'
  BY <1>1 DEF Load, Goto, disk, NoGuards, Reclaiming, Guarding
<1>5. RecordsAgree'
  BY <1>1 DEF Load, disk, RecordsAgree
<1>6. HolderInPlace'
  BY <1>1 DEF Load, Goto, disk, HolderInPlace, InWork, Me
<1>7. RemovesItsOwn'
  BY <1>1 DEF Load, Goto, disk, RemovesItsOwn, Me
<1>8. SnapshotCurrent'
  <2>1. snap \in [Proc -> SUBSET Id]
    BY DEF TypeInv, TypeOK, StoreOK
  <2> QED BY <1>1, <1>3, <2>1 DEF Load, Goto, SnapshotCurrent
<1> QED BY <1>4, <1>5, <1>6, <1>7, <1>8 DEF Quiet

LEMMA SaveQuiet ==
    ASSUME TypeInv, Quiet, crashed = {}, NEW p \in Proc, Save(p)
    PROVE  Quiet'
<1> USE BoundsNat, NoIdFresh
<1>1. NoGuards /\ RecordsAgree /\ HolderInPlace /\ RemovesItsOwn /\ SnapshotCurrent
  BY DEF Quiet
<1>2. \A q \in Proc : pc[q] # "idle" => Me(q) \in Id /\ Me(q) # NoId
  BY MeType
<1>3. pc \in [Proc -> Label]
  BY DEF TypeInv, TypeOK, ControlOK
<1>4. NoGuards'
  BY <1>1 DEF Save, Goto, disk, NoGuards, Reclaiming, Guarding
<1>5. RecordsAgree'
  BY <1>1 DEF Save, disk, RecordsAgree
<1>6. HolderInPlace'
  BY <1>1 DEF Save, Goto, disk, HolderInPlace, InWork, Me
<1>7. RemovesItsOwn'
  BY <1>1 DEF Save, Goto, local, disk, RemovesItsOwn, Me
<1>8. SnapshotCurrent'
  <2>1. \A q \in Proc : pc'[q] = "save" => q # p /\ pc[q] = "save"
    BY <1>3 DEF Save, Goto
  <2>2. \A q \in Proc : pc[q] = "save" => q = p
    BY QuietExcludes DEF Save, InWork
  <2> QED BY <2>1, <2>2 DEF SnapshotCurrent
<1> QED BY <1>4, <1>5, <1>6, <1>7, <1>8 DEF Quiet

LEMMA WorkThrowsQuiet ==
    ASSUME TypeInv, Quiet, crashed = {}, NEW p \in Proc, WorkThrows(p)
    PROVE  Quiet'
<1> USE BoundsNat, NoIdFresh
<1>1. NoGuards /\ RecordsAgree /\ HolderInPlace /\ RemovesItsOwn /\ SnapshotCurrent
  BY DEF Quiet
<1>2. \A q \in Proc : pc[q] # "idle" => Me(q) \in Id /\ Me(q) # NoId
  BY MeType
<1>3. pc \in [Proc -> Label]
  BY DEF TypeInv, TypeOK, ControlOK
<1>4. NoGuards'
  BY <1>1 DEF WorkThrows, Goto, disk, NoGuards, Reclaiming, Guarding
<1>5. RecordsAgree'
  BY <1>1 DEF WorkThrows, disk, RecordsAgree
<1>6. HolderInPlace'
  BY <1>1 DEF WorkThrows, Goto, disk, HolderInPlace, InWork, Me
<1>7. RemovesItsOwn'
  BY <1>1 DEF WorkThrows, Goto, local, disk, RemovesItsOwn, Me
<1>8. SnapshotCurrent'
  BY <1>1 DEF WorkThrows, Goto, local, SnapshotCurrent
<1> QED BY <1>4, <1>5, <1>6, <1>7, <1>8 DEF Quiet

LEMMA ReleaseReadPrimaryQuiet ==
    ASSUME TypeInv, Quiet, crashed = {}, NEW p \in Proc, ReleaseReadPrimary(p)
    PROVE  Quiet'
<1> USE BoundsNat, NoIdFresh
<1>1. NoGuards /\ RecordsAgree /\ HolderInPlace /\ RemovesItsOwn /\ SnapshotCurrent
  BY DEF Quiet
<1>2. \A q \in Proc : pc[q] # "idle" => Me(q) \in Id /\ Me(q) # NoId
  BY MeType
<1>3. pc \in [Proc -> Label]
  BY DEF TypeInv, TypeOK, ControlOK
<1>4. NoGuards'
  BY <1>1 DEF ReleaseReadPrimary, Goto, disk, NoGuards, Reclaiming, Guarding
<1>5. RecordsAgree'
  BY <1>1 DEF ReleaseReadPrimary, disk, RecordsAgree
<1>6. HolderInPlace'
  BY <1>1 DEF ReleaseReadPrimary, Goto, disk, HolderInPlace, InWork, Me
<1>7. RemovesItsOwn'
  BY <1>1 DEF ReleaseReadPrimary, Goto, disk, RemovesItsOwn, Me
<1>8. SnapshotCurrent'
  BY <1>1 DEF ReleaseReadPrimary, Goto, SnapshotCurrent
<1> QED BY <1>4, <1>5, <1>6, <1>7, <1>8 DEF Quiet

LEMMA ReleaseQuiet ==
    ASSUME TypeInv, Quiet, crashed = {}, NEW p \in Proc, Release(p)
    PROVE  Quiet'
<1> USE BoundsNat, NoIdFresh
<1>1. NoGuards /\ RecordsAgree /\ HolderInPlace /\ RemovesItsOwn /\ SnapshotCurrent
  BY DEF Quiet
<1>2. \A q \in Proc : pc[q] # "idle" => Me(q) \in Id /\ Me(q) # NoId
  BY MeType
<1>3. pc \in [Proc -> Label]
  BY DEF TypeInv, TypeOK, ControlOK
<1>4. NoGuards'
  BY <1>1, <1>3 DEF Release, Goto, disk, NoGuards, Reclaiming, Guarding
<1>5. RecordsAgree'
  BY <1>1 DEF Release, disk, RecordsAgree
<1>6. HolderInPlace'
  BY <1>1, <1>3 DEF Release, Goto, disk, HolderInPlace, InWork, Me
<1>7. RemovesItsOwn'
  <2>1. RemovalOK
    BY DEF TypeInv, TypeOK
  <2>2. UNCHANGED <<todo, owner, backup, calls>>
    BY DEF Release, disk
  <2>3. \/ pc' = [pc EXCEPT ![p] = "idle"] /\ UNCHANGED <<rl, removing>>
        \/ /\ pc' = [pc EXCEPT ![p] = "list"]
           /\ rl' = [rl EXCEPT ![p] = 0]
           /\ removing' = [removing EXCEPT ![p] = "release"]
    BY DEF Release, Goto
  <2> QED BY <1>1, <1>3, <2>1, <2>2, <2>3 DEF RemovesItsOwn, RemovalOK, Me
<1>8. SnapshotCurrent'
  BY <1>1, <1>3 DEF Release, Goto, SnapshotCurrent
<1> QED BY <1>4, <1>5, <1>6, <1>7, <1>8 DEF Quiet

LEMMA CallQuiet ==
    ASSUME TypeInv, Quiet, NEW p \in Proc, Call(p)
    PROVE  Quiet'
<1>1. NoGuards /\ RecordsAgree /\ HolderInPlace /\ RemovesItsOwn /\ SnapshotCurrent
  BY DEF Quiet
<1>2. pc \in [Proc -> Label] /\ calls \in [Proc -> 0..MaxCalls]
  BY DEF TypeInv, TypeOK, ControlOK
<1>3. /\ pc[p] = "idle" /\ pc' = [pc EXCEPT ![p] = "install"]
      /\ \A q \in Proc \ {p} : calls'[q] = calls[q]
      /\ UNCHANGED <<dirs, owner, backup, guard, cand, rl, todo, removing, snap, store>>
  BY <1>2 DEF Call, Goto, disk
<1>4. NoGuards' /\ RecordsAgree' /\ SnapshotCurrent'
  BY <1>1, <1>3 DEF NoGuards, Reclaiming, Guarding, RecordsAgree, SnapshotCurrent
<1>5. HolderInPlace'
  BY <1>1, <1>2, <1>3 DEF HolderInPlace, InWork, Me
<1>6. RemovesItsOwn'
  BY <1>1, <1>2, <1>3 DEF RemovesItsOwn, Me, File
<1> QED BY <1>4, <1>5, <1>6 DEF Quiet

LEMMA InitQuiet == Init => Quiet
BY DEF Init, Quiet, NoGuards, RecordsAgree, HolderInPlace, RemovesItsOwn, SnapshotCurrent,
    InWork, Reclaiming, Guarding

LEMMA NextQuiet == IInv /\ [Next]_vars => IInv'
<1> SUFFICES ASSUME IInv, [Next]_vars PROVE IInv'
  OBVIOUS
<1>1. TypeInv /\ TypeInv'
  BY NextType DEF IInv
<1>2. SUFFICES ASSUME crashed' = {} PROVE Quiet'
  BY <1>1 DEF IInv
<1>3. CASE UNCHANGED vars
  BY <1>2, <1>3 DEF vars, IInv, Quiet, NoGuards, RecordsAgree, HolderInPlace, RemovesItsOwn,
      SnapshotCurrent, InWork, Me
<1>4. CASE Next
  <2>1. ASSUME NEW p \in Proc, UNCHANGED crashed, Call(p) PROVE Quiet'
    BY <1>1, <1>2, <2>1, CallQuiet DEF IInv
  <2>2. ASSUME NEW p \in Proc, Crash(p) PROVE FALSE
    BY <1>2, <2>2 DEF Crash
  <2>3. ASSUME NEW p \in Proc, Step(p) PROVE Quiet'
    <3>1. crashed = {} /\ Quiet
      BY <1>2, <2>3 DEF Step, IInv
    <3>2. pc[p] \notin Reclaiming
      BY <3>1 DEF Quiet, NoGuards
    <3> QED BY <1>1, <2>3, <3>1, <3>2, InstallQuiet, ReadPrimaryQuiet, ReadBackupQuiet,
        ListLevelQuiet, RemoveEntryQuiet, RemoveLevelQuiet, LoadQuiet, SaveQuiet,
        WorkThrowsQuiet, ReleaseReadPrimaryQuiet, ReleaseQuiet DEF Step, Reclaiming, Guarding,
        MakeCandidate, PublishGuard, CandidateLost, ReadGuard, RecheckClaim, RecheckGuard
  <2> QED BY <1>4, <2>1, <2>2, <2>3 DEF Next
<1> QED BY <1>3, <1>4

LEMMA Invariance == Spec => []IInv
<1>1. Init => IInv
  BY InitType, InitQuiet DEF IInv
<1> QED BY <1>1, NextQuiet, PTL DEF Spec

\* While nobody has died, two processes are never both in the protected work.
THEOREM Exclusion == Spec => []ExclusiveWithoutCrash
<1>1. IInv => ExclusiveWithoutCrash
  BY QuietExcludes DEF IInv, ExclusiveWithoutCrash, MutualExclusion
<1> QED BY <1>1, Invariance, PTL

\* While nobody has died, the process in the work is the one that both records name.
THEOREM Recorded == Spec => []HolderRecorded
<1>1. ASSUME IInv, crashed = {}, NEW p \in Proc, InWork(p)
      PROVE  dirs > 0 /\ owner = Me(p) /\ backup = Me(p)
  <2>1. owner = Me(p) /\ backup = Me(p)
    BY <1>1 DEF IInv, Quiet, HolderInPlace
  <2>2. Me(p) # NoId
    BY <1>1, MeType, NoIdFresh DEF IInv, InWork
  <2>3. dirs \in {0, 1} /\ (dirs = 0 => owner = NoId)
    BY <1>1 DEF IInv, Quiet, NoGuards, RecordsAgree
  <2> QED BY <2>1, <2>2, <2>3
<1>2. IInv => HolderRecorded
  BY <1>1 DEF HolderRecorded
<1> QED BY <1>2, Invariance, PTL

\* While nobody has died, the locked load-modify-save is an atomic mutation of
\* the store: no completed mutation is ever overwritten.
THEOREM Atomicity == Spec => AtomicUntilCrash
<1>1. ASSUME IInv, Next, crashed = {}
      PROVE  Atomic!Next \/ UNCHANGED <<store, done>>
  <2>1. ASSUME NEW p \in Proc, Save(p)
        PROVE  Atomic!Next
    <3>1. snap[p] = store /\ Me(p) \in Id
      BY <1>1, <2>1, MeType DEF IInv, Quiet, SnapshotCurrent, Save
    <3> QED BY <2>1, <3>1 DEF Save, Atomic!Next, Atomic!Mutate
  <2>2. ASSUME NEW p \in Proc, Step(p), ~Save(p)
        PROVE  UNCHANGED <<store, done>>
    BY <2>2 DEF Step, Install, ReadPrimary, ReadBackup, MakeCandidate, PublishGuard,
        CandidateLost, ReadGuard, RecheckClaim, RecheckGuard, ListLevel, RemoveEntry,
        RemoveLevel, Load, WorkThrows, ReleaseReadPrimary, Release
  <2> QED BY <1>1, <2>1, <2>2 DEF Next, Call, Crash
<1>2. IInv /\ [Next]_vars =>
        [crashed = {} => Atomic!Next \/ UNCHANGED <<store, done>>]_<<store, done>>
  BY <1>1 DEF vars
<1> QED BY <1>2, Invariance, PTL DEF Spec, AtomicUntilCrash

-----------------------------------------------------------------------------
(***************************************************************************)
(* Somebody always cares for an existing directory: a process in the work, *)
(* which will release it; one about to list it; or a remover that has      *)
(* listed every record that is still there.  A remover overtaken by an     *)
(* installation finds the directory not empty and gives up, and may: the   *)
(* installer cares by then.  OwnRead is what makes the release certain.    *)
(***************************************************************************)
Drops(p) ==
    /\ pc[p] = "remove"
    /\ owner # NoId => File("owner") \in todo[p][0]
    /\ backup # NoId => File("backup") \in todo[p][0]

Cares(p) == InWork(p) \/ pc[p] = "list" \/ Drops(p)

OwnRead == \A p \in Proc : pc[p] = "relBackup" => obsP[p] = Me(p)

CaredFor == dirs = 1 => \E p \in Proc : Cares(p)

CareInv == IInv /\ (crashed = {} => OwnRead /\ CaredFor)

LEMMA OwnReadKept ==
    ASSUME IInv, crashed = {}, OwnRead, NEW p \in Proc, Call(p) \/ Step(p)
    PROVE  OwnRead'
<1>1. HolderInPlace
  BY DEF IInv, Quiet
<1>2. pc \in [Proc -> Label] /\ obsP \in [Proc -> IdOrNone] /\ calls \in [Proc -> 0..MaxCalls]
  BY DEF IInv, TypeInv, TypeOK, ControlOK, MemoOK
<1>3. \A q \in Proc \ {p} : pc'[q] = pc[q] /\ obsP'[q] = obsP[q] /\ calls'[q] = calls[q]
  <2>1. CASE Call(p) \/ Install(p) \/ ReadPrimary(p) \/ ReadBackup(p) \/ ListLevel(p)
    BY <1>2, <2>1 DEF Call, Install, ReadPrimary, ReadBackup, ListLevel, LevelRemoved,
        RemovalEnds, NextAttempt, Goto, local
  <2>2. CASE RemoveEntry(p) \/ RemoveLevel(p) \/ Load(p) \/ Save(p) \/ WorkThrows(p)
    BY <1>2, <2>2 DEF RemoveEntry, RemoveLevel, LevelRemoved, RemovalEnds, NextAttempt, Load,
        Save, WorkThrows, Goto, local
  <2>3. CASE ReleaseReadPrimary(p) \/ Release(p)
    BY <1>2, <2>3 DEF ReleaseReadPrimary, Release, Goto
  <2>4. pc[p] \notin Reclaiming
    BY DEF IInv, Quiet, NoGuards
  <2> QED BY <2>1, <2>2, <2>3, <2>4 DEF Step, Reclaiming, Guarding, MakeCandidate, PublishGuard,
      CandidateLost, ReadGuard, RecheckClaim, RecheckGuard
<1>4. ASSUME pc'[p] = "relBackup" PROVE obsP'[p] = Me(p)'
  <2>1. ReleaseReadPrimary(p)
    <3>1. CASE Call(p) \/ Install(p) \/ ReadPrimary(p) \/ ReadBackup(p) \/ ListLevel(p)
      BY <1>2, <1>4, <3>1 DEF Call, Install, ReadPrimary, ReadBackup, ListLevel, LevelRemoved,
          RemovalEnds, NextAttempt, Goto
    <3>2. CASE RemoveEntry(p) \/ RemoveLevel(p) \/ Load(p) \/ Save(p) \/ WorkThrows(p) \/ Release(p)
      BY <1>2, <1>4, <3>2 DEF RemoveEntry, RemoveLevel, LevelRemoved, RemovalEnds, NextAttempt,
          Load, Save, WorkThrows, Release, Goto
    <3>3. pc[p] \notin Reclaiming
      BY DEF IInv, Quiet, NoGuards
    <3> QED BY <3>1, <3>2, <3>3 DEF Step, Reclaiming, Guarding, MakeCandidate, PublishGuard,
        CandidateLost, ReadGuard, RecheckClaim, RecheckGuard
  <2>2. owner = Me(p)
    BY <1>1, <2>1 DEF ReleaseReadPrimary, HolderInPlace, InWork
  <2> QED BY <1>2, <2>1, <2>2 DEF ReleaseReadPrimary, Me
<1> QED BY <1>3, <1>4 DEF OwnRead, Me

\* An action that leaves the records and the lists alone can only disturb the
\* care of the process that takes it.
LEMMA OthersCare ==
    ASSUME UNCHANGED <<dirs, owner, backup, todo>>, CaredFor, NEW p \in Proc,
           \A q \in Proc \ {p} : pc'[q] = pc[q],
           Cares(p) => Cares(p)'
    PROVE  CaredFor'
<1> SUFFICES ASSUME dirs' = 1 PROVE \E q \in Proc : Cares(q)'
  BY DEF CaredFor
<1>1. PICK q \in Proc : Cares(q)
  BY DEF CaredFor
<1>2. q # p => Cares(q)'
  BY <1>1 DEF Cares, Drops, InWork, File
<1> QED BY <1>1, <1>2

LEMMA CallerCares ==
    ASSUME IInv, crashed = {}, CaredFor, NEW p \in Proc,
           Call(p) \/ Install(p) \/ ReadPrimary(p) \/ ReadBackup(p)
    PROVE  CaredFor'
<1>1. pc \in [Proc -> Label]
  BY DEF IInv, TypeInv, TypeOK, ControlOK
<1>2. \A q \in Proc \ {p} : pc'[q] = pc[q]
  BY <1>1 DEF Call, Install, ReadPrimary, ReadBackup, NextAttempt, Goto
<1>3. ~Cares(p)
  BY DEF Call, Install, ReadPrimary, ReadBackup, Cares, Drops, InWork
<1>4. CASE Call(p) \/ ReadPrimary(p) \/ ReadBackup(p)
  <2>1. UNCHANGED <<dirs, owner, backup, todo>>
    BY <1>4 DEF Call, ReadPrimary, ReadBackup, disk
  <2> QED BY <1>2, <1>3, <2>1, OthersCare
<1>5. CASE Install(p) /\ CanRename(0)
  BY <1>1, <1>5 DEF Install, Goto, CaredFor, Cares, InWork
<1>6. CASE Install(p) /\ ~CanRename(0)
  <2>1. UNCHANGED <<dirs, owner, backup, todo>>
    BY <1>6 DEF Install, local
  <2> QED BY <1>2, <1>3, <2>1, OthersCare
<1> QED BY <1>4, <1>5, <1>6

LEMMA HolderCares ==
    ASSUME IInv, crashed = {}, OwnRead, CaredFor, NEW p \in Proc,
           Load(p) \/ Save(p) \/ WorkThrows(p) \/ ReleaseReadPrimary(p) \/ Release(p)
    PROVE  CaredFor'
<1>1. pc \in [Proc -> Label]
  BY DEF IInv, TypeInv, TypeOK, ControlOK
<1>2. \A q \in Proc \ {p} : pc'[q] = pc[q]
  BY <1>1 DEF Load, Save, WorkThrows, ReleaseReadPrimary, Release, Goto
<1>3. UNCHANGED <<dirs, owner, backup, todo>>
  BY DEF Load, Save, WorkThrows, ReleaseReadPrimary, Release, disk, local
<1>4. CASE Load(p) \/ Save(p) \/ WorkThrows(p) \/ ReleaseReadPrimary(p)
  <2>1. Cares(p)'
    BY <1>1, <1>4 DEF Load, Save, WorkThrows, ReleaseReadPrimary, Goto, Cares, InWork
  <2> QED BY <1>2, <1>3, <2>1, OthersCare
<1>5. CASE Release(p)
  <2>1. pc[p] = "relBackup" /\ obsP[p] = Me(p) /\ backup = Me(p)
    BY <1>5 DEF Release, OwnRead, IInv, Quiet, HolderInPlace, InWork
  <2>2. ResolveOwner(obsP[p], backup) = Me(p)
    BY <2>1 DEF ResolveOwner
  <2>3. Cares(p)'
    BY <1>1, <1>5, <2>2 DEF Release, Goto, Cares
  <2> QED BY <1>2, <1>3, <2>3, OthersCare
<1> QED BY <1>4, <1>5

LEMMA ListerCares ==
    ASSUME IInv, crashed = {}, CaredFor, NEW p \in Proc, ListLevel(p)
    PROVE  CaredFor'
<1>1. pc \in [Proc -> Label] /\ todo \in [Proc -> [0..MaxDepth -> SUBSET Entry]]
  BY DEF IInv, TypeInv, TypeOK, ControlOK, TodoOK
<1>2. rl[p] = 0 /\ UNCHANGED <<dirs, owner, backup>>
  BY DEF ListLevel, disk, IInv, Quiet, RemovesItsOwn
<1>3. SUFFICES ASSUME dirs = 1 PROVE Cares(p)'
  BY <1>2 DEF CaredFor
<1>4. todo' = [todo EXCEPT ![p][0] = Entries(0)] /\ pc' = [pc EXCEPT ![p] = "remove"]
  BY <1>2, <1>3 DEF ListLevel, Goto
<1>5. todo'[p][0] = Entries(0) /\ pc'[p] = "remove"
  BY <1>1, <1>4, BoundsNat
<1>6. /\ owner # NoId => File("owner") \in Entries(0)
      /\ backup # NoId => File("backup") \in Entries(0)
  BY DEF Entries, Names
<1> QED BY <1>2, <1>5, <1>6 DEF Cares, Drops, File

LEMMA EntryCares ==
    ASSUME IInv, crashed = {}, CaredFor, NEW p \in Proc, RemoveEntry(p)
    PROVE  CaredFor'
<1>1. todo \in [Proc -> [0..MaxDepth -> SUBSET Entry]]
  BY DEF IInv, TypeInv, TypeOK, TodoOK
<1>2. PICK e \in todo[p][rl[p]] :
          /\ todo' = [todo EXCEPT ![p][rl[p]] = @ \ {e}]
          /\ owner' = IF e[1] = "owner" THEN NoId ELSE owner
          /\ backup' = IF e[1] = "backup" THEN NoId ELSE backup
          /\ IF e[1] = "sub" THEN rl' = [rl EXCEPT ![p] = @ + 1] /\ Goto(p, "list")
             ELSE UNCHANGED <<rl, pc>>
  BY DEF RemoveEntry
<1>3. rl[p] = 0 /\ e \in {File("owner"), File("backup")}
  BY <1>2 DEF RemoveEntry, IInv, Quiet, RemovesItsOwn
<1>4. e[1] \in {"owner", "backup"} /\ e = File(e[1])
  BY <1>3 DEF File
<1>5. UNCHANGED <<dirs, pc>>
  BY <1>2, <1>4 DEF RemoveEntry
<1>6. todo'[p][0] = todo[p][0] \ {e} /\ \A q \in Proc \ {p} : todo'[q] = todo[q]
  BY <1>1, <1>2, <1>3, BoundsNat
<1>7. SUFFICES ASSUME NEW q \in Proc, Cares(q) PROVE Cares(q)'
  BY <1>5 DEF CaredFor
<1>8. CASE InWork(q) \/ pc[q] = "list"
  BY <1>5, <1>8 DEF Cares, InWork
<1>9. CASE Drops(q)
  <2>1. owner' # NoId => e # File("owner") /\ owner' = owner
    BY <1>2 DEF File
  <2>2. backup' # NoId => e # File("backup") /\ backup' = backup
    BY <1>2 DEF File
  <2>3. owner' # NoId => File("owner") \in todo'[q][0]
    BY <1>6, <1>9, <2>1 DEF Drops
  <2>4. backup' # NoId => File("backup") \in todo'[q][0]
    BY <1>6, <1>9, <2>2 DEF Drops
  <2> QED BY <1>5, <1>9, <2>3, <2>4 DEF Cares, Drops, File
<1> QED BY <1>7, <1>8, <1>9 DEF Cares

LEMMA RemoverCares ==
    ASSUME IInv, crashed = {}, CaredFor, NEW p \in Proc, RemoveLevel(p)
    PROVE  CaredFor'
<1>1. rl[p] = 0 /\ removing[p] = "release" /\ pc[p] = "remove" /\ todo[p][0] = {}
  BY DEF RemoveLevel, IInv, Quiet, RemovesItsOwn
<1>2. /\ pc' = [pc EXCEPT ![p] = "idle"]
      /\ UNCHANGED <<owner, backup, todo>>
      /\ dirs' = dirs \/ dirs' = 0
  BY <1>1 DEF RemoveLevel, LevelRemoved, RemovalEnds, Goto
<1>3. SUFFICES ASSUME dirs' = 1 PROVE \E q \in Proc : Cares(q)'
  BY DEF CaredFor
<1>4. dirs' = dirs /\ dirs = 1 /\ ~EmptyDir(0)
  BY <1>1, <1>2, <1>3 DEF RemoveLevel
<1>5. owner # NoId \/ backup # NoId
  <2>1. Entries(0) # {}
    BY <1>4 DEF EmptyDir
  <2>2. \A q \in Proc : cand[q] = 0
    BY DEF IInv, Quiet, NoGuards
  <2>3. "sub" \notin Names(0) /\ "claimer" \notin Names(0)
    BY <1>4, BoundsNat DEF Names, Level
  <2>4. Names(0) # {}
    BY <2>1, <2>2 DEF Entries
  <2> QED BY <2>3, <2>4 DEF Names
<1>6. ~Cares(p)
  BY <1>1, <1>5 DEF Cares, Drops, InWork
<1>7. PICK q \in Proc : Cares(q)
  BY <1>4 DEF CaredFor
<1>8. pc \in [Proc -> Label]
  BY DEF IInv, TypeInv, TypeOK, ControlOK
<1>9. pc'[q] = pc[q]
  BY <1>2, <1>6, <1>7, <1>8
<1>10. Cares(q)'
  BY <1>2, <1>7, <1>9 DEF Cares, Drops, InWork, File
<1> QED BY <1>10

LEMMA NextCare == CareInv /\ [Next]_vars => CareInv'
<1> SUFFICES ASSUME CareInv, [Next]_vars PROVE CareInv'
  OBVIOUS
<1>1. IInv /\ IInv'
  BY NextQuiet DEF CareInv
<1>2. SUFFICES ASSUME crashed' = {} PROVE OwnRead' /\ CaredFor'
  BY <1>1 DEF CareInv
<1>3. CASE UNCHANGED vars
  <2>1. crashed = {} /\ OwnRead /\ CaredFor
    BY <1>2, <1>3 DEF CareInv, vars
  <2> QED BY <1>3, <2>1 DEF vars, OwnRead, CaredFor, Cares, Drops, InWork, Me
<1>4. CASE Next
  <2>1. \E p \in Proc : UNCHANGED crashed /\ (Call(p) \/ Step(p))
    BY <1>2, <1>4 DEF Next, Step, Crash
  <2>2. PICK p \in Proc : UNCHANGED crashed /\ (Call(p) \/ Step(p))
    BY <2>1
  <2>3. crashed = {} /\ OwnRead /\ CaredFor
    BY <1>2, <2>2 DEF CareInv
  <2>4. OwnRead'
    BY <1>1, <2>2, <2>3, OwnReadKept
  <2>5. pc[p] \notin Reclaiming
    BY <1>1, <2>3 DEF IInv, Quiet, NoGuards
  <2>6. \/ Call(p) \/ Install(p) \/ ReadPrimary(p) \/ ReadBackup(p) \/ ListLevel(p)
        \/ RemoveEntry(p) \/ RemoveLevel(p) \/ Load(p) \/ Save(p) \/ WorkThrows(p)
        \/ ReleaseReadPrimary(p) \/ Release(p)
    BY <2>2, <2>5 DEF Step, Reclaiming, Guarding, MakeCandidate, PublishGuard, CandidateLost,
        ReadGuard, RecheckClaim, RecheckGuard
  <2>7. CaredFor'
    BY <1>1, <2>3, <2>6, CallerCares, HolderCares, ListerCares, EntryCares, RemoverCares
  <2> QED BY <2>4, <2>7
<1> QED BY <1>3, <1>4

\* While nobody has died, a lock that nobody uses leaves no directory behind
\* that later callers would take for a busy lock.
THEOREM Clean == Spec => []CleanAtRest
<1>1. Init => CareInv
  <2>1. Init => IInv
    BY InitType, InitQuiet DEF IInv
  <2>2. Init => OwnRead /\ CaredFor
    BY DEF Init, OwnRead, CaredFor
  <2> QED BY <2>1, <2>2 DEF CareInv
<1>2. ASSUME CareInv, crashed = {}, \A p \in Proc : pc[p] = "idle" PROVE dirs = 0
  <2>1. \A p \in Proc : ~Cares(p)
    BY <1>2 DEF Cares, Drops, InWork
  <2>2. dirs \in {0, 1} /\ CaredFor
    BY <1>2 DEF CareInv, IInv, Quiet, NoGuards
  <2> QED BY <2>1, <2>2 DEF CaredFor
<1>3. CareInv => CleanAtRest
  BY <1>2 DEF CleanAtRest
<1> QED BY <1>1, <1>3, NextCare, PTL DEF Spec
=============================================================================
