------------------------------ MODULE LogProofs ------------------------------
(***************************************************************************)
(* The log for any number of processes, blocks and contents: operations    *)
(* that begin_op admitted never outgrow it, no wakeup is missed, and a     *)
(* crash at any step leaves an atomic disk.                                *)
(***************************************************************************)
EXTENDS LogInvariant, FiniteSetTheorems

\* A leaf is tried with Zenon, with SMT, and with Zenon for longer.
USE ZenonT(5), SMTT(30), ZenonT(60)

\* Running operations, and their reservations, are finite in number.
Counts ==
  /\ IsFiniteSet(Active) /\ Cardinality(Active) \in Nat
  /\ \A p \in Procs : /\ IsFiniteSet(written[p]) /\ IsFiniteSet(Logged(p))
                      /\ Cardinality(Logged(p)) \in Nat
                      /\ Cardinality(written[p]) \in Nat
                      /\ Cardinality(Logged(p)) <= Cardinality(written[p])
  /\ IsFiniteSet(Unused) /\ Cardinality(Unused) \in Nat
  /\ Cardinality(Unused) <= Cardinality(Active) * OpBlocks

LEMMA Finite == Types => Counts
<1> SUFFICES ASSUME Types PROVE Counts
  OBVIOUS
<1> USE LogAssumption
<1>1. IsFiniteSet(Active) /\ Cardinality(Active) \in Nat
  <2>1. Active \in SUBSET Procs
    BY DEF Active
  <2> QED
    BY <2>1, FS_Subset, FS_CardinalityType
<1>2. ASSUME NEW p \in Procs
      PROVE  /\ IsFiniteSet(written[p]) /\ IsFiniteSet(Logged(p))
             /\ Cardinality(Logged(p)) \in Nat
             /\ Cardinality(written[p]) \in Nat
             /\ Cardinality(Logged(p)) <= Cardinality(written[p])
  <2>1. written[p] \in SUBSET Blocks /\ Logged(p) \in SUBSET written[p]
    BY DEF Types, Logged
  <2> QED
    BY <2>1, FS_Subset, FS_CardinalityType
<1>3. /\ IsFiniteSet(Active \X (1 .. OpBlocks))
      /\ Cardinality(Active \X (1 .. OpBlocks)) = Cardinality(Active) * OpBlocks
  <2>1. IsFiniteSet(1 .. OpBlocks) /\ Cardinality(1 .. OpBlocks) = OpBlocks
    BY FS_Interval
  <2> QED
    BY <1>1, <2>1, FS_Product
<1>4. Unused \in SUBSET (Active \X (1 .. OpBlocks))
  BY DEF Unused
<1> QED
  BY <1>1, <1>2, <1>3, <1>4, FS_Subset, FS_CardinalityType DEF Counts

LEMMA FiniteNext == Types' => Counts'
  BY Finite, PTL

-----------------------------------------------------------------------------
(* Conjuncts whose variables a step leaves alone                           *)

-----------------------------------------------------------------------------
LEMMA InitInv == Init => IInv
<1> SUFFICES ASSUME Init PROVE IInv
  OBVIOUS
<1> USE DEF Init
<1>1. Types
  BY ListedEmpty, LogAssumption DEF Types, Labels, Phases
<1>2. Active = {} /\ Cardinality(Active) = 0
  BY FS_EmptySet DEF Active, InOp
<1>3. Operations
  BY <1>2, LogAssumption DEF Operations
<1>4. Unused = {} /\ Cardinality(Unused) = 0
  BY <1>2, FS_EmptySet DEF Unused
<1>5. Fits
  BY <1>4, ListedEmpty, RoomBound, LogAssumption DEF Fits
<1>6. Modes
  BY <1>2 DEF Modes, Recovering
<1>7. Copies
  BY ListedEmpty DEF Copies, Recovering
<1>8. Progress /\ NoMissedWakeup
  BY DEF Progress, NoMissedWakeup
<1> QED
  BY <1>1, <1>3, <1>5, <1>6, <1>7, <1>8 DEF IInv

-----------------------------------------------------------------------------
(* begin_op                                                                *)

LEMMA BeginOpInv ==
  ASSUME IInv, NEW p \in Procs, BeginOp(p)
  PROVE  IInv' /\ p \notin Active /\ Active' = Active \cup {p}
<1> USE DEF BeginOp, disk
<1>1. Types'
  BY DEF IInv, Types, Labels, InOp
<1>2. \A q \in Procs : op'[q] = IF q = p THEN "running" ELSE op[q]
  BY DEF IInv, Types
<1>3. p \notin Active /\ Active' = Active \cup {p}
  BY <1>2 DEF Active, InOp
<1>4. /\ IsFiniteSet(Active) /\ outstanding = Cardinality(Active) /\ outstanding \in Nat
      /\ Cardinality(Active') = outstanding + 1
  BY <1>3, Finite, FS_AddElement DEF IInv, Operations, Counts
<1>5. Listed(lh)' = Listed(lh)
  BY DEF Listed
<1>6. written[p] = {} /\ Cardinality({}) = 0
  BY <1>3, FS_EmptySet DEF IInv, Operations
<1>7. Operations'
  <2>1. held[p] = NoBlock
    BY DEF IInv, Operations
  <2>2. \A q \in Procs : op'[q] \in {"modified", "checked"} <=> held[q] # NoBlock
    BY <1>2, <2>1 DEF IInv, Operations
  <2>3. \A q \in Active' : /\ Cardinality(written[q]) <= OpBlocks
                          /\ written[q] \subseteq Listed(lh) \cup {held[q]}
    <3>1. 0 <= OpBlocks
      BY LogAssumption
    <3> QED
      BY <1>3, <1>6, <3>1 DEF IInv, Operations
  <2>4. \A q \in Procs \ Active' : written[q] = {}
    BY <1>3 DEF IInv, Operations
  <2>5. /\ \A q, r \in Procs : held[q] # NoBlock /\ q # r => held[r] # held[q]
        /\ \A q \in Procs : held[q] # NoBlock => held[q] \in written[q]
    BY DEF IInv, Operations
  <2> QED
    BY <1>4, <1>5, <2>2, <2>3, <2>4, <2>5 DEF Operations
<1>8. Fits'
  <2>1. Cardinality(Unused)' \in Nat /\ Cardinality(Unused)' <= (outstanding + 1) * OpBlocks
    BY <1>1, <1>4, FiniteNext DEF Counts
  <2>2. Len(lh) \in Nat
    BY DEF IInv, Types
  <2>3. Len(lh) + (outstanding + 1) * OpBlocks <= Room
    <3>1. CASE outstanding = 0
      <4>1. Active = {}
        BY <1>4, <3>1, FS_EmptySet
      <4>2. Len(lh) = 0
        BY <4>1, ListedEmpty DEF IInv, Modes, MayBegin
      <4> QED
        BY <3>1, <4>2, RoomBound, LogAssumption
    <3>2. CASE outstanding # 0
      BY <1>4, <2>2, <3>2, RoomBound DEF MayBegin
    <3> QED
      BY <3>1, <3>2
  <2>4. (outstanding + 1) * OpBlocks \in Int
    BY <1>4, LogAssumption
  <2> QED
    BY <2>1, <2>2, <2>3, <2>4, RoomBound DEF Fits, IInv
<1>9. Modes'
  BY <1>3 DEF IInv, Modes, Recovering, MayBegin
<1>10. Copies' /\ Progress'
  BY CopiesKept, ProgressKept DEF IInv, Recovering
<1>11. NoMissedWakeup'
  BY <1>2 DEF IInv, NoMissedWakeup
<1> QED
  BY <1>3, <1>1, <1>7, <1>8, <1>9, <1>10, <1>11 DEF IInv

\* What the operations may still add shrinks as they log blocks and end.
LEMMA UnusedShrinks ==
  ASSUME Types, Types', Active' \subseteq Active,
         \A q \in Active' : Logged(q) \subseteq Logged(q)'
  PROVE  Unused' \subseteq Unused /\ Cardinality(Unused') <= Cardinality(Unused)
<1>1. \A q \in Procs : IsFiniteSet(Logged(q)') /\ Cardinality(Logged(q)') \in Nat
  BY FiniteNext DEF Counts
<1>2. \A q \in Procs : Cardinality(Logged(q)) \in Nat
  BY Finite DEF Counts
<1>3. \A q \in Active' : Cardinality(Logged(q)) <= Cardinality(Logged(q)')
  <2> TAKE q \in Active'
  <2>1. q \in Procs
    BY DEF Active
  <2>2. Logged(q) \in SUBSET (Logged(q)')
    OBVIOUS
  <2> HIDE DEF Logged
  <2> QED
    BY <1>1, <2>1, <2>2, FS_Subset
<1>4. Active \subseteq Procs
  BY DEF Active
<1>5. ASSUME NEW q \in Active', NEW i \in 1 .. OpBlocks, i <= OpBlocks - Cardinality(Logged(q)')
      PROVE  i <= OpBlocks - Cardinality(Logged(q))
  BY <1>1, <1>2, <1>3, <1>4, <1>5, LogAssumption
<1>6. Unused' \subseteq Unused
  BY <1>5 DEF Unused
<1> QED
  BY <1>6, Finite, FS_Subset DEF Counts

LEMMA ModifyInv ==
  ASSUME IInv, NEW p \in Procs, NEW b \in Blocks, NEW v \in Values, Modify(p, b, v)
  PROVE  IInv' /\ Active' = Active
<1> USE DEF Modify, disk
<1>1. Types'
  BY DEF IInv, Types, Labels, InOp
<1>2. /\ \A q \in Procs : op'[q] = IF q = p THEN "modified" ELSE op[q]
      /\ \A q \in Procs : held'[q] = IF q = p THEN b ELSE held[q]
      /\ \A q \in Procs : written'[q] = IF q = p THEN written[p] \cup {b} ELSE written[q]
      /\ \A c \in Blocks : cache'[c] = IF c = b THEN v ELSE cache[c]
  BY DEF IInv, Types
<1>3. Active' = Active
  BY <1>2 DEF Active, InOp
<1>4. Listed(lh)' = Listed(lh)
  BY DEF Listed
<1>5. held[p] = NoBlock /\ b # NoBlock /\ v # NotCached
  BY LogAssumption DEF IInv, Operations
<1>6. Operations'
  <2>1. outstanding' = Cardinality(Active')
    BY <1>3 DEF IInv, Operations
  <2>2. \A q \in Procs : op'[q] \in {"modified", "checked"} <=> held'[q] # NoBlock
    BY <1>2, <1>5 DEF IInv, Operations
  <2>3. \A q, r \in Procs : held'[q] # NoBlock /\ q # r => held'[r] # held'[q]
    BY <1>2, <1>5 DEF IInv, Operations
  <2>4. \A q \in Procs : held'[q] # NoBlock => held'[q] \in written'[q]
    BY <1>2 DEF IInv, Operations
  <2>5. written[p] \subseteq Listed(lh)
    <3>1. p \in Active
      BY DEF Active, InOp
    <3>2. NoBlock \notin written[p]
      BY LogAssumption DEF IInv, Types
    <3> QED
      BY <1>5, <3>1, <3>2 DEF IInv, Operations
  <2>6. \A q \in Active' : Cardinality(written'[q]) <= OpBlocks
    BY <1>2, <1>3 DEF IInv, Operations, Active
  <2>7. \A q \in Active' : written'[q] \subseteq Listed(lh) \cup {held'[q]}
    BY <1>2, <1>3, <2>5 DEF IInv, Operations, Active
  <2>8. \A q \in Procs \ Active' : written'[q] = {}
    BY <1>2, <1>3 DEF IInv, Operations, Active, InOp
  <2> QED
    BY <1>4, <2>1, <2>2, <2>3, <2>4, <2>6, <2>7, <2>8 DEF Operations
<1>7. Fits'
  <2>1. \A q \in Active' : Logged(q) \subseteq Logged(q)'
    BY <1>2, <1>3, <1>4 DEF Logged, Active
  <2>2. Cardinality(Unused') <= Cardinality(Unused) /\ Cardinality(Unused) \in Nat
    BY <1>1, <1>3, <2>1, UnusedShrinks, Finite DEF IInv, Counts
  <2>3. Cardinality(Unused') \in Nat
    BY <1>1, FiniteNext DEF Counts
  <2> QED
    BY <2>2, <2>3, RoomBound DEF Fits, IInv, Types
<1>8. ~Recovering /\ Listed(lh) \subseteq dirty /\ phase = "none" /\ up
  BY Running DEF InOp
<1>9. Modes'
  BY <1>2, <1>3, <1>8 DEF IInv, Modes, Recovering
<1>10. Copies'
  <2>1. Distinct(lh)' /\ Distinct(dhead)'
    BY DEF Distinct, IInv, Copies
  <2>2. \A c \in dirty' : cache'[c] # NotCached
    BY <1>2, <1>5 DEF IInv, Copies, Types
  <2>3. \A q \in Procs : held'[q] # NoBlock => cache'[held'[q]] # NotCached
    BY <1>2, <1>5 DEF IInv, Copies, Types
  <2>4. \A c \in Blocks : c \notin Listed(lh) /\ (\A q \in Procs : held'[q] # c) =>
            cache'[c] = NotCached \/ cache'[c] = home[c]
    <3> TAKE c \in Blocks
    <3> HAVE c \notin Listed(lh) /\ (\A q \in Procs : held'[q] # c)
    <3>1. c # b /\ \A q \in Procs : held[q] # c
      BY <1>2, <1>5, LogAssumption
    <3> QED
      BY <1>2, <1>8, <3>1 DEF IInv, Copies
  <2>5. ~Recovering'
    BY <1>8 DEF Recovering
  <2> QED
    BY <1>4, <1>8, <2>1, <2>2, <2>3, <2>4, <2>5 DEF Copies
<1>11. Progress'
  BY <1>8 DEF Progress
<1>12. NoMissedWakeup'
  BY <1>2 DEF IInv, NoMissedWakeup, MayBegin
<1> QED
  BY <1>3, <1>1, <1>6, <1>7, <1>9, <1>10, <1>11, <1>12 DEF IInv

LEMMA LogCheckInv ==
  ASSUME IInv, NEW p \in Procs, LogCheck(p)
  PROVE  IInv' /\ op'[p] = "checked" /\ Active' = Active
<1>1. p \in Active
  BY DEF Active, InOp, LogCheck
<1>2. ~TooBig
  BY Finite, RoomBound, LogAssumption DEF IInv, Fits, Types, TooBig, Counts
<1>3. ~(outstanding < 1)
  <2>1. Cardinality(Active) # 0 /\ Cardinality(Active) \in Nat
    BY <1>1, Finite, FS_EmptySet DEF IInv, Counts
  <2> QED
    BY <2>1 DEF IInv, Operations
<1>4. /\ op' = [op EXCEPT ![p] = "checked"] /\ op[p] = "modified"
      /\ UNCHANGED <<home, dlog, dhead, cache, dirty, lh, outstanding, committing, held,
                     written, phase, tail, up>>
  BY <1>2, <1>3 DEF LogCheck, disk
<1>5. \A q \in Procs : op'[q] = IF q = p THEN "checked" ELSE op[q]
  BY <1>4 DEF IInv, Types
<1>6. Types'
  BY <1>4 DEF IInv, Types, Labels, InOp
<1>7. Active' = Active /\ Operations' /\ Fits'
  BY <1>4, <1>5, OutsideKept DEF IInv
<1>8. Modes'
  BY <1>4, <1>5, <1>7 DEF IInv, Modes, Recovering
<1>9. Copies' /\ Progress'
  BY <1>4, CopiesKept, ProgressKept DEF IInv, Recovering
<1>10. NoMissedWakeup'
  BY <1>4, <1>5 DEF IInv, NoMissedWakeup, MayBegin
<1> QED
  BY <1>5, <1>6, <1>7, <1>8, <1>9, <1>10 DEF IInv

LEMMA LogWriteInv ==
  ASSUME IInv, NEW p \in Procs, LogWrite(p)
  PROVE  IInv' /\ Active' = Active
<1> DEFINE b == held[p]
<1> USE DEF disk
<1>1. /\ p \in Active /\ b \in Blocks /\ b # NoBlock /\ b \in written[p] /\ op[p] = "checked"
      /\ cache[b] # NotCached
  BY LogAssumption DEF LogWrite, IInv, Types, Operations, Active, InOp, Copies
<1>2. /\ ~Recovering /\ Listed(lh) \subseteq dirty /\ phase = "none" /\ up = TRUE
      /\ committing = FALSE /\ dhead = <<>>
  BY <1>1, Running DEF InOp
<1>3. /\ lh \in Seq(Blocks) /\ lh' \in Seq(Blocks) /\ Listed(lh') = Listed(lh) \cup {b}
      /\ Distinct(lh')
      /\ Len(lh) \in Nat /\ Len(lh') = IF b \in Listed(lh) THEN Len(lh) ELSE Len(lh) + 1
  BY <1>1, ListedAppend DEF LogWrite, IInv, Types, Copies
<1>4. /\ \A q \in Procs : op'[q] = IF q = p THEN "running" ELSE op[q]
      /\ \A q \in Procs : held'[q] = IF q = p THEN NoBlock ELSE held[q]
  BY DEF LogWrite, IInv, Types
<1>5. Types'
  BY <1>1, <1>3 DEF LogWrite, IInv, Types, Labels, InOp
<1>6. Active' = Active
  BY <1>1, <1>4 DEF Active, InOp
<1>7. Operations'
  <2>1. outstanding' = Cardinality(Active')
    BY <1>6 DEF IInv, Operations, LogWrite
  <2>2. \A q \in Procs : op'[q] \in {"modified", "checked"} <=> held'[q] # NoBlock
    BY <1>4 DEF IInv, Operations
  <2>3. \A q, r \in Procs : held'[q] # NoBlock /\ q # r => held'[r] # held'[q]
    BY <1>4 DEF IInv, Operations
  <2>4. \A q \in Procs : held'[q] # NoBlock => held'[q] \in written'[q]
    BY <1>4 DEF IInv, Operations, LogWrite
  <2>5. \A q \in Active' : Cardinality(written'[q]) <= OpBlocks
    BY <1>6 DEF IInv, Operations, LogWrite
  <2>6. \A q \in Active' : written'[q] \subseteq Listed(lh') \cup {held'[q]}
    BY <1>3, <1>4, <1>6 DEF IInv, Operations, LogWrite, Active
  <2>7. \A q \in Procs \ Active' : written'[q] = {}
    BY <1>6 DEF IInv, Operations, LogWrite
  <2> QED
    BY <2>1, <2>2, <2>3, <2>4, <2>5, <2>6, <2>7 DEF Operations, Listed
<1>8. Fits'
  <2>1. \A q \in Procs : Logged(q) \subseteq Logged(q)'
    BY <1>3 DEF Logged, LogWrite, Listed
  <2>2. /\ Unused' \subseteq Unused
        /\ Cardinality(Unused) \in Nat /\ Cardinality(Unused') \in Nat
        /\ Cardinality(Unused') <= Cardinality(Unused) /\ IsFiniteSet(Unused)
    BY <1>5, <1>6, <2>1, UnusedShrinks, Finite, FiniteNext DEF IInv, Active, Counts
  <2>3. CASE b \in Listed(lh)
    BY <1>3, <2>2, <2>3, RoomBound DEF IInv, Fits, LogWrite
  <2>4. CASE b \notin Listed(lh)
    <3> DEFINE u == OpBlocks - Cardinality(Logged(p))
    <3>1. /\ Logged(p) \cup {b} \in SUBSET written[p] /\ b \notin Logged(p)
          /\ Logged(p)' = Logged(p) \cup {b}
      BY <1>1, <1>3, <2>4 DEF Logged, LogWrite, Listed
    <3>2. /\ IsFiniteSet(written[p]) /\ IsFiniteSet(Logged(p))
          /\ Cardinality(Logged(p)) \in Nat /\ Cardinality(written[p]) \in Nat
      BY Finite DEF IInv, Counts
    <3>3. Cardinality(Logged(p) \cup {b}) = Cardinality(Logged(p)) + 1
      BY <3>1, <3>2, FS_AddElement
    <3>4. Cardinality(Logged(p)) + 1 <= Cardinality(written[p])
      BY <3>1, <3>2, <3>3, FS_Subset
    <3>5. Cardinality(written[p]) <= OpBlocks
      BY <1>1 DEF IInv, Operations
    <3>6. u \in 1 .. OpBlocks
      BY <3>2, <3>4, <3>5, LogAssumption
    <3>7. <<p, u>> \in Unused
      BY <1>1, <3>6 DEF Unused
    <3>8. <<p, u>> \notin Unused'
      <4>1. Cardinality(Logged(p)') = Cardinality(Logged(p)) + 1
        BY <3>1, <3>3
      <4>2. ~(u <= OpBlocks - Cardinality(Logged(p)'))
        BY <3>2, <4>1, LogAssumption
      <4> QED
        BY <4>2 DEF Unused
    <3>9. Cardinality(Unused') <= Cardinality(Unused) - 1
      <4>1. Unused' \in SUBSET (Unused \ {<<p, u>>})
        BY <2>2, <3>8
      <4> HIDE DEF u
      <4>2. IsFiniteSet(Unused \ {<<p, u>>}) /\ Cardinality(Unused \ {<<p, u>>}) = Cardinality(Unused) - 1
        BY <2>2, <3>7, FS_RemoveElement
      <4> QED
        BY <4>1, <4>2, FS_Subset
    <3> QED
      BY <1>3, <2>2, <2>4, <3>9, RoomBound DEF IInv, Fits, LogWrite
  <2> QED
    BY <2>3, <2>4
<1>9. Modes'
  BY <1>1, <1>2, <1>6 DEF Modes, Recovering, LogWrite
<1>10. Copies'
  <2>1. Distinct(lh)' /\ Distinct(dhead)'
    BY <1>2, <1>3, ListedEmpty DEF Distinct, LogWrite
  <2>2. \A c \in dirty' : cache'[c] # NotCached
    BY <1>1 DEF IInv, Copies, LogWrite
  <2>3. \A q \in Procs : held'[q] # NoBlock => cache'[held'[q]] # NotCached
    BY <1>4 DEF IInv, Copies, LogWrite
  <2>4. \A c \in Blocks : c \notin Listed(lh') /\ (\A q \in Procs : held'[q] # c) =>
            cache'[c] = NotCached \/ cache'[c] = home'[c]
    <3> TAKE c \in Blocks
    <3> HAVE c \notin Listed(lh') /\ (\A q \in Procs : held'[q] # c)
    <3>1. c \notin Listed(lh) /\ \A q \in Procs : held[q] # c
      BY <1>3, <1>4
    <3> QED
      BY <1>2, <3>1 DEF IInv, Copies, LogWrite
  <2>5. ~Recovering'
    BY <1>2 DEF Recovering, LogWrite
  <2>6. Listed(lh)' \subseteq dirty'
    BY <1>2, <1>3 DEF LogWrite, Listed
  <2> QED
    BY <2>1, <2>2, <2>3, <2>4, <2>5, <2>6 DEF Copies, Listed
<1>11. Progress'
  BY <1>2 DEF Progress, LogWrite
<1>12. NoMissedWakeup'
  <2>1. ASSUME ~MayBegin PROVE ~MayBegin'
    <3>1. /\ Len(lh') \in Nat /\ Len(lh') >= Len(lh) /\ (outstanding + 1) * MAXOPBLOCKS \in Int
          /\ outstanding' = outstanding /\ committing' = committing
      BY <1>3, LogAssumption DEF LogWrite, IInv, Types
    <3>2. ~(Len(lh) + (outstanding + 1) * MAXOPBLOCKS <= LOGSIZE)
      BY <1>2, <2>1 DEF MayBegin
    <3> QED
      BY <1>3, <3>1, <3>2, LogAssumption DEF MayBegin
  <2> QED
    BY <1>4, <2>1 DEF IInv, NoMissedWakeup
<1> QED
  BY <1>6, <1>5, <1>7, <1>8, <1>9, <1>10, <1>11, <1>12 DEF IInv

-----------------------------------------------------------------------------
(* end_op                                                                  *)

\* What end_op does in any case: the operation leaves the group.
LEMMA EndOpLeaves ==
  ASSUME IInv, NEW p \in Procs, op[p] = "running",
         UNCHANGED <<lh, held, dhead>>, Types',
         outstanding' = outstanding - 1,
         written' = [written EXCEPT ![p] = {}],
         \A q \in Procs : /\ op'[q] \in InOp <=> q # p /\ op[q] \in InOp
                          /\ op'[q] \in {"modified", "checked"} <=> op[q] \in {"modified", "checked"}
  PROVE  /\ Active' = Active \ {p} /\ Operations' /\ Fits'
         /\ Cardinality(Active') = outstanding' /\ IsFiniteSet(Active')
<1>1. p \in Active
  BY DEF Active, InOp
<1>2. Active' = Active \ {p}
  BY DEF Active
<1>3. \A q \in Procs : written'[q] = IF q = p THEN {} ELSE written[q]
  BY DEF IInv, Types
<1>4. Listed(lh)' = Listed(lh)
  BY DEF Listed
<1>5. Cardinality(Active') = outstanding' /\ IsFiniteSet(Active')
  BY <1>1, <1>2, Finite, FS_RemoveElement DEF IInv, Operations, Counts
<1>6. Operations'
  <2>1. held[p] = NoBlock
    BY DEF IInv, Operations
  <2>2. \A q \in Procs : op'[q] \in {"modified", "checked"} <=> held'[q] # NoBlock
    BY DEF IInv, Operations
  <2>3. \A q, r \in Procs : held'[q] # NoBlock /\ q # r => held'[r] # held'[q]
    BY DEF IInv, Operations
  <2>4. \A q \in Procs : held'[q] # NoBlock => held'[q] \in written'[q]
    BY <1>3, <2>1 DEF IInv, Operations
  <2>5. \A q \in Active' : /\ Cardinality(written'[q]) <= OpBlocks
                           /\ written'[q] \subseteq Listed(lh) \cup {held'[q]}
    BY <1>2, <1>3 DEF IInv, Operations, Active
  <2>6. \A q \in Procs \ Active' : written'[q] = {}
    BY <1>2, <1>3 DEF IInv, Operations
  <2> QED
    BY <1>4, <1>5, <2>2, <2>3, <2>4, <2>5, <2>6 DEF Operations
<1>7. Fits'
  <2>1. \A q \in Active' : Logged(q) \subseteq Logged(q)'
    BY <1>2, <1>3, <1>4 DEF Logged, Active
  <2>2. /\ Cardinality(Unused') <= Cardinality(Unused)
        /\ Cardinality(Unused) \in Nat /\ Cardinality(Unused') \in Nat
    BY <1>2, <2>1, UnusedShrinks, Finite, FiniteNext DEF IInv, Counts
  <2> QED
    BY <2>2, RoomBound DEF Fits, IInv, Types
<1> QED
  BY <1>2, <1>5, <1>6, <1>7

LEMMA EndOpInv ==
  ASSUME IInv, NEW p \in Procs, EndOp(p)
  PROVE  IInv' /\ Active' = Active \ {p} /\ p \in Active
<1>1. /\ op[p] = "running" /\ UNCHANGED <<lh, held, dhead, dlog, home, cache, dirty, up>>
      /\ outstanding' = outstanding - 1
      /\ written' = [written EXCEPT ![p] = {}]
  BY DEF EndOp, disk
<1>2. /\ ~Recovering /\ Listed(lh) \subseteq dirty /\ phase = "none" /\ up = TRUE
      /\ committing = FALSE /\ dhead = <<>> /\ p \in Active
  BY <1>1, Running DEF InOp
<1>3. outstanding \in Nat /\ outstanding' \in Nat
  <2>1. Cardinality(Active) # 0 /\ Cardinality(Active) \in Nat
    BY <1>2, Finite, FS_EmptySet DEF IInv, Counts
  <2>2. outstanding = Cardinality(Active)
    BY DEF IInv, Operations
  <2> QED
    BY <1>1, <2>1, <2>2
<1>4. lh \in Seq(Blocks) /\ Len(lh) \in Nat /\ (lh # <<>> => 0 < Len(lh))
  BY SomeListed DEF IInv, Types
<1>5. CASE /\ outstanding' = 0 /\ committing' = TRUE /\ op' = [op EXCEPT ![p] = "commit"]
           /\ phase' = IF lh = <<>> THEN "done" ELSE "write_log"
           /\ tail' = 0
  <2>1. \A q \in Procs : op'[q] = IF q = p THEN "commit" ELSE op[q]
    BY <1>5 DEF IInv, Types
  <2>2. Types'
    BY <1>1, <1>3, <1>5 DEF IInv, Types, Labels, InOp, Phases
  <2>3. /\ Active' = Active \ {p} /\ Operations' /\ Fits'
        /\ Cardinality(Active') = outstanding' /\ IsFiniteSet(Active')
    <3>1. \A q \in Procs : /\ op'[q] \in InOp <=> q # p /\ op[q] \in InOp
                           /\ op'[q] \in {"modified", "checked"} <=> op[q] \in {"modified", "checked"}
      BY <1>1, <2>1 DEF InOp
    <3> QED
      BY <1>1, <2>2, <3>1, EndOpLeaves
  <2>4. Active' = {}
    BY <1>5, <2>3, FS_EmptySet
  <2>5. ~Recovering'
    BY <1>5 DEF Recovering
  <2>6. Modes'
    BY <1>1, <1>2, <1>4, <1>5, <2>4, <2>5 DEF Modes, Recovering
  <2>7. Copies'
    BY <1>1, <1>2, <2>5, CopiesKept DEF IInv, Recovering
  <2>8. Progress'
    BY <1>5 DEF Progress
  <2>9. NoMissedWakeup'
    BY <1>5 DEF NoMissedWakeup, MayBegin
  <2> QED
    BY <1>2, <2>2, <2>3, <2>6, <2>7, <2>8, <2>9 DEF IInv
<1>6. CASE /\ outstanding' # 0 /\ op' = Wakeup([op EXCEPT ![p] = "idle"])
           /\ UNCHANGED <<committing, phase, tail>>
  <2> DEFINE o == [op EXCEPT ![p] = "idle"]
  <2>1. \A q \in Procs : o[q] = IF q = p THEN "idle" ELSE op[q]
    BY DEF IInv, Types
  <2>2. Types'
    <3>1. op' \in [Procs -> Labels]
      BY <1>6 DEF IInv, Types, Labels, InOp, Wakeup
    <3> QED
      BY <1>1, <1>3, <1>6, <3>1 DEF IInv, Types
  <2>3. \A q \in Procs : /\ op'[q] \in InOp <=> q # p /\ op[q] \in InOp
                         /\ op'[q] \in {"modified", "checked"} <=> op[q] \in {"modified", "checked"}
                         /\ op'[q] # "asleep"
    <3> HIDE DEF o
    <3>1. \A q \in Procs : /\ o[q] \in InOp <=> q # p /\ op[q] \in InOp
                           /\ o[q] \in {"modified", "checked"} <=> op[q] \in {"modified", "checked"}
      BY <1>1, <2>1 DEF InOp
    <3>2. op' = Wakeup(o)
      BY <1>6 DEF o
    <3> QED
      BY <3>1, <3>2, Woken
  <2>4. /\ Active' = Active \ {p} /\ Operations' /\ Fits'
        /\ Cardinality(Active') = outstanding' /\ IsFiniteSet(Active')
    BY <1>1, <2>2, <2>3, EndOpLeaves
  <2>5. Active' # {}
    BY <1>6, <2>4, FS_EmptySet
  <2>6. Modes'
    BY <1>1, <1>2, <1>6, <2>5 DEF Modes, Recovering
  <2>7. Copies' /\ Progress'
    BY <1>1, <1>6, CopiesKept, ProgressKept DEF IInv, Recovering
  <2>8. NoMissedWakeup'
    BY <2>3 DEF NoMissedWakeup
  <2> QED
    BY <1>2, <2>2, <2>4, <2>6, <2>7, <2>8 DEF IInv
<1> QED
  BY <1>2, <1>5, <1>6 DEF EndOp

-----------------------------------------------------------------------------
LEMMA StepInv == IInv /\ [Next]_vars => IInv'
<1> SUFFICES ASSUME IInv, [Next]_vars PROVE IInv'
  OBVIOUS
<1>1. ASSUME NEW p \in Procs, ProcStep(p) PROVE IInv'
  BY <1>1, BeginOpInv, BeginSleepInv, ModifyInv, LogCheckInv, LogWriteInv, EndOpInv, EndCommitInv
     DEF ProcStep
<1>2. ASSUME Commit PROVE IInv'
  BY <1>2, WriteLogInv, WriteHeadInv, InstallTransInv, ClearHeadInv, ReadHeadInv DEF Commit
<1>3. ASSUME NEW b \in Blocks, Fetch(b) \/ Recycle(b) PROVE IInv'
  BY <1>3, FetchInv, RecycleInv
<1>4. CASE UNCHANGED vars
  <2> USE <1>4 DEF vars
  <2>1. Operations' /\ Fits' /\ Copies' /\ Progress' /\ NoMissedWakeup'
    BY OperationsKept, FitsKept, CopiesKept, ProgressKept
       DEF IInv, Recovering, NoMissedWakeup, MayBegin
  <2>2. Types' /\ Modes'
    BY DEF IInv, Types, Modes, Recovering, Active
  <2> QED
    BY <2>1, <2>2 DEF IInv
<1> QED
  BY <1>1, <1>2, <1>3, <1>4, CrashInv DEF Next

LEMMA Invariance == Spec => []IInv
  BY InitInv, StepInv, PTL DEF Spec

\* Whatever operations overlap, what begin_op admits fits the log and its header,
\* and log_write and end_op never panic (log.c:125-139, 145-157, 213-231).
THEOREM Fitting == Spec => []LogFits
<1>1. IInv => LogFits
  <2> SUFFICES ASSUME IInv PROVE LogFits
    OBVIOUS
  <2>1. Len(lh) <= LOGSIZE /\ Len(lh) <= LogBlocks - 1
    BY Finite, RoomBound, LogAssumption DEF IInv, Fits, Types, Counts
  <2>2. \A p \in Procs : op[p] \notin Panics
    BY DEF IInv, Types, Labels, InOp, Panics
  <2> QED
    BY <2>1, <2>2 DEF LogFits
<1> QED
  BY <1>1, Invariance, PTL

\* Nobody sleeps in begin_op when it could begin: every step that makes room or
\* ends a commit wakes the sleepers (log.c:125-139, 154-172).
THEOREM Wakeups == Spec => []NoMissedWakeup
<1>1. IInv => NoMissedWakeup
  BY DEF IInv
<1> QED
  BY <1>1, Invariance, PTL

-----------------------------------------------------------------------------
(* The log implements an atomic disk                                       *)

LEMMA InitSimulates == Init => Atomic!Init
<1> SUFFICES ASSUME Init PROVE Atomic!Init
  OBVIOUS
<1>1. Mapping
  BY InitInv, Mapped
<1>2. \A b \in Blocks : Volatile[b] = Stable[b]
  BY <1>1 DEF Mapping, Init
<1>3. Active = {}
  BY DEF Init, Active, InOp
<1> QED
  BY <1>1, <1>2, <1>3 DEF Mapping, Atomic!Init

\* The log makes the disk atomic for any number of processes and blocks: whatever
\* operations overlap, whatever the cache recycles and wherever the machine stops,
\* commit, install or recovery included, a reboot finds all the writes of a group
\* of operations or none (log.c:56-122, 125-231).
THEOREM CrashAtomicity == Spec => ImplementsAtomicDisk
<1>1. Spec => Atomic!Spec
  BY InitSimulates, StepSimulates, StepInv, Invariance, PTL DEF Spec, Atomic!Spec
<1> QED
  BY <1>1 DEF ImplementsAtomicDisk
=============================================================================
