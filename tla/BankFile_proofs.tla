--------------------------- MODULE BankFile_proofs ---------------------------
(***************************************************************************)
(* The write lock of a shared database, for any number of sessions and     *)
(* machines: whoever may write holds the lock. It is the reason why the    *)
(* handle is taken before anything is loaded and kept until the process    *)
(* ends. Then the types of BankFile, and that no change is ever in         *)
(* anyone's memory twice. Then that no work is lost: what a session has in *)
(* memory can be had again after a crash, what was saved is kept, no       *)
(* session saves over another's work; and that on one machine the whole of *)
(* BankFile implements the promise of UnsavedWork.                         *)
(***************************************************************************)
EXTENDS BankFile, SequenceTheorems, TLAPS

LockTypes ==
  /\ phase \in [Sessions -> Phases]
  /\ readOnly \in [Sessions -> BOOLEAN]

\* The inductive invariant.
WritersHoldLock == Network => \A s \in Sessions : Writes(s) => lock = s

LInv == LockTypes /\ WritersHoldLock

\* Discard changes may give a session without the lock the right to write
\* when it finds the folder out of reach, so one of the two must be left out.
LockIsReliable == ~({"Discard", "Unreachable"} \subseteq Ops)

-----------------------------------------------------------------------------
(* The sessions start down, and a session that is down does not write.     *)
LEMMA LInvInit == Init => LInv
  BY DEF Init, LInv, LockTypes, WritersHoldLock, Writes, Phases, Saving

(* A step that moves one running session to a phase in which it still      *)
(* runs, and touches neither the lock nor the right to write, keeps the    *)
(* invariant.                                                              *)
LEMMA PhaseKeeps ==
  ASSUME LInv,
         NEW s \in Sessions, phase[s] \notin {"down", "refused"},
         NEW p \in Phases,
         phase' = [phase EXCEPT ![s] = p],
         UNCHANGED <<readOnly, lock>>
  PROVE  LInv'
  BY DEF LInv, LockTypes, WritersHoldLock, Writes

(* The end of a process gives up the lock and the right to write together. *)
LEMMA GoneKeeps ==
  ASSUME LInv, NEW s \in Sessions, Gone(s)
  PROVE  LInv'
  <1>1. /\ phase' = [phase EXCEPT ![s] = "down"]
        /\ readOnly' = [readOnly EXCEPT ![s] = FALSE]
        /\ lock' = IF lock = s THEN Nobody ELSE lock
    BY DEF Gone, Goes
  <1>2. LockTypes'
    BY <1>1 DEF LInv, LockTypes, Phases, Saving
  <1>3. WritersHoldLock'
    BY <1>1 DEF LInv, LockTypes, WritersHoldLock, Writes
  <1>4. QED BY <1>2, <1>3 DEF LInv

(* Loading takes the lock if it is free, and is read-only if it is not.    *)
LEMMA DoLoadKeeps ==
  ASSUME LInv, NEW s \in Sessions, DoLoad(s)
  PROVE  LInv'
  <1>1. /\ lock' = IF Network /\ lock = Nobody THEN s ELSE lock
        /\ readOnly' = [readOnly EXCEPT ![s] = ~Acquires(s)]
    BY DEF DoLoad
  <1>2. PICK p \in {"idle", "loading"} : phase' = [phase EXCEPT ![s] = p]
    BY DEF DoLoad, Goes
  <1>3. Acquires(s) \in BOOLEAN
    BY DEF Acquires
  <1>4. LockTypes'
    BY <1>1, <1>2, <1>3 DEF LInv, LockTypes, Phases
  <1>5. ASSUME Network, NEW t \in Sessions, Writes(t)'
        PROVE  lock' = t
    <2>1. CASE t = s
      <3>1. readOnly'[s] = ~Acquires(s)
        BY <1>1 DEF LInv, LockTypes
      <3>2. Acquires(s)
        BY <1>5, <2>1, <3>1 DEF Writes
      <3>3. QED BY <1>1, <1>5, <2>1, <3>2 DEF Acquires
    <2>2. CASE t # s
      <3>1. phase'[t] = phase[t] /\ readOnly'[t] = readOnly[t]
        BY <1>1, <1>2, <2>2 DEF LInv, LockTypes
      <3>2. lock = t
        BY <1>5, <3>1 DEF LInv, WritersHoldLock, Writes
      <3>3. QED BY <1>1, <3>2, FileAssumption
    <2>3. QED BY <2>1, <2>2
  <1>6. QED BY <1>4, <1>5 DEF LInv, WritersHoldLock

(* Every step keeps the invariant, one action after another.               *)
LEMMA LInvNext ==
  ASSUME LockIsReliable, LInv, [Next]_vars
  PROVE  LInv'
  <1>1. CASE UNCHANGED vars
    BY <1>1 DEF vars, LInv, LockTypes, WritersHoldLock, Writes
  <1>2. ASSUME NEW s \in Sessions, Launch(s) PROVE LInv'
    BY <1>2, DoLoadKeeps DEF Launch
  <1>3. ASSUME NEW s \in Sessions, Refuse(s) PROVE LInv'
    <2>1. phase' = [phase EXCEPT ![s] = "refused"] /\ UNCHANGED <<readOnly, lock>>
      BY <1>3 DEF Refuse, Goes, session
    <2>2. QED BY <2>1 DEF LInv, LockTypes, WritersHoldLock, Writes, Phases
  <1>4. ASSUME NEW s \in Sessions, Loaded(s) PROVE LInv'
    <2>1. PICK p \in {"idle", "cutting", "offer"} :
                 phase' = [phase EXCEPT ![s] = p]
      BY <1>4 DEF Loaded, WriteBaseline, Goes
    <2>2. phase[s] = "loading" /\ UNCHANGED <<readOnly, lock>>
      BY <1>4 DEF Loaded, session
    <2>3. QED BY <2>1, <2>2, PhaseKeeps DEF Phases
  <1>5. ASSUME NEW s \in Sessions, Cut(s) PROVE LInv'
    BY <1>5, PhaseKeeps DEF Cut, Goes, session, Phases
  <1>6. ASSUME NEW s \in Sessions, Accept(s) PROVE LInv'
    BY <1>6, PhaseKeeps DEF Accept, Goes, Phases
  <1>7. ASSUME NEW s \in Sessions, Decline(s) PROVE LInv'
    BY <1>7, PhaseKeeps DEF Decline, Goes, session, Phases
  <1>8. ASSUME NEW s \in Sessions, Change(s) PROVE LInv'
    BY <1>8 DEF Change, LInv, LockTypes, WritersHoldLock, Writes
  <1>9. ASSUME NEW s \in Sessions, Discard(s) PROVE LInv'
    BY <1>9, DoLoadKeeps DEF Discard, LockIsReliable
  <1>10. ASSUME NEW s \in Sessions, Save(s) PROVE LInv'
    BY <1>10, PhaseKeeps DEF Save, Idle, StartSave, Goes, Phases, Saving
  <1>11. ASSUME NEW s \in Sessions, Write(s) PROVE LInv'
    BY <1>11, PhaseKeeps DEF Write, Goes, session, Phases, Saving
  <1>12. ASSUME NEW s \in Sessions, PackFails(s) PROVE LInv'
    BY <1>12, PhaseKeeps DEF PackFails, Goes, session, Phases
  <1>13. ASSUME NEW s \in Sessions, Pack(s) PROVE LInv'
    <2>1. PICK p \in {"packed", "renaming"} : phase' = [phase EXCEPT ![s] = p]
      BY <1>13 DEF Pack, Goes
    <2>2. phase[s] = "packing" /\ UNCHANGED <<readOnly, lock>>
      BY <1>13 DEF Pack, session
    <2>3. QED BY <2>1, <2>2, PhaseKeeps DEF Phases, Saving
  <1>14. ASSUME NEW s \in Sessions, Rename(s) PROVE LInv'
    BY <1>14, PhaseKeeps DEF Rename, Goes, session, Phases, Saving
  <1>15. ASSUME NEW s \in Sessions, Unplain(s) PROVE LInv'
    BY <1>15, PhaseKeeps DEF Unplain, Goes, session, Phases, Saving
  <1>16. ASSUME NEW s \in Sessions, Confirm(s) PROVE LInv'
    <2>1. PICK p \in {"idle", "cutting"} : phase' = [phase EXCEPT ![s] = p]
      BY <1>16 DEF Confirm, WriteBaseline, Goes
    <2>2. phase[s] = "confirmed" /\ UNCHANGED <<readOnly, lock>>
      BY <1>16 DEF Confirm
    <2>3. QED BY <2>1, <2>2, PhaseKeeps DEF Phases
  <1>17. ASSUME NEW s \in Sessions, Exit(s) PROVE LInv'
    <2>1. CASE Gone(s) BY <2>1, GoneKeeps
    <2>2. CASE Idle(s) /\ StartSave(s)
      BY <2>2, PhaseKeeps DEF Idle, StartSave, Goes, Phases, Saving
    <2>3. QED BY <1>17, <2>1, <2>2 DEF Exit
  <1>18. ASSUME NEW s \in Sessions, Crash(s) PROVE LInv'
    BY <1>18, GoneKeeps DEF Crash
  <1>19. CASE Next
    BY <1>19, <1>2, <1>3, <1>4, <1>5, <1>6, <1>7, <1>8, <1>9, <1>10, <1>11,
       <1>12, <1>13, <1>14, <1>15, <1>16, <1>17, <1>18 DEF Next
  <1>20. QED BY <1>1, <1>19

(* At most one session may write to a shared database at a time, provided  *)
(* that Discard changes never finds the folder out of reach (class comment *)
(* of NetworkLock.h, TryAcquire() and DoLoad()).                           *)
THEOREM OneWriterHolds ==
  ASSUME LockIsReliable PROVE Spec => []OneWriter
  <1>1. LInv => OneWriter
    BY FileAssumption DEF LInv, WritersHoldLock, OneWriter
  <1>2. QED BY <1>1, LInvInit, LInvNext, PTL DEF Spec

-----------------------------------------------------------------------------
\* What a file or a memory may hold when n changes were made.
Content(n) == Seq(0 .. n) \cup {NoFile}

(* What was a content remains one when more changes are made.              *)
LEMMA ContentGrows ==
  ASSUME NEW n \in Nat, NEW k \in Nat, n <= k
  PROVE  /\ Seq(0 .. n) \subseteq Seq(0 .. k)
         /\ Seq(1 .. n) \subseteq Seq(1 .. k)
         /\ Seq(1 .. n) \subseteq Seq(0 .. n)
         /\ Content(n) \subseteq Content(k)
  <1>1. 0 .. n \subseteq 0 .. k /\ 1 .. n \subseteq 1 .. k /\ 1 .. n \subseteq 0 .. n
    OBVIOUS
  <1>2. QED BY <1>1, SeqMonotonic DEF Content

\* What the journal of a machine may hold by then.
Journal(n) == [base : Content(n), rows : Seq(1 .. n)]

(* A journal of one machine is changed in its baseline or in its rows.     *)
LEMMA JournalTypes ==
  ASSUME NEW n \in Nat, NEW m \in Machines,
         NEW jj, jj \in [Machines -> Journal(n)]
  PROVE  /\ \A c \in Content(n) : [jj EXCEPT ![m].base = c] \in [Machines -> Journal(n)]
         /\ \A r \in Seq(1 .. n) : [jj EXCEPT ![m].rows = r] \in [Machines -> Journal(n)]
  <1>1. jj[m] \in Journal(n)
    OBVIOUS
  <1>2. \A c \in Content(n) : [jj[m] EXCEPT !.base = c] \in Journal(n)
    BY <1>1 DEF Journal
  <1>3. \A r \in Seq(1 .. n) : [jj[m] EXCEPT !.rows = r] \in Journal(n)
    BY <1>1 DEF Journal
  <1>4. QED BY <1>2, <1>3

(* The first state has the types.                                          *)
LEMMA TypeInit == Init => TypeOK
  <1>1. <<>> \in Seq(0 .. 0) /\ <<>> \in Seq(1 .. 0) /\ <<0>> \in Seq(0 .. 0)
    OBVIOUS
  <1>2. QED BY <1>1, FileAssumption
    DEF Init, TypeOK, Original, NoJournal, Phases, Saving

(* So has the state after the end of a process.                            *)
LEMMA GoneTypes ==
  ASSUME TypeOK, NEW s \in Sessions, Gone(s),
         journal' \in [Machines -> [base : Seq(0 .. made) \cup {NoFile},
                                    rows : Seq(1 .. made)]],
         holder' \in [Machines -> Sessions \cup {Nobody}]
  PROVE  TypeOK'
  <1>1. <<>> \in Seq(0 .. made)
    OBVIOUS
  <1>2. QED BY <1>1 DEF TypeOK, Gone, Goes, archive, Phases, Saving

(* A journal that is deleted is one that has nothing in it.                *)
LEMMA ResetTypes ==
  ASSUME TypeOK, NEW s \in Sessions, Reset(s)
  PROVE  /\ journal' \in [Machines -> [base : Seq(0 .. made) \cup {NoFile},
                                       rows : Seq(1 .. made)]]
         /\ holder' \in [Machines -> Sessions \cup {Nobody}]
  <1>1. NoJournal \in [base : Seq(0 .. made) \cup {NoFile}, rows : Seq(1 .. made)]
    BY DEF NoJournal
  <1>2. QED BY <1>1 DEF TypeOK, Reset

(* What is loaded is a content, or nothing at all.                         *)
LEMMA DoLoadTypes ==
  ASSUME TypeOK, NEW s \in Sessions, DoLoad(s),
         journal' \in [Machines -> [base : Seq(0 .. made) \cup {NoFile},
                                    rows : Seq(1 .. made)]],
         holder' \in [Machines -> Sessions \cup {Nobody}]
  PROVE  TypeOK'
  <1>1. MachineOf[s] \in Machines
    BY FileAssumption
  <1>2. Loadable(MachineOf[s]) \in Seq(0 .. made) \cup {NoFile}
    BY <1>1 DEF TypeOK, Loadable
  <1>3. <<>> \in Seq(0 .. made)
    OBVIOUS
  <1>4. Acquires(s) \in BOOLEAN
    BY DEF Acquires
  <1>5. QED BY <1>1, <1>2, <1>3, <1>4 DEF TypeOK, DoLoad, Goes, archive, Phases, Saving

(* The new baseline is what the session has in memory.                     *)
LEMMA BaselineTypes ==
  ASSUME TypeOK, NEW s \in Sessions, WriteBaseline(s)
  PROVE  /\ journal' \in [Machines -> [base : Seq(0 .. made) \cup {NoFile},
                                       rows : Seq(1 .. made)]]
         /\ holder' \in [Machines -> Sessions \cup {Nobody}]
         /\ phase' \in [Sessions -> Phases]
  <1> DEFINE m == MachineOf[s]
  <1>1. m \in Machines /\ made \in Nat /\ mem[s] \in Content(made)
    BY FileAssumption DEF TypeOK, Content
  <1>2. journal \in [Machines -> Journal(made)]
    BY DEF TypeOK, Journal, Content
  <1>3. [journal EXCEPT ![m].base = mem[s]] \in [Machines -> Journal(made)]
    BY <1>1, <1>2, JournalTypes
  <1>4. journal' \in [Machines -> Journal(made)]
    BY <1>2, <1>3 DEF WriteBaseline
  <1>5. QED BY <1>4 DEF TypeOK, WriteBaseline, Goes, Phases, Saving, Journal, Content

(* Every step keeps the types, one action after another.                   *)
LEMMA TypeNext ==
  ASSUME TypeOK, [Next]_vars
  PROVE  TypeOK'
  <1> USE FileAssumption
  <1>1. CASE UNCHANGED vars
    BY <1>1 DEF vars, TypeOK
  <1>2. ASSUME NEW s \in Sessions, Launch(s) PROVE TypeOK'
    BY <1>2, DoLoadTypes DEF Launch, TypeOK
  <1>3. ASSUME NEW s \in Sessions, Refuse(s) PROVE TypeOK'
    BY <1>3 DEF Refuse, Goes, TypeOK, session, local, archive, Phases
  <1>4. ASSUME NEW s \in Sessions, Loaded(s) PROVE TypeOK'
    <2>1. CASE WriteBaseline(s)
      BY <1>4, <2>1, BaselineTypes DEF Loaded, TypeOK, session, archive
    <2>2. CASE CheckBaseline(s)
      <3>1. /\ holder' = [holder EXCEPT ![MachineOf[s]] = s]
            /\ phase' = [phase EXCEPT ![s] = "offer"]
            /\ UNCHANGED <<baf, tmp, plain, journal, lock, exiting, mem, state,
                           readOnly, made, saved>>
        BY <1>4, <2>2 DEF Loaded, Goes, archive, session
      <3>2. QED BY <3>1 DEF TypeOK, Phases
    <2>3. QED BY <1>4, <2>1, <2>2 DEF Loaded
  <1>5. ASSUME NEW s \in Sessions, Cut(s) PROVE TypeOK'
    <2>1. /\ MachineOf[s] \in Machines /\ made \in Nat /\ <<>> \in Seq(1 .. made)
          /\ journal \in [Machines -> Journal(made)]
      BY DEF TypeOK, Journal, Content
    <2>2. journal' \in [Machines -> Journal(made)]
      BY <1>5, <2>1, JournalTypes DEF Cut
    <2>3. QED BY <1>5, <2>2 DEF Cut, Goes, TypeOK, session, archive, Phases, Journal, Content
  <1>6. ASSUME NEW s \in Sessions, Accept(s) PROVE TypeOK'
    <2>1. journal[MachineOf[s]].rows \in Seq(0 .. made) /\ mem[s] \in Seq(0 .. made)
      BY ContentGrows DEF TypeOK
    <2>2. mem[s] \o journal[MachineOf[s]].rows \in Seq(0 .. made)
      BY <2>1, ConcatProperties
    <2>3. QED BY <1>6, <2>2 DEF Accept, Goes, TypeOK, local, archive, Phases
  <1>7. ASSUME NEW s \in Sessions, Decline(s) PROVE TypeOK'
    BY <1>7 DEF Decline, Goes, TypeOK, session, local, archive, Phases
  <1>8. ASSUME NEW s \in Sessions, Change(s) PROVE TypeOK'
    <2>1. made' = made + 1 /\ made' \in 0 .. MaxChanges /\ made \in Nat
      BY <1>8 DEF Change, TypeOK
    <2>2. /\ Seq(0 .. made) \subseteq Seq(0 .. made')
          /\ Seq(1 .. made) \subseteq Seq(1 .. made')
      BY <2>1, ContentGrows
    <2>3. mem[s] \in Seq(0 .. made') /\ journal[MachineOf[s]].rows \in Seq(1 .. made')
      BY <2>2 DEF TypeOK
    <2>4. /\ Append(mem[s], made') \in Seq(0 .. made')
          /\ Append(journal[MachineOf[s]].rows, made') \in Seq(1 .. made')
      BY <2>1, <2>3, AppendProperties
    <2>5. journal \in [Machines -> Journal(made')]
      <3>1. Content(made) \subseteq Content(made')
        BY <2>1, ContentGrows
      <3>2. Journal(made) \subseteq Journal(made')
        BY <2>2, <3>1 DEF Journal
      <3>3. QED BY <3>2 DEF TypeOK, Journal, Content
    <2>6. /\ holder' \in [Machines -> Sessions \cup {Nobody}]
          /\ journal' \in [Machines -> Journal(made')]
      <3>1. made' \in Nat /\ MachineOf[s] \in Machines
        BY <2>1
      <3>2. [journal EXCEPT ![MachineOf[s]].rows = Append(@, made')]
               \in [Machines -> Journal(made')]
        BY <2>4, <2>5, <3>1, JournalTypes
      <3>3. CASE Opens(s)
        <4>1. /\ holder' = [holder EXCEPT ![MachineOf[s]] = s]
              /\ journal' = [journal EXCEPT ![MachineOf[s]].rows = Append(@, made')]
          BY <1>8, <3>3 DEF Change
        <4>2. holder' \in [Machines -> Sessions \cup {Nobody}]
          BY <4>1 DEF TypeOK
        <4>3. QED BY <3>2, <4>1, <4>2, Zenon
      <3>4. CASE ~Opens(s)
        BY <1>8, <2>5, <3>4 DEF Change, TypeOK
      <3>5. QED BY <3>3, <3>4
    <2>7. mem' \in [Sessions -> Seq(0 .. made')]
      BY <1>8, <2>2, <2>4 DEF Change, TypeOK
    <2>8. /\ {baf', tmp'} \subseteq Seq(0 .. made') \cup {NoFile}
          /\ plain' \in [Machines -> Seq(0 .. made') \cup {NoFile}]
          /\ saved' \in Seq(0 .. made')
      BY <1>8, <2>2 DEF Change, TypeOK, archive
    <2>9. QED BY <1>8, <2>1, <2>6, <2>7, <2>8 DEF Change, TypeOK, Journal, Content
  <1>9. ASSUME NEW s \in Sessions, Discard(s) PROVE TypeOK'
    <2>1. CASE DoLoad(s)
      BY <1>9, <2>1, ResetTypes, DoLoadTypes DEF Discard
    <2>2. CASE ~DoLoad(s)
      BY <1>9, <2>2, ResetTypes DEF Discard, TypeOK, archive
    <2>3. QED BY <2>1, <2>2
  <1>10. ASSUME NEW s \in Sessions, Save(s) PROVE TypeOK'
    BY <1>10, EmptySeq DEF Save, StartSave, Torn, Goes, TypeOK, archive, Phases, Saving
  <1>11. ASSUME NEW s \in Sessions, Write(s) PROVE TypeOK'
    BY <1>11 DEF Write, Goes, TypeOK, session, archive, Phases, Saving
  <1>12. ASSUME NEW s \in Sessions, PackFails(s) PROVE TypeOK'
    BY <1>12 DEF PackFails, Goes, TypeOK, session, local, archive, Phases
  <1>13. ASSUME NEW s \in Sessions, Pack(s) PROVE TypeOK'
    BY <1>13 DEF Pack, Goes, TypeOK, session, local, Phases, Saving
  <1>14. ASSUME NEW s \in Sessions, Rename(s) PROVE TypeOK'
    BY <1>14 DEF Rename, Goes, TypeOK, session, local, Phases, Saving
  <1>15. ASSUME NEW s \in Sessions, Unplain(s) PROVE TypeOK'
    BY <1>15 DEF Unplain, Goes, TypeOK, session, archive, Phases, Saving
  <1>16. ASSUME NEW s \in Sessions, Confirm(s) PROVE TypeOK'
    BY <1>16, BaselineTypes DEF Confirm, TypeOK, archive
  <1>17. ASSUME NEW s \in Sessions, Exit(s) PROVE TypeOK'
    <2>1. CASE Reset(s) /\ Gone(s)
      BY <2>1, ResetTypes, GoneTypes
    <2>2. CASE StartSave(s) /\ exiting' = [exiting EXCEPT ![s] = TRUE]
      BY <2>2, EmptySeq DEF StartSave, Torn, Goes, TypeOK, archive, Phases, Saving
    <2>3. QED BY <1>17, <2>1, <2>2 DEF Exit
  <1>18. ASSUME NEW s \in Sessions, Crash(s) PROVE TypeOK'
    BY <1>18, GoneTypes DEF Crash, TypeOK
  <1>19. CASE Next
    BY <1>19, <1>2, <1>3, <1>4, <1>5, <1>6, <1>7, <1>8, <1>9, <1>10, <1>11,
       <1>12, <1>13, <1>14, <1>15, <1>16, <1>17, <1>18 DEF Next
  <1>20. QED BY <1>1, <1>19

(* Contents are sequences of the changes made so far, handles belong to    *)
(* sessions: TypeOK, for any sessions, machines and mishaps.               *)
THEOREM TypesHold == Spec => []TypeOK
  BY TypeInit, TypeNext, PTL DEF Spec

-----------------------------------------------------------------------------
(* No change is twice in any content. What makes this inductive is that    *)
(* the same holds of a journal's rows on top of its baseline, unless the   *)
(* session that owns it is about to cut them off; and that the session     *)
(* which is offered the rows has the baseline in memory.                   *)
NoRepeats(c) == c # NoFile => \A i, j \in DOMAIN c : c[i] = c[j] => i = j

Contents ==
  {baf, tmp, <<>>} \cup {plain[m] : m \in Machines}
    \cup {mem[s] : s \in Sessions} \cup {journal[m].base : m \in Machines}

Cutting(m) == \E s \in Sessions : MachineOf[s] = m /\ phase[s] = "cutting"

JournalOnce(m) ==
  \/ journal[m].base = NoFile
  \/ NoRepeats(journal[m].base \o journal[m].rows)
  \/ Cutting(m)

OnceInv ==
  /\ \A c \in Contents : NoRepeats(c)
  /\ \A m \in Machines : JournalOnce(m)
  /\ \A s \in Sessions : phase[s] \in {"cutting", "offer"} => holder[MachineOf[s]] = s
  /\ \A s \in Sessions : phase[s] = "offer" => journal[MachineOf[s]].base = mem[s]

(* What is there at first has no change twice.                             *)
LEMMA SmallNoRepeats == NoRepeats(<<>>) /\ NoRepeats(Original) /\ NoRepeats(NoFile)
  BY DEF NoRepeats, Original

(* A change that was not made before is not there twice.                   *)
LEMMA AppendNoRepeats ==
  ASSUME NEW n \in Nat, NEW c \in Seq(0 .. n), NoRepeats(c)
  PROVE  NoRepeats(Append(c, n + 1))
  <1>1. c # NoFile /\ \A i, j \in DOMAIN c : c[i] = c[j] => i = j
    <2>1. c \in Seq(Nat)
      BY SeqMonotonic
    <2>2. QED BY <2>1, FileAssumption DEF NoRepeats
  <1>2. /\ Len(Append(c, n + 1)) = Len(c) + 1
        /\ \A i \in 1 .. Len(c) : Append(c, n + 1)[i] = c[i]
        /\ Append(c, n + 1)[Len(c) + 1] = n + 1
        /\ DOMAIN Append(c, n + 1) = 1 .. Len(c) + 1
        /\ DOMAIN c = 1 .. Len(c) /\ Len(c) \in Nat
    BY AppendProperties, LenProperties
  <1>3. \A i \in 1 .. Len(c) : c[i] # n + 1
    BY ElementOfSeq
  <1>4. QED BY <1>1, <1>2, <1>3 DEF NoRepeats

(* To append to the second part is to append to the whole.                 *)
LEMMA ConcatAppend ==
  ASSUME NEW S, NEW b \in Seq(S), NEW r \in Seq(S), NEW x \in S
  PROVE  b \o Append(r, x) = Append(b \o r, x)
  <1>1. Append(r, x) \in Seq(S) /\ b \o r \in Seq(S) /\ Len(b) \in Nat /\ Len(r) \in Nat
    BY AppendProperties, ConcatProperties, LenProperties
  <1>2. b \o Append(r, x) \in Seq(S) /\ Append(b \o r, x) \in Seq(S)
    BY <1>1, AppendProperties, ConcatProperties
  <1>3. /\ Len(b \o Append(r, x)) = Len(b) + Len(r) + 1
        /\ Len(Append(b \o r, x)) = Len(b) + Len(r) + 1
    BY <1>1, AppendProperties, ConcatProperties
  <1>4. ASSUME NEW i \in 1 .. Len(b) + Len(r) + 1
        PROVE  (b \o Append(r, x))[i] = Append(b \o r, x)[i]
    <2>1. (b \o Append(r, x))[i] = IF i <= Len(b) THEN b[i] ELSE Append(r, x)[i - Len(b)]
      BY <1>1, AppendProperties, ConcatProperties
    <2>2. Append(b \o r, x)[i] = IF i = Len(b) + Len(r) + 1 THEN x ELSE (b \o r)[i]
      BY <1>1, AppendProperties, ConcatProperties
    <2>3. i <= Len(b) + Len(r) => (b \o r)[i] = IF i <= Len(b) THEN b[i] ELSE r[i - Len(b)]
      BY <1>1, ConcatProperties
    <2>4. i > Len(b) => Append(r, x)[i - Len(b)] =
             IF i - Len(b) = Len(r) + 1 THEN x ELSE r[i - Len(b)]
      BY <1>1, AppendProperties
    <2>5. QED BY <1>1, <2>1, <2>2, <2>3, <2>4
  <1>5. QED BY <1>2, <1>3, <1>4, SeqEqual

(* The same for the contents of this model.                                *)
LEMMA ConcatAppendNat ==
  \A b, r \in Seq(Nat) : \A x \in Nat : b \o Append(r, x) = Append(b \o r, x)
  BY ConcatAppend

(* The invariant holds at first: there is one content, and no journal.     *)
LEMMA OnceInit == Init => OnceInv
  BY SmallNoRepeats DEF Init, OnceInv, Contents, JournalOnce, NoJournal

(* A step that only moves files about.                                     *)
LEMMA FilesOnce ==
  ASSUME OnceInv, TypeOK, NEW s \in Sessions,
         NEW p \in Phases \ {"cutting", "offer"},
         Contents' \subseteq Contents \cup {Original, NoFile},
         UNCHANGED <<journal, holder, mem>>,
         phase' = [phase EXCEPT ![s] = p],
         phase[s] # "cutting"
  PROVE  OnceInv'
  <1>1. \A c \in Contents' : NoRepeats(c)
    BY SmallNoRepeats DEF OnceInv
  <1>2. \A t \in Sessions : t # s => phase'[t] = phase[t]
    BY DEF TypeOK
  <1>3. phase'[s] = p
    BY DEF TypeOK
  <1>4. \A m \in Machines : Cutting(m) => Cutting(m)'
    BY <1>2 DEF Cutting
  <1>5. \A m \in Machines : JournalOnce(m)'
    BY <1>4 DEF OnceInv, JournalOnce
  <1>6. QED BY <1>1, <1>2, <1>3, <1>5 DEF OnceInv, NoRepeats

(* A step of one session that changes the journal of its own machine only, *)
(* and that only if it can open it.                                        *)
LEMMA JournalStep ==
  ASSUME OnceInv, TypeOK, NEW s \in Sessions,
         Opens(s) \/ UNCHANGED <<journal, holder>>,
         \A m \in Machines : m # MachineOf[s] => /\ journal'[m] = journal[m]
                                                 /\ holder'[m] = holder[m],
         \A t \in Sessions : t # s => phase'[t] = phase[t] /\ mem'[t] = mem[t],
         \A c \in Contents' : NoRepeats(c),
         JournalOnce(MachineOf[s])',
         phase'[s] \in {"cutting", "offer"} => holder'[MachineOf[s]] = s,
         phase'[s] = "offer" => journal'[MachineOf[s]].base = mem'[s]
  PROVE  OnceInv'
  <1> USE FileAssumption
  <1>1. ASSUME NEW m \in Machines, m # MachineOf[s] PROVE JournalOnce(m)'
    <2>1. Cutting(m) => Cutting(m)'
      BY <1>1 DEF Cutting
    <2>2. QED BY <1>1, <2>1 DEF OnceInv, JournalOnce
  <1>2. ASSUME NEW t \in Sessions, t # s, phase[t] \in {"cutting", "offer"}
        PROVE  /\ holder'[MachineOf[t]] = holder[MachineOf[t]]
               /\ journal'[MachineOf[t]] = journal[MachineOf[t]]
    <2>1. holder[MachineOf[t]] = t
      BY <1>2 DEF OnceInv
    <2>2. CASE MachineOf[t] = MachineOf[s]
      BY <1>2, <2>1, <2>2 DEF Opens
    <2>3. CASE MachineOf[t] # MachineOf[s]
      BY <2>3
    <2>4. QED BY <2>2, <2>3
  <1>3. ASSUME NEW t \in Sessions, phase'[t] \in {"cutting", "offer"}
        PROVE  holder'[MachineOf[t]] = t
    <2>1. CASE t = s BY <1>3, <2>1
    <2>2. CASE t # s
      <3>1. phase[t] \in {"cutting", "offer"} BY <1>3, <2>2
      <3>2. QED BY <2>2, <3>1, <1>2 DEF OnceInv
    <2>3. QED BY <2>1, <2>2
  <1>4. ASSUME NEW t \in Sessions, phase'[t] = "offer"
        PROVE  journal'[MachineOf[t]].base = mem'[t]
    <2>1. CASE t = s BY <1>4, <2>1
    <2>2. CASE t # s
      <3>1. phase[t] = "offer" /\ mem'[t] = mem[t] BY <1>4, <2>2
      <3>2. QED BY <2>2, <3>1, <1>2 DEF OnceInv
    <2>3. QED BY <2>1, <2>2
  <1>5. QED BY <1>1, <1>3, <1>4 DEF OnceInv

(* Reset() deletes the journal of the machine, or does nothing.             *)
LEMMA ResetEffect ==
  ASSUME TypeOK, NEW s \in Sessions, Reset(s)
  PROVE  /\ Opens(s) \/ UNCHANGED <<journal, holder>>
         /\ \A m \in Machines : m # MachineOf[s] => /\ journal'[m] = journal[m]
                                                    /\ holder'[m] = holder[m]
         /\ journal'[MachineOf[s]] = NoJournal \/ journal' = journal
         /\ \A m \in Machines : journal'[m].base \in {journal[m].base, NoFile}
  <1>1. MachineOf[s] \in Machines /\ NoJournal.base = NoFile
    BY FileAssumption DEF NoJournal
  <1>2. CASE Opens(s)
    <2>1. /\ journal' = [journal EXCEPT ![MachineOf[s]] = NoJournal]
          /\ holder' = [holder EXCEPT ![MachineOf[s]] = Nobody]
      BY <1>2 DEF Reset
    <2>2. journal'[MachineOf[s]] = NoJournal
      BY <1>1, <2>1 DEF TypeOK
    <2>3. \A m \in Machines : m # MachineOf[s] => /\ journal'[m] = journal[m]
                                                    /\ holder'[m] = holder[m]
      BY <2>1 DEF TypeOK
    <2>4. QED BY <1>1, <1>2, <2>2, <2>3
  <1>3. CASE ~Opens(s)
    BY <1>3 DEF Reset
  <1>4. QED BY <1>2, <1>3

(* DoLoad() takes what is on disk.                                         *)
LEMMA LoadedContents ==
  ASSUME TypeOK, NEW s \in Sessions, DoLoad(s),
         journal' = journal \/ Reset(s)
  PROVE  Contents' \subseteq Contents \cup {Original, NoFile}
  <1>1. Loadable(MachineOf[s]) \in Contents
    BY FileAssumption DEF Loadable, Contents
  <1>2. \A t \in Sessions : mem'[t] \in Contents \cup {NoFile}
    <2>1. mem'[s] \in {Loadable(MachineOf[s]), <<>>}
      BY DEF DoLoad, TypeOK
    <2>2. \A t \in Sessions : t # s => mem'[t] = mem[t]
      BY DEF DoLoad, TypeOK
    <2>3. <<>> \in Contents /\ \A t \in Sessions : mem[t] \in Contents
      BY DEF Contents
    <2>4. QED BY <1>1, <2>1, <2>2, <2>3
  <1>3. \A m \in Machines : journal'[m].base \in {journal[m].base, NoFile}
    BY ResetEffect
  <1>4. {baf', tmp'} \cup {plain'[m] : m \in Machines} \subseteq Contents
    BY DEF DoLoad, archive, Contents
  <1>5. QED BY <1>2, <1>3, <1>4 DEF Contents

(* Loading keeps the invariant: what is in memory was on disk.             *)
LEMMA LoadOnce ==
  ASSUME OnceInv, TypeOK, NEW s \in Sessions, DoLoad(s),
         UNCHANGED <<journal, holder>> \/ Reset(s),
         phase[s] # "cutting"
  PROVE  OnceInv'
  <1> USE FileAssumption
  <1>1. \A c \in Contents' : NoRepeats(c)
    BY LoadedContents, SmallNoRepeats DEF OnceInv
  <1>2. /\ \A t \in Sessions : t # s => phase'[t] = phase[t] /\ mem'[t] = mem[t]
        /\ phase'[s] \in {"idle", "loading"}
    BY DEF DoLoad, Goes, TypeOK
  <1>3. /\ Opens(s) \/ UNCHANGED <<journal, holder>>
        /\ \A m \in Machines : m # MachineOf[s] => /\ journal'[m] = journal[m]
                                                   /\ holder'[m] = holder[m]
    BY ResetEffect
  <1>4. JournalOnce(MachineOf[s])'
    <2>1. CASE journal' = journal
      <3>1. Cutting(MachineOf[s]) => Cutting(MachineOf[s])'
        BY <1>2 DEF Cutting
      <3>2. QED BY <2>1, <3>1 DEF OnceInv, JournalOnce
    <2>2. CASE journal'[MachineOf[s]] = NoJournal
      BY <2>2 DEF JournalOnce, NoJournal
    <2>3. QED BY <2>1, <2>2, ResetEffect
  <1>5. QED BY <1>1, <1>2, <1>3, <1>4, JournalStep

(* A new baseline is taken from memory.                                    *)
LEMMA BaselineOnce ==
  ASSUME OnceInv, TypeOK, NEW s \in Sessions, WriteBaseline(s),
         phase[s] # "cutting",
         UNCHANGED <<archive, plain, mem>>
  PROVE  OnceInv'
  <1> DEFINE m == MachineOf[s]
  <1> USE FileAssumption
  <1>1. mem[s] \in Contents /\ mem[s] \in Seq(0 .. made) /\ m \in Machines
    BY DEF Contents, TypeOK
  <1>2. CASE ~Opens(s)
    <2>1. /\ UNCHANGED <<journal, holder>>
          /\ phase' = [phase EXCEPT ![s] = "idle"]
          /\ Contents' = Contents
      BY <1>2 DEF WriteBaseline, Goes, archive, Contents
    <2>2. QED BY <2>1, FilesOnce DEF Phases
  <1>3. CASE Opens(s)
    <2>1. /\ holder' = [holder EXCEPT ![m] = s]
          /\ journal' = [journal EXCEPT ![m].base = mem[s]]
          /\ phase' = [phase EXCEPT ![s] = IF journal[m].rows = <<>> THEN "idle" ELSE "cutting"]
      BY <1>3 DEF WriteBaseline, Goes
    <2>2. /\ journal'[m].base = mem[s] /\ journal'[m].rows = journal[m].rows
          /\ holder'[m] = s
          /\ \A k \in Machines : k # m => journal'[k] = journal[k] /\ holder'[k] = holder[k]
      BY <1>1, <2>1 DEF TypeOK
    <2>3. /\ \A t \in Sessions : t # s => phase'[t] = phase[t] /\ mem'[t] = mem[t]
          /\ phase'[s] = IF journal[m].rows = <<>> THEN "idle" ELSE "cutting"
      BY <2>1 DEF TypeOK
    <2>4. Contents' \subseteq Contents
      BY <1>1, <2>2 DEF Contents, archive
    <2>5. JournalOnce(m)'
      <3>1. CASE journal[m].rows = <<>>
        <4>1. journal'[m].base \o journal'[m].rows = mem[s]
          BY <1>1, <2>2, <3>1, ConcatEmptySeq
        <4>2. NoRepeats(journal'[m].base \o journal'[m].rows)
          BY <1>1, <4>1 DEF OnceInv
        <4>3. QED BY <4>2 DEF JournalOnce
      <3>2. CASE journal[m].rows # <<>>
        BY <2>3, <3>2 DEF JournalOnce, Cutting
      <3>3. QED BY <3>1, <3>2
    <2>6. \A c \in Contents' : NoRepeats(c)
      BY <2>4 DEF OnceInv
    <2>7. QED BY <1>3, <2>2, <2>3, <2>5, <2>6, JournalStep
  <1>4. QED BY <1>2, <1>3

(* Every step keeps the invariant, if no session is killed between the two *)
(* writes of a baseline.                                                   *)
LEMMA OnceNext ==
  ASSUME "cutting" \notin CrashIn, OnceInv, TypeOK, TypeOK', [Next]_vars
  PROVE  OnceInv'
  <1> USE FileAssumption
  <1>1. CASE UNCHANGED vars
    BY <1>1 DEF vars, OnceInv, Contents, JournalOnce, Cutting
  <1>2. ASSUME NEW s \in Sessions, Launch(s) PROVE OnceInv'
    BY <1>2, LoadOnce DEF Launch
  <1>3. ASSUME NEW s \in Sessions, Refuse(s) PROVE OnceInv'
    <2>1. Contents' = Contents
      BY <1>3 DEF Refuse, Contents, archive, local, session
    <2>2. QED BY <1>3, <2>1, FilesOnce DEF Refuse, Goes, local, session, Phases, Saving
  <1>4. ASSUME NEW s \in Sessions, Loaded(s) PROVE OnceInv'
    <2>1. CASE CheckBaseline(s)
      <3>1. /\ holder' = [holder EXCEPT ![MachineOf[s]] = s]
            /\ phase' = [phase EXCEPT ![s] = "offer"]
            /\ UNCHANGED <<baf, tmp, plain, journal, mem>>
        BY <1>4, <2>1 DEF Loaded, Goes, archive, session
      <3>2. Opens(s) /\ journal[MachineOf[s]].base = mem[s] /\ phase[s] = "loading"
        BY <1>4, <2>1 DEF CheckBaseline, Loaded
      <3>3. /\ \A t \in Sessions : t # s => phase'[t] = phase[t] /\ mem'[t] = mem[t]
            /\ \A m \in Machines : m # MachineOf[s] => holder'[m] = holder[m]
            /\ holder'[MachineOf[s]] = s /\ phase'[s] = "offer"
        BY <3>1 DEF TypeOK
      <3>4. Contents' = Contents
        BY <3>1 DEF Contents
      <3>5. Cutting(MachineOf[s]) => Cutting(MachineOf[s])'
        BY <3>2, <3>3 DEF Cutting
      <3>6. JournalOnce(MachineOf[s])'
        BY <3>1, <3>5 DEF OnceInv, JournalOnce
      <3>7. \A c \in Contents' : NoRepeats(c)
        BY <3>4 DEF OnceInv
      <3>8. QED BY <3>1, <3>2, <3>3, <3>6, <3>7, JournalStep
    <2>2. CASE ~CheckBaseline(s)
      BY <1>4, <2>2, BaselineOnce DEF Loaded, session
    <2>3. QED BY <2>1, <2>2
  <1>5. ASSUME NEW s \in Sessions, Cut(s) PROVE OnceInv'
    <2> DEFINE m == MachineOf[s]
    <2>1. /\ journal' = [journal EXCEPT ![m].rows = <<>>]
          /\ phase' = [phase EXCEPT ![s] = "idle"]
          /\ phase[s] = "cutting"
          /\ UNCHANGED <<baf, tmp, plain, holder, mem>>
      BY <1>5 DEF Cut, Goes, archive, session
    <2>2. /\ \A k \in Machines : k # m => journal'[k] = journal[k]
          /\ journal'[m].base = journal[m].base /\ journal'[m].rows = <<>>
          /\ \A t \in Sessions : t # s => phase'[t] = phase[t]
          /\ phase'[s] = "idle"
      BY <2>1 DEF TypeOK
    <2>3. Contents' = Contents
      BY <2>1, <2>2 DEF Contents
    <2>4. \A c \in Contents' : NoRepeats(c)
      BY <2>3 DEF OnceInv
    <2>5. CASE journal[m].base = NoFile
      <3>1. JournalOnce(m)' BY <2>2, <2>5 DEF JournalOnce
      <3>2. holder[m] = s BY <2>1 DEF OnceInv
      <3>3. QED BY <2>1, <2>2, <2>4, <3>1, <3>2, JournalStep DEF Opens
    <2>6. CASE journal[m].base # NoFile
      <3>1. journal[m].base \in Seq(0 .. made) /\ journal[m].base \in Contents
        BY <2>6 DEF TypeOK, Contents
      <3>2. journal'[m].base \o journal'[m].rows = journal[m].base
        BY <2>2, <3>1, ConcatEmptySeq
      <3>3. NoRepeats(journal'[m].base \o journal'[m].rows)
        BY <3>1, <3>2 DEF OnceInv
      <3>4. JournalOnce(m)' BY <3>3 DEF JournalOnce
      <3>5. holder[m] = s BY <2>1 DEF OnceInv
      <3>6. QED BY <2>1, <2>2, <2>4, <3>4, <3>5, JournalStep DEF Opens
    <2>7. QED BY <2>5, <2>6
  <1>6. ASSUME NEW s \in Sessions, Accept(s) PROVE OnceInv'
    <2> DEFINE m == MachineOf[s]
    <2>1. /\ mem' = [mem EXCEPT ![s] = @ \o journal[m].rows]
          /\ phase' = [phase EXCEPT ![s] = "idle"]
          /\ phase[s] = "offer"
          /\ UNCHANGED <<baf, tmp, plain, journal, holder>>
      BY <1>6 DEF Accept, Goes, archive, local
    <2>2. mem[s] = journal[m].base /\ holder[m] = s /\ mem[s] # NoFile
      <3>1. mem[s] \in Seq(Nat)
        BY SeqMonotonic DEF TypeOK
      <3>2. QED BY <2>1, <3>1 DEF OnceInv
    <2>3. ~Cutting(m)
      BY <2>1, <2>2 DEF Cutting, OnceInv
    <2>4. NoRepeats(mem[s] \o journal[m].rows)
      BY <2>2, <2>3 DEF OnceInv, JournalOnce
    <2>5. /\ mem'[s] = mem[s] \o journal[m].rows /\ phase'[s] = "idle"
          /\ \A t \in Sessions : t # s => phase'[t] = phase[t] /\ mem'[t] = mem[t]
      BY <2>1 DEF TypeOK
    <2>6. Contents' \subseteq Contents \cup {mem[s] \o journal[m].rows}
      BY <2>1, <2>5 DEF Contents
    <2>7. \A c \in Contents' : NoRepeats(c)
      BY <2>4, <2>6 DEF OnceInv
    <2>8. JournalOnce(m)'
      BY <2>1, <2>3 DEF JournalOnce, OnceInv
    <2>9. QED BY <2>1, <2>5, <2>7, <2>8, JournalStep
  <1>7. ASSUME NEW s \in Sessions, Decline(s) PROVE OnceInv'
    <2>1. Contents' = Contents
      BY <1>7 DEF Decline, Contents, archive, local, session
    <2>2. QED BY <1>7, <2>1, FilesOnce DEF Decline, Goes, local, session, Phases, Saving
  <1>8. ASSUME NEW s \in Sessions, Change(s) PROVE OnceInv'
    <2> DEFINE m == MachineOf[s]
    <2>1. /\ phase[s] = "idle" /\ made' = made + 1 /\ made \in Nat
          /\ mem' = [mem EXCEPT ![s] = Append(@, made + 1)]
          /\ UNCHANGED <<baf, tmp, plain, phase>>
      BY <1>8 DEF Change, Idle, archive, TypeOK
    <2>2. mem[s] \in Seq(0 .. made) /\ m \in Machines
      BY DEF TypeOK
    <2>3. NoRepeats(Append(mem[s], made + 1))
      BY <2>1, <2>2, AppendNoRepeats DEF OnceInv, Contents
    <2>4. \A t \in Sessions : t # s => mem'[t] = mem[t]
      BY <2>1 DEF TypeOK
    <2>5. mem'[s] = Append(mem[s], made + 1)
      BY <2>1 DEF TypeOK
    <2>6. CASE ~Opens(s)
      <3>1. UNCHANGED <<journal, holder>> BY <1>8, <2>6 DEF Change
      <3>2. Contents' \subseteq Contents \cup {Append(mem[s], made + 1)}
        BY <2>1, <2>4, <2>5, <3>1 DEF Contents
      <3>3. \A c \in Contents' : NoRepeats(c)
        BY <2>3, <3>2 DEF OnceInv
      <3>4. JournalOnce(m)'
        BY <2>1, <2>2, <3>1 DEF OnceInv, JournalOnce, Cutting
      <3>5. QED BY <2>1, <2>4, <3>1, <3>3, <3>4, JournalStep
    <2>7. CASE Opens(s)
      <3>1. /\ holder' = [holder EXCEPT ![m] = s]
            /\ journal' = [journal EXCEPT ![m].rows = Append(@, made + 1)]
        BY <1>8, <2>1, <2>7 DEF Change
      <3>2. /\ \A k \in Machines : k # m => journal'[k] = journal[k] /\ holder'[k] = holder[k]
            /\ journal'[m].base = journal[m].base
            /\ journal'[m].rows = Append(journal[m].rows, made + 1)
            /\ holder'[m] = s
        BY <2>2, <3>1 DEF TypeOK
      <3>3. Contents' \subseteq Contents \cup {Append(mem[s], made + 1)}
        <4>1. \A k \in Machines : journal'[k].base = journal[k].base
          BY <3>2
        <4>2. {journal'[k].base : k \in Machines} \subseteq Contents
          BY <4>1 DEF Contents
        <4>3. {mem'[t] : t \in Sessions} \subseteq Contents \cup {Append(mem[s], made + 1)}
          BY <2>4, <2>5 DEF Contents
        <4>4. {baf', tmp', <<>>} \cup {plain'[k] : k \in Machines} \subseteq Contents
          BY <2>1 DEF Contents
        <4>5. QED BY <4>2, <4>3, <4>4 DEF Contents
      <3>4. \A c \in Contents' : NoRepeats(c)
        BY <2>3, <3>3 DEF OnceInv
      <3>5. CASE journal[m].base # NoFile
        <4> DEFINE b == journal[m].base
        <4> DEFINE r == journal[m].rows
        <4>1. b \in Seq(0 .. made) /\ r \in Seq(0 .. made)
          BY <2>1, <2>2, <3>5, ContentGrows DEF TypeOK
        <4>2. b \in Seq(Nat) /\ r \in Seq(Nat) /\ made + 1 \in Nat
          BY <2>1, <4>1, SeqMonotonic
        <4>3. b \o Append(r, made + 1) = Append(b \o r, made + 1)
          BY <4>2, ConcatAppendNat
        <4>4. b \o r \in Seq(0 .. made)
          BY <4>1, ConcatProperties
        <4>5. NoRepeats(b \o r) => NoRepeats(b \o Append(r, made + 1))
          BY <2>1, <4>3, <4>4, AppendNoRepeats
        <4>6. NoRepeats(b \o r) \/ Cutting(m)
          BY <2>2, <3>5 DEF OnceInv, JournalOnce
        <4>7. ~Cutting(m)
          BY <2>1, <2>7 DEF Cutting, OnceInv, Opens
        <4>8. journal'[m].base \o journal'[m].rows = b \o Append(r, made + 1)
          BY <3>2
        <4>9. JournalOnce(m)'
          BY <4>5, <4>6, <4>7, <4>8 DEF JournalOnce
        <4>10. QED BY <2>1, <2>4, <2>7, <3>2, <3>4, <4>9, JournalStep
      <3>6. CASE journal[m].base = NoFile
        <4>1. JournalOnce(m)' BY <3>2, <3>6 DEF JournalOnce
        <4>2. QED BY <2>1, <2>4, <2>7, <3>2, <3>4, <4>1, JournalStep
      <3>7. QED BY <3>5, <3>6
    <2>8. QED BY <2>6, <2>7
  <1>9. ASSUME NEW s \in Sessions, Discard(s) PROVE OnceInv'
    <2>1. Reset(s) /\ phase[s] = "idle"
      BY <1>9 DEF Discard, Idle
    <2>2. CASE DoLoad(s)
      BY <2>1, <2>2, LoadOnce
    <2>3. CASE UNCHANGED <<archive, plain, phase, mem>>
      <3>1. \A m \in Machines : journal'[m].base \in {journal[m].base, NoFile}
        BY <2>1, ResetEffect
      <3>2. Contents' \subseteq Contents \cup {NoFile}
        BY <2>3, <3>1 DEF Contents, archive
      <3>3. \A c \in Contents' : NoRepeats(c)
        BY <3>2, SmallNoRepeats DEF OnceInv
      <3>4. /\ Opens(s) \/ UNCHANGED <<journal, holder>>
            /\ \A m \in Machines : m # MachineOf[s] => /\ journal'[m] = journal[m]
                                                       /\ holder'[m] = holder[m]
        BY <2>1, ResetEffect
      <3>5. JournalOnce(MachineOf[s])'
        <4>1. CASE journal' = journal
          BY <2>3, <4>1 DEF OnceInv, JournalOnce, Cutting
        <4>2. CASE journal'[MachineOf[s]] = NoJournal
          BY <4>2 DEF JournalOnce, NoJournal
        <4>3. QED BY <2>1, <4>1, <4>2, ResetEffect
      <3>6. QED BY <2>1, <2>3, <3>3, <3>4, <3>5, JournalStep
    <2>4. QED BY <1>9, <2>2, <2>3 DEF Discard
  <1>10. ASSUME NEW s \in Sessions, StartSave(s), phase[s] = "idle" PROVE OnceInv'
    <2>1. \A m \in Machines : plain'[m] \in {plain[m], <<>>}
      BY <1>10 DEF StartSave, Torn, TypeOK
    <2>2. Contents' \subseteq Contents
      BY <1>10, <2>1 DEF Contents, StartSave, archive
    <2>3. QED BY <1>10, <2>2, FilesOnce DEF StartSave, Goes, Phases, Saving
  <1>11. ASSUME NEW s \in Sessions, Write(s) PROVE OnceInv'
    <2>1. \A m \in Machines : plain'[m] \in {plain[m], mem[s]}
      BY <1>11 DEF Write, TypeOK
    <2>2. Contents' \subseteq Contents
      BY <1>11, <2>1 DEF Contents, Write, archive, session
    <2>3. QED BY <1>11, <2>2, FilesOnce DEF Write, Goes, session, Phases, Saving
  <1>12. ASSUME NEW s \in Sessions, PackFails(s) PROVE OnceInv'
    <2>1. Contents' = Contents
      BY <1>12 DEF PackFails, Contents, archive, local, session
    <2>2. QED BY <1>12, <2>1, FilesOnce DEF PackFails, Goes, local, session, Phases, Saving
  <1>13. ASSUME NEW s \in Sessions, Pack(s) PROVE OnceInv'
    <2>1. Contents' \subseteq Contents \cup {NoFile}
      BY <1>13 DEF Pack, Contents, local, session
    <2>2. QED BY <1>13, <2>1, FilesOnce DEF Pack, Goes, local, session, Phases, Saving
  <1>14. ASSUME NEW s \in Sessions, Rename(s) PROVE OnceInv'
    <2>1. Contents' \subseteq Contents \cup {NoFile}
      BY <1>14 DEF Rename, Contents, local, session
    <2>2. QED BY <1>14, <2>1, FilesOnce DEF Rename, Goes, local, session, Phases, Saving
  <1>15. ASSUME NEW s \in Sessions, Unplain(s) PROVE OnceInv'
    <2>1. \A m \in Machines : plain'[m] \in {plain[m], NoFile}
      BY <1>15 DEF Unplain, TypeOK
    <2>2. Contents' \subseteq Contents \cup {NoFile}
      BY <1>15, <2>1 DEF Contents, Unplain, archive, session
    <2>3. QED BY <1>15, <2>2, FilesOnce DEF Unplain, Goes, session, Phases, Saving
  <1>16. ASSUME NEW s \in Sessions, Confirm(s) PROVE OnceInv'
    BY <1>16, BaselineOnce DEF Confirm
  <1>17. ASSUME NEW s \in Sessions, Exit(s) PROVE OnceInv'
    <2>1. CASE Reset(s) /\ Gone(s) /\ phase[s] \in {"idle", "refused"}
      <3>1. \A m \in Machines : journal'[m].base \in {journal[m].base, NoFile}
        BY <2>1, ResetEffect
      <3>2. /\ \A t \in Sessions : t # s => phase'[t] = phase[t] /\ mem'[t] = mem[t]
            /\ phase'[s] = "down" /\ mem'[s] = <<>>
        BY <2>1 DEF Gone, Goes, TypeOK
      <3>3. Contents' \subseteq Contents \cup {NoFile}
        BY <2>1, <3>1, <3>2 DEF Contents, archive, Gone
      <3>4. \A c \in Contents' : NoRepeats(c)
        BY <3>3, SmallNoRepeats DEF OnceInv
      <3>5. /\ Opens(s) \/ UNCHANGED <<journal, holder>>
            /\ \A m \in Machines : m # MachineOf[s] => /\ journal'[m] = journal[m]
                                                       /\ holder'[m] = holder[m]
        BY <2>1, ResetEffect
      <3>6. JournalOnce(MachineOf[s])'
        <4>1. CASE journal' = journal
          <5>1. Cutting(MachineOf[s]) => Cutting(MachineOf[s])'
            BY <2>1, <3>2 DEF Cutting
          <5>2. QED BY <4>1, <5>1 DEF OnceInv, JournalOnce
        <4>2. CASE journal'[MachineOf[s]] = NoJournal
          BY <4>2 DEF JournalOnce, NoJournal
        <4>3. QED BY <2>1, <4>1, <4>2, ResetEffect
      <3>7. QED BY <3>2, <3>4, <3>5, <3>6, JournalStep
    <2>2. CASE StartSave(s) /\ phase[s] = "idle"
      BY <2>2, <1>10
    <2>3. QED BY <1>17, <2>1, <2>2 DEF Exit, Idle
  <1>18. ASSUME NEW s \in Sessions, Crash(s) PROVE OnceInv'
    <2>1. /\ phase[s] # "cutting" /\ Gone(s) /\ UNCHANGED journal
          /\ holder' = [m \in Machines |-> IF holder[m] = s THEN Nobody ELSE holder[m]]
      BY <1>18 DEF Crash
    <2>2. /\ \A t \in Sessions : t # s => phase'[t] = phase[t] /\ mem'[t] = mem[t]
          /\ phase'[s] = "down" /\ mem'[s] = <<>>
      BY <2>1 DEF Gone, Goes, TypeOK
    <2>3. Contents' \subseteq Contents
      BY <2>1, <2>2 DEF Contents, archive, Gone
    <2>4. \A m \in Machines : Cutting(m) => Cutting(m)'
      BY <2>1, <2>2 DEF Cutting
    <2>5. \A m \in Machines : JournalOnce(m)'
      BY <2>1, <2>4 DEF OnceInv, JournalOnce
    <2>6. ASSUME NEW t \in Sessions, phase'[t] \in {"cutting", "offer"}
          PROVE  /\ holder'[MachineOf[t]] = t
                 /\ phase'[t] = "offer" => journal'[MachineOf[t]].base = mem'[t]
      <3>1. t # s /\ phase[t] = phase'[t] BY <2>2, <2>6
      <3>2. MachineOf[t] \in Machines /\ holder[MachineOf[t]] = t
        BY <2>6, <3>1 DEF OnceInv
      <3>3. holder'[MachineOf[t]] = t
        BY <2>1, <3>1, <3>2
      <3>4. phase[t] = "offer" => journal[MachineOf[t]].base = mem[t]
        BY DEF OnceInv
      <3>5. QED BY <2>1, <2>2, <3>1, <3>3, <3>4
    <2>7. QED BY <2>3, <2>5, <2>6 DEF OnceInv
  <1>19. CASE Next
    BY <1>19, <1>2, <1>3, <1>4, <1>5, <1>6, <1>7, <1>8, <1>9, <1>10, <1>11,
       <1>12, <1>13, <1>14, <1>15, <1>16, <1>17, <1>18 DEF Next, Save, Idle
  <1>20. QED BY <1>1, <1>19

(* No change is in anyone's memory twice, for any number of sessions and   *)
(* machines and whatever else goes wrong, provided that no session is      *)
(* killed between the two writes of WriteBaseline() (NothingTwice).        *)
THEOREM NothingIsTwice ==
  ASSUME "cutting" \notin CrashIn PROVE Spec => []NothingTwice
  <1>1. OnceInv /\ TypeOK => NothingTwice
    <2> SUFFICES ASSUME OnceInv, TypeOK, NEW s \in Sessions
                 PROVE  \A i, j \in DOMAIN mem[s] : mem[s][i] = mem[s][j] => i = j
      BY DEF NothingTwice
    <2>1. mem[s] \in Seq(Nat) BY SeqMonotonic DEF TypeOK
    <2>2. QED BY <2>1, FileAssumption DEF OnceInv, Contents, NoRepeats
  <1>2. QED BY <1>1, OnceInit, OnceNext, TypesHold, PTL DEF Spec

-----------------------------------------------------------------------------
(* That no work is lost.                                                   *)

\* No two sessions on one machine.
OneSessionEach == \A s, t \in Sessions : MachineOf[s] = MachineOf[t] => s = t

(* When nothing is lost: one session on each machine; a folder that is not *)
(* out of reach just when changes are discarded; recoveries are accepted,  *)
(* files can be written, packed and replaced; no session is killed while   *)
(* the plain file is rewritten or between the two writes of a baseline,    *)
(* nor, when others may take over the lock, before its save is done. For   *)
(* each of these but the first, a configuration MCBankFile_bad_* shows     *)
(* what is lost without it.                                                *)
Orderly ==
  /\ OneSessionEach
  /\ LockIsReliable
  /\ Ops \cap {"Decline", "ZipFails", "WriteFails", "Sharing"} = {}
  /\ CrashIn \cap {"writing", "cutting"} = {}
  /\ Network => CrashIn \cap {"packing", "renaming", "packed"} = {}

(* The inductive invariant. A journal is held by a session of its machine. *)
HoldersAtHome ==
  \A m \in Machines : holder[m] # Nobody => MachineOf[holder[m]] = m

(* A session that may write has, at each step of loading and of saving, in *)
(* memory what is on disk, or what the baseline and the rows of its        *)
(* journal make, and always what was saved last.                           *)
InStep(s) ==
  LET m == MachineOf[s]
      j == journal[m]
      p == phase[s]
  IN  /\ p \in {"loading", "offer", "cutting"} => mem[s] = Loadable(m)
      /\ p \in {"offer", "cutting"} => j.base = mem[s]
      /\ p = "offer" => j.rows # <<>>
      /\ p = "idle" => j.base = Loadable(m)
      /\ p \in {"idle"} \cup Saving => mem[s] = j.base \o j.rows /\ j.base # NoFile
      /\ p \in {"packing", "renaming", "packed"} => plain[m] = mem[s]
      /\ p = "renaming" => tmp = mem[s]
      /\ p \in {"packed", "confirmed"} => baf = mem[s]
      /\ p = "confirmed" => plain[m] = NoFile
      /\ p = "idle" /\ state[s] # "DIRTY" => j.rows = <<>>
      /\ IsPrefixOf(saved, mem[s])

(* On disk there is always something to load that has what was saved last, *)
(* unless a save is under way; a plain file beside a shared archive is     *)
(* there only as long as the save that wrote it.                           *)
DiskInv ==
  /\ Network => (baf = NoFile => \E s \in Sessions : phase[s] = "renaming")
  /\ ~Network => \A m \in Machines : Loadable(m) # NoFile
  /\ Network => \A m \in Machines : plain[m] # NoFile =>
       \E s \in Sessions : /\ MachineOf[s] = m
                           /\ phase[s] \in {"writing", "packing", "renaming", "packed"}
  /\ \A s \in Sessions : phase[s] \in Saving => ~readOnly[s]
  /\ baf # NoFile => IsPrefixOf(saved, baf)
  /\ \A m \in Machines : plain[m] # NoFile =>
       \/ IsPrefixOf(saved, plain[m])
       \/ \E s \in Sessions : MachineOf[s] = m /\ phase[s] = "writing"

FInv ==
  /\ HoldersAtHome
  /\ \A s \in Sessions : Writes(s) => InStep(s)
  /\ DiskInv

-----------------------------------------------------------------------------
(* The types, with the numbers of the changes forgotten.                   *)
LEMMA PlainTypes ==
  ASSUME TypeOK
  PROVE  /\ baf \in Seq(Nat) \cup {NoFile} /\ tmp \in Seq(Nat) \cup {NoFile}
         /\ plain \in [Machines -> Seq(Nat) \cup {NoFile}]
         /\ \A m \in Machines : /\ journal[m].base \in Seq(Nat) \cup {NoFile}
                                /\ journal[m].rows \in Seq(Nat)
                                /\ Loadable(m) \in Seq(Nat) \cup {NoFile}
         /\ mem \in [Sessions -> Seq(Nat)]
         /\ \A s \in Sessions : mem[s] # NoFile
         /\ saved \in Seq(Nat)
         /\ NoFile \notin Seq(Nat)
         /\ made \in Nat
  <1>0. made \in Nat /\ 0 .. made \subseteq Nat /\ 1 .. made \subseteq Nat
    BY FileAssumption DEF TypeOK
  <1>1. Seq(0 .. made) \subseteq Seq(Nat) /\ Seq(1 .. made) \subseteq Seq(Nat)
    BY <1>0, SeqMonotonic
  <1>2. \A m \in Machines : /\ journal[m].base \in Seq(Nat) \cup {NoFile}
                            /\ journal[m].rows \in Seq(Nat)
    BY <1>1 DEF TypeOK
  <1>3. \A m \in Machines : Loadable(m) \in Seq(Nat) \cup {NoFile}
    <2>1. plain \in [Machines -> Seq(Nat) \cup {NoFile}] /\ baf \in Seq(Nat) \cup {NoFile}
      BY <1>1 DEF TypeOK
    <2>2. QED BY <2>1 DEF Loadable
  <1>4. QED BY <1>1, <1>2, <1>3, FileAssumption DEF TypeOK

(* What was saved is in what was saved.                                    *)
LEMMA PrefixOfItself ==
  ASSUME NEW c \in Seq(Nat) PROVE IsPrefixOf(c, c)
  BY SubSeqFull, LenProperties, FileAssumption DEF IsPrefixOf

(* What was saved is in what was saved and anything after it.              *)
LEMMA PrefixExtends ==
  ASSUME NEW c \in Seq(Nat), NEW d \in Seq(Nat), NEW r \in Seq(Nat), IsPrefixOf(c, d)
  PROVE  IsPrefixOf(c, d \o r)
  <1>1. Len(c) \in Nat /\ Len(d) \in Nat /\ Len(r) \in Nat
    BY LenProperties
  <1>2. d \o r \in Seq(Nat) /\ Len(d \o r) = Len(d) + Len(r)
    BY ConcatProperties
  <1>3. Len(c) <= Len(d) /\ c = SubSeq(d, 1, Len(c))
    BY DEF IsPrefixOf
  <1>4. SubSeq(d \o r, 1, Len(c)) = SubSeq(d, 1, Len(c))
    <2>1. CASE Len(c) = 0
      BY <2>1, SubSeqEmpty
    <2>2. CASE Len(c) # 0
      <3>1. Len(c) \in 1 .. Len(d) /\ 1 \in 1 .. Len(d)
        BY <1>1, <1>3, <2>2
      <3>2. QED BY <3>1, SubSeqOfConcat1
    <2>3. QED BY <2>1, <2>2
  <1>5. d \o r # NoFile /\ Len(c) <= Len(d \o r)
    <2>1. d \o r # NoFile
      BY <1>2, FileAssumption, Zenon
    <2>2. Len(c) <= Len(d) + Len(r)
      BY <1>1, <1>3
    <2>3. QED BY <1>2, <2>1, <2>2, Zenon
  <1>6. c = SubSeq(d \o r, 1, Len(c))
    BY <1>3, <1>4
  <1>7. QED BY <1>5, <1>6 DEF IsPrefixOf

(* The same for one more change.                                           *)
LEMMA PrefixAppend ==
  ASSUME NEW c \in Seq(Nat), NEW d \in Seq(Nat), NEW x \in Nat, IsPrefixOf(c, d)
  PROVE  IsPrefixOf(c, Append(d, x))
  <1>1. Append(d, x) = d \o <<x>>
    OBVIOUS
  <1>2. <<x>> \in Seq(Nat)
    OBVIOUS
  <1>3. QED BY <1>1, <1>2, PrefixExtends

(* Who may write is alone.                                                 *)
LEMMA Alone ==
  ASSUME OneSessionEach, LInv, NEW s \in Sessions, NEW t \in Sessions,
         Writes(s), Writes(t)
  PROVE  s = t
  <1>1. CASE Network
    BY <1>1 DEF LInv, WritersHoldLock
  <1>2. CASE ~Network
    BY <1>2, FileAssumption DEF OneSessionEach
  <1>3. QED BY <1>1, <1>2, FileAssumption

(* With one session on a machine, its journal is its own.                  *)
LEMMA AlwaysOpens ==
  ASSUME OneSessionEach, HoldersAtHome, TypeOK, NEW s \in Sessions
  PROVE  Opens(s)
  BY FileAssumption DEF OneSessionEach, HoldersAtHome, Opens, TypeOK

(* Only a session that may write saves.                                    *)
LEMMA SaversWrite ==
  ASSUME DiskInv, NEW s \in Sessions, phase[s] \in Saving
  PROVE  Writes(s)
  BY DEF DiskInv, Writes, Saving

(* The invariant holds at first: all machines would load Original.         *)
LEMMA FInit == Init => FInv
  <1> SUFFICES ASSUME Init PROVE FInv
    OBVIOUS
  <1>1. IsPrefixOf(Original, Original)
    <2>1. Original \in Seq(Nat) BY DEF Original
    <2>2. QED BY <2>1, PrefixOfItself
  <1>2. Original # NoFile
    <2>1. <<0>> \in Seq(Nat) OBVIOUS
    <2>2. QED BY <2>1, FileAssumption, Zenon DEF Original
  <1>3. HoldersAtHome /\ \A s \in Sessions : ~Writes(s)
    BY DEF Init, HoldersAtHome, Writes
  <1>4. /\ baf = Original /\ saved = Original
        /\ \A m \in Machines : plain[m] = NoFile
        /\ \A s \in Sessions : phase[s] \notin Saving
    BY DEF Init, Saving
  <1>5. DiskInv
    BY <1>1, <1>2, <1>4 DEF DiskInv, Loadable
  <1>6. QED BY <1>3, <1>5 DEF FInv

(* A step of one session outside of a save.                                *)
LEMMA SoloStep ==
  ASSUME Orderly, FInv, LInv, TypeOK, NEW s \in Sessions,
         phase[s] \notin Saving, phase'[s] \notin Saving,
         UNCHANGED <<baf, tmp, plain, saved>>,
         \A t \in Sessions : t # s => /\ phase'[t] = phase[t] /\ mem'[t] = mem[t]
                                      /\ state'[t] = state[t]
                                      /\ readOnly'[t] = readOnly[t],
         \A m \in Machines : m # MachineOf[s] => journal'[m] = journal[m],
         HoldersAtHome',
         Writes(s)' => InStep(s)'
  PROVE  FInv'
  <1>1. ASSUME NEW t \in Sessions, t # s, Writes(t)'
        PROVE  InStep(t)'
    <2>1. Writes(t) /\ InStep(t)
      BY <1>1 DEF Writes, FInv
    <2>2. MachineOf[t] \in Machines /\ MachineOf[t] # MachineOf[s]
      BY <1>1, FileAssumption DEF Orderly, OneSessionEach
    <2>3. journal'[MachineOf[t]] = journal[MachineOf[t]]
      BY <2>2
    <2>4. QED BY <1>1, <2>1, <2>3 DEF InStep, Loadable
  <1>2. DiskInv'
    <2>1. \A t \in Sessions : phase[t] \in Saving => phase'[t] = phase[t] /\ t # s
      OBVIOUS
    <2>2. \A m \in Machines : Loadable(m)' = Loadable(m)
      BY DEF Loadable
    <2>3. DiskInv
      BY DEF FInv
    <2>4. Network' = Network OBVIOUS
    <2>5. QED BY <2>1, <2>2, <2>3 DEF DiskInv, Saving
  <1>3. QED BY <1>1, <1>2 DEF FInv

(* A step of the one session that saves.                                   *)
LEMMA SaverStep ==
  ASSUME Orderly, FInv, LInv, NEW s \in Sessions, Writes(s),
         \A t \in Sessions : t # s => phase'[t] = phase[t] /\ readOnly'[t] = readOnly[t],
         HoldersAtHome', DiskInv',
         Writes(s)' => InStep(s)'
  PROVE  FInv'
  <1>1. ASSUME NEW t \in Sessions, t # s PROVE ~Writes(t)'
    BY <1>1, Alone DEF Writes, Orderly
  <1>2. QED BY <1>1 DEF FInv

(* What every step of one session leaves alone.                            *)
Others(s) ==
  /\ \A t \in Sessions : t # s => /\ phase'[t] = phase[t] /\ mem'[t] = mem[t]
                                  /\ state'[t] = state[t]
                                  /\ readOnly'[t] = readOnly[t]
  /\ \A m \in Machines : m # MachineOf[s] => journal'[m] = journal[m]

(* A session that is let in finds a file that has what was saved last.     *)
LEMMA FindsSaved ==
  ASSUME Orderly, FInv, LInv, TypeOK, NEW s \in Sessions, Acquires(s),
         phase[s] \in {"down", "idle"}
  PROVE  LET found == Loadable(MachineOf[s])
         IN  found # NoFile /\ IsPrefixOf(saved, found)
  <1> DEFINE m == MachineOf[s]
  <1>1. m \in Machines
    BY FileAssumption
  <1>2. \A t \in Sessions : MachineOf[t] = m => t = s
    BY DEF Orderly, OneSessionEach
  <1>3. Loadable(m) # NoFile
    <2>1. CASE Network
      <3>1. ASSUME NEW t \in Sessions, phase[t] = "renaming" PROVE FALSE
        <4>1. Writes(t) BY <3>1, SaversWrite DEF FInv, Saving
        <4>2. lock = t BY <2>1, <4>1 DEF LInv, WritersHoldLock
        <4>3. t = s BY <2>1, <4>2, FileAssumption DEF Acquires
        <4>4. QED BY <3>1, <4>3
      <3>2. baf # NoFile
        BY <2>1, <3>1 DEF FInv, DiskInv
      <3>3. QED BY <3>2 DEF Loadable
    <2>2. CASE ~Network
      BY <1>1, <2>2 DEF FInv, DiskInv
    <2>3. QED BY <2>1, <2>2, FileAssumption
  <1>4. plain[m] # NoFile => IsPrefixOf(saved, plain[m])
    BY <1>1, <1>2 DEF FInv, DiskInv
  <1>5. baf # NoFile => IsPrefixOf(saved, baf)
    BY DEF FInv, DiskInv
  <1>6. QED BY <1>3, <1>4, <1>5 DEF Loadable

(* A journal that is deleted, or that is taken, has a holder at home.      *)
LEMMA ResetAtHome ==
  ASSUME TypeOK, HoldersAtHome, NEW s \in Sessions, Reset(s)
  PROVE  HoldersAtHome'
  BY DEF HoldersAtHome, Reset, TypeOK

(* A journal is taken by a session of its machine.                         *)
LEMMA TakenAtHome ==
  ASSUME TypeOK, HoldersAtHome, NEW s \in Sessions,
         holder' = [holder EXCEPT ![MachineOf[s]] = s]
  PROVE  HoldersAtHome'
  BY DEF HoldersAtHome, TypeOK

(* A session that loads has what is on disk before it.                     *)
LEMMA DoLoadFInv ==
  ASSUME Orderly, FInv, LInv, TypeOK, NEW s \in Sessions, DoLoad(s),
         phase[s] \in {"down", "idle"},
         UNCHANGED <<journal, holder>> \/ Reset(s)
  PROVE  FInv'
  <1> DEFINE m == MachineOf[s]
  <1> DEFINE found == Loadable(m)
  <1>1. /\ readOnly' = [readOnly EXCEPT ![s] = ~Acquires(s)]
        /\ mem' = [mem EXCEPT ![s] = IF found = NoFile THEN <<>> ELSE found]
        /\ state' = [state EXCEPT ![s] = IF found = NoFile THEN "EMPTY" ELSE "NO_CHANGE"]
        /\ phase' = [phase EXCEPT ![s] = IF found = NoFile THEN "idle" ELSE "loading"]
        /\ UNCHANGED <<baf, tmp, plain, saved>>
    BY DEF DoLoad, Goes, archive
  <1>2. Others(s)
    BY <1>1, ResetEffect DEF Others, TypeOK
  <1>3. /\ readOnly'[s] = ~Acquires(s)
        /\ mem'[s] = IF found = NoFile THEN <<>> ELSE found
        /\ phase'[s] = IF found = NoFile THEN "idle" ELSE "loading"
    BY <1>1 DEF TypeOK
  <1>4. HoldersAtHome'
    <2>1. CASE UNCHANGED holder BY <2>1 DEF FInv, HoldersAtHome
    <2>2. QED BY <2>1, ResetAtHome DEF FInv
  <1>5. ASSUME Writes(s)' PROVE InStep(s)'
    <2>1. Acquires(s)
      BY <1>3, <1>5 DEF Writes
    <2>2. found # NoFile /\ IsPrefixOf(saved, found)
      BY <2>1, FindsSaved
    <2>3. Loadable(m)' = found
      BY <1>1 DEF Loadable
    <2>4. phase'[s] = "loading" /\ mem'[s] = found /\ saved' = saved
      BY <1>1, <1>3, <2>2
    <2>5. IsPrefixOf(saved', mem'[s])
      BY <2>2, <2>4
    <2>6. mem'[s] = Loadable(m)'
      BY <2>3, <2>4
    <2> HIDE DEF found
    <2>7. QED BY <2>4, <2>5, <2>6 DEF InStep, Saving
  <1>6. phase[s] \notin Saving /\ phase'[s] \notin Saving
    BY <1>3 DEF Saving
  <1>7. QED BY <1>1, <1>2, <1>4, <1>5, <1>6, SoloStep DEF Others

(* A new baseline is what is in memory, and what is on disk.               *)
LEMMA WriteBaselineFInv ==
  ASSUME Orderly, FInv, TypeOK, NEW s \in Sessions, WriteBaseline(s),
         UNCHANGED <<baf, plain, mem, state>>,
         IsPrefixOf(saved', mem[s]),
         Writes(s) => mem[s] = Loadable(MachineOf[s]),
         Writes(s)' => Writes(s)
  PROVE  /\ HoldersAtHome'
         /\ phase' \in {[phase EXCEPT ![s] = "idle"], [phase EXCEPT ![s] = "cutting"]}
         /\ \A m \in Machines : m # MachineOf[s] => journal'[m] = journal[m]
         /\ Writes(s)' => InStep(s)'
  <1> DEFINE m == MachineOf[s]
  <1>1. Opens(s) /\ m \in Machines
    BY AlwaysOpens, FileAssumption DEF Orderly, FInv
  <1>2. /\ holder' = [holder EXCEPT ![m] = s]
        /\ journal' = [journal EXCEPT ![m].base = mem[s]]
        /\ phase' = [phase EXCEPT ![s] = IF journal[m].rows = <<>> THEN "idle" ELSE "cutting"]
    BY <1>1 DEF WriteBaseline, Goes
  <1>3. HoldersAtHome'
    BY <1>2, TakenAtHome DEF FInv
  <1>4. /\ journal'[m].base = mem[s] /\ journal'[m].rows = journal[m].rows
        /\ \A k \in Machines : k # m => journal'[k] = journal[k]
        /\ phase'[s] = IF journal[m].rows = <<>> THEN "idle" ELSE "cutting"
    BY <1>1, <1>2 DEF TypeOK
  <1>5. mem[s] \in Seq(Nat) /\ mem[s] # NoFile /\ journal[m].rows \in Seq(Nat)
    BY <1>1, PlainTypes
  <1>6. mem[s] \o <<>> = mem[s]
    BY <1>5, ConcatEmptySeq
  <1>7. ASSUME Writes(s)' PROVE InStep(s)'
    <2>1. mem'[s] = Loadable(m)'
      BY <1>7 DEF Loadable
    <2>2. QED BY <1>4, <1>5, <1>6, <2>1 DEF InStep, Saving
  <1>8. QED BY <1>2, <1>3, <1>4, <1>7

(* The rest of Load(): the journal is offered, or begun anew.              *)
LEMMA LoadedFInv ==
  ASSUME Orderly, FInv, LInv, TypeOK, NEW s \in Sessions, Loaded(s)
  PROVE  FInv'
  <1> DEFINE m == MachineOf[s]
  <1>1. /\ phase[s] = "loading"
        /\ UNCHANGED <<baf, tmp, plain, mem, state, readOnly, saved>>
    BY DEF Loaded, archive, session
  <1>2. Writes(s) => mem[s] = Loadable(m) /\ IsPrefixOf(saved, mem[s])
    BY <1>1 DEF FInv, InStep
  <1>3. Writes(s)' => Writes(s)
    BY <1>1 DEF Writes
  <1>4. CASE CheckBaseline(s)
    <2>1. /\ holder' = [holder EXCEPT ![m] = s]
          /\ phase' = [phase EXCEPT ![s] = "offer"]
          /\ UNCHANGED journal
      BY <1>4 DEF Loaded, Goes
    <2>2. journal[m].base = mem[s] /\ journal[m].rows # <<>>
      BY <1>4 DEF CheckBaseline
    <2>3. HoldersAtHome'
      BY <2>1, TakenAtHome DEF FInv
    <2>4. Others(s) /\ phase'[s] = "offer"
      BY <1>1, <2>1 DEF Others, TypeOK
    <2>5. Loadable(m)' = Loadable(m)
      BY <1>1 DEF Loadable
    <2>6. ASSUME Writes(s)' PROVE InStep(s)'
      <3>1. mem'[s] = Loadable(m)' /\ IsPrefixOf(saved', mem'[s])
        BY <1>1, <1>2, <1>3, <2>5, <2>6
      <3>2. QED BY <1>1, <2>1, <2>2, <2>4, <3>1 DEF InStep, Saving
    <2>7. phase[s] \notin Saving /\ phase'[s] \notin Saving
      BY <1>1, <2>4 DEF Saving
    <2>8. QED BY <1>1, <2>3, <2>4, <2>6, <2>7, SoloStep DEF Others
  <1>5. CASE ~CheckBaseline(s)
    <2>1. WriteBaseline(s)
      BY <1>5 DEF Loaded
    <2>2. CASE Writes(s)
      <3>1. /\ HoldersAtHome'
            /\ phase' \in {[phase EXCEPT ![s] = "idle"], [phase EXCEPT ![s] = "cutting"]}
            /\ \A k \in Machines : k # m => journal'[k] = journal[k]
            /\ Writes(s)' => InStep(s)'
        BY <1>1, <1>2, <1>3, <2>1, <2>2, WriteBaselineFInv
      <3>2. Others(s) /\ phase'[s] \in {"idle", "cutting"}
        BY <1>1, <3>1 DEF Others, TypeOK
      <3>3. phase[s] \notin Saving /\ phase'[s] \notin Saving
        BY <1>1, <3>2 DEF Saving
      <3>4. QED BY <1>1, <3>1, <3>2, <3>3, SoloStep DEF Others
    <2>3. CASE ~Writes(s)
      <3>1. Opens(s)
        BY AlwaysOpens DEF Orderly, FInv
      <3>2. /\ holder' = [holder EXCEPT ![m] = s]
            /\ journal' = [journal EXCEPT ![m].base = mem[s]]
            /\ phase' = [phase EXCEPT ![s] = IF journal[m].rows = <<>> THEN "idle" ELSE "cutting"]
        BY <2>1, <3>1 DEF WriteBaseline, Goes
      <3>3. HoldersAtHome'
        BY <3>2, TakenAtHome DEF FInv
      <3>4. Others(s) /\ phase'[s] \in {"idle", "cutting"}
        BY <1>1, <3>2 DEF Others, TypeOK
      <3>5. phase[s] \notin Saving /\ phase'[s] \notin Saving
        BY <1>1, <3>4 DEF Saving
      <3>6. ~Writes(s)'
        BY <1>3, <2>3
      <3>7. QED BY <1>1, <3>3, <3>4, <3>5, <3>6, SoloStep DEF Others
    <2>4. QED BY <2>2, <2>3
  <1>6. QED BY <1>4, <1>5

(* The rows of a journal are cut off when memory and disk agree.           *)
LEMMA CutFInv ==
  ASSUME Orderly, FInv, LInv, TypeOK, NEW s \in Sessions, Cut(s)
  PROVE  FInv'
  <1> DEFINE m == MachineOf[s]
  <1>1. /\ phase[s] = "cutting"
        /\ journal' = [journal EXCEPT ![m].rows = <<>>]
        /\ phase' = [phase EXCEPT ![s] = "idle"]
        /\ UNCHANGED <<baf, tmp, plain, holder, mem, state, readOnly, saved>>
    BY DEF Cut, Goes, archive, session
  <1>2. m \in Machines BY FileAssumption
  <1>3. /\ journal'[m].base = journal[m].base /\ journal'[m].rows = <<>>
        /\ phase'[s] = "idle" /\ Others(s)
    BY <1>1, <1>2 DEF Others, TypeOK
  <1>4. HoldersAtHome'
    BY <1>1 DEF FInv, HoldersAtHome
  <1>5. ASSUME Writes(s)' PROVE InStep(s)'
    <2>1. Writes(s) BY <1>1, <1>5 DEF Writes
    <2>2. mem[s] = Loadable(m) /\ journal[m].base = mem[s] /\ IsPrefixOf(saved, mem[s])
      BY <1>1, <2>1 DEF FInv, InStep
    <2>3. mem[s] \in Seq(Nat) /\ mem[s] # NoFile BY PlainTypes
    <2>4. mem[s] \o <<>> = mem[s] BY <2>3, ConcatEmptySeq
    <2>5. Loadable(m)' = Loadable(m) BY <1>1 DEF Loadable
    <2>6. IsPrefixOf(saved', mem'[s]) BY <1>1, <2>2
    <2>7. QED BY <1>1, <1>3, <2>2, <2>3, <2>4, <2>5, <2>6 DEF InStep, Saving
  <1>6. phase[s] \notin Saving /\ phase'[s] \notin Saving
    BY <1>1, <1>3 DEF Saving
  <1>7. QED BY <1>1, <1>3, <1>4, <1>5, <1>6, SoloStep DEF Others

(* After the recovery the memory is the baseline and its rows.             *)
LEMMA AcceptFInv ==
  ASSUME Orderly, FInv, LInv, TypeOK, NEW s \in Sessions, Accept(s)
  PROVE  FInv'
  <1> DEFINE m == MachineOf[s]
  <1>1. /\ phase[s] = "offer"
        /\ mem' = [mem EXCEPT ![s] = @ \o journal[m].rows]
        /\ state' = [state EXCEPT ![s] = "DIRTY"]
        /\ phase' = [phase EXCEPT ![s] = "idle"]
        /\ UNCHANGED <<baf, tmp, plain, journal, holder, readOnly, saved>>
    BY DEF Accept, Goes, archive, local
  <1>2. m \in Machines BY FileAssumption
  <1>3. /\ mem'[s] = mem[s] \o journal[m].rows /\ state'[s] = "DIRTY"
        /\ phase'[s] = "idle" /\ Others(s)
    BY <1>1 DEF Others, TypeOK
  <1>4. HoldersAtHome'
    BY <1>1 DEF FInv, HoldersAtHome
  <1>5. ASSUME Writes(s)' PROVE InStep(s)'
    <2>1. Writes(s) BY <1>1, <1>5 DEF Writes
    <2>2. mem[s] = Loadable(m) /\ journal[m].base = mem[s] /\ IsPrefixOf(saved, mem[s])
      BY <1>1, <2>1 DEF FInv, InStep
    <2>3. /\ mem[s] \in Seq(Nat) /\ mem[s] # NoFile /\ journal[m].rows \in Seq(Nat)
          /\ saved \in Seq(Nat)
      BY <1>2, PlainTypes
    <2>4. Loadable(m)' = Loadable(m) BY <1>1 DEF Loadable
    <2>5. IsPrefixOf(saved', mem'[s]) BY <1>1, <1>3, <2>2, <2>3, PrefixExtends
    <2>6. QED BY <1>1, <1>3, <2>2, <2>3, <2>4, <2>5 DEF InStep, Saving
  <1>6. phase[s] \notin Saving /\ phase'[s] \notin Saving
    BY <1>1, <1>3 DEF Saving
  <1>7. QED BY <1>1, <1>3, <1>4, <1>5, <1>6, SoloStep DEF Others

(* A change goes to the memory and to the journal.                         *)
LEMMA ChangeFInv ==
  ASSUME Orderly, FInv, LInv, TypeOK, NEW s \in Sessions, Change(s)
  PROVE  FInv'
  <1> DEFINE m == MachineOf[s]
  <1>0. Opens(s) /\ m \in Machines
    BY AlwaysOpens, FileAssumption DEF Orderly, FInv
  <1>1. /\ phase[s] = "idle" /\ ~readOnly[s] /\ made' = made + 1
        /\ mem' = [mem EXCEPT ![s] = Append(@, made')]
        /\ state' = [state EXCEPT ![s] = "DIRTY"]
        /\ holder' = [holder EXCEPT ![m] = s]
        /\ journal' = [journal EXCEPT ![m].rows = Append(@, made')]
        /\ UNCHANGED <<baf, tmp, plain, phase, readOnly, saved>>
    BY <1>0 DEF Change, Idle, archive
  <1>2. /\ mem'[s] = Append(mem[s], made') /\ state'[s] = "DIRTY"
        /\ journal'[m].base = journal[m].base
        /\ journal'[m].rows = Append(journal[m].rows, made')
        /\ Others(s)
    BY <1>0, <1>1 DEF Others, TypeOK
  <1>3. HoldersAtHome'
    BY <1>1, TakenAtHome DEF FInv
  <1>4. InStep(s)'
    <2>1. Writes(s) BY <1>1 DEF Writes
    <2>2. /\ mem[s] = journal[m].base \o journal[m].rows
          /\ journal[m].base = Loadable(m) /\ journal[m].base # NoFile
          /\ IsPrefixOf(saved, mem[s])
      BY <1>1, <2>1 DEF FInv, InStep
    <2>3. /\ mem[s] \in Seq(Nat) /\ journal[m].rows \in Seq(Nat) /\ saved \in Seq(Nat)
          /\ journal[m].base \in Seq(Nat) /\ made' \in Nat
      BY <1>0, <1>1, <2>2, PlainTypes
    <2>4. mem'[s] = journal'[m].base \o journal'[m].rows
      <3>1. journal[m].base \o Append(journal[m].rows, made')
              = Append(journal[m].base \o journal[m].rows, made')
        BY <2>3, ConcatAppendNat
      <3>2. QED BY <1>2, <2>2, <3>1
    <2>5. Loadable(m)' = Loadable(m) BY <1>1 DEF Loadable
    <2>6. IsPrefixOf(saved', mem'[s]) BY <1>1, <1>2, <2>2, <2>3, PrefixAppend
    <2>7. journal'[m].base = Loadable(m)' /\ journal'[m].base # NoFile
      BY <1>2, <2>2, <2>5
    <2>8. phase'[s] = "idle" /\ state'[s] = "DIRTY"
      BY <1>1, <1>2
    <2>9. QED BY <2>4, <2>6, <2>7, <2>8 DEF InStep, Saving
  <1>5. phase[s] \notin Saving /\ phase'[s] \notin Saving
    BY <1>1 DEF Saving
  <1>6. QED BY <1>1, <1>2, <1>3, <1>4, <1>5, SoloStep DEF Others

(* To discard changes is to load again.                                    *)
LEMMA DiscardFInv ==
  ASSUME Orderly, FInv, LInv, TypeOK, NEW s \in Sessions, Discard(s)
  PROVE  FInv'
  <1>1. Reset(s) /\ phase[s] = "idle" /\ "Discard" \in Ops
    BY DEF Discard, Idle
  <1>2. DoLoad(s)
    BY <1>1 DEF Discard, Orderly, LockIsReliable
  <1>3. QED BY <1>1, <1>2, DoLoadFInv

(* No one else is saving while a session may write.                        *)
LEMMA NoOtherSaver ==
  ASSUME Orderly, FInv, LInv, NEW s \in Sessions, Writes(s),
         NEW t \in Sessions, t # s
  PROVE  phase[t] \notin Saving
  BY SaversWrite, Alone DEF Orderly, FInv

(* Save() begins to rewrite the plain file: no one else does.              *)
LEMMA StartSaveFInv ==
  ASSUME Orderly, FInv, LInv, TypeOK, NEW s \in Sessions, StartSave(s),
         phase[s] = "idle", ~readOnly[s]
  PROVE  FInv'
  <1> DEFINE m == MachineOf[s]
  <1>1. /\ phase' = [phase EXCEPT ![s] = "writing"]
        /\ plain' = [plain EXCEPT ![m] = <<>>]
        /\ UNCHANGED <<baf, tmp, journal, holder, mem, state, readOnly, saved>>
    BY DEF StartSave, Goes, archive, Torn
  <1>2. Writes(s) /\ m \in Machines
    BY FileAssumption DEF Writes
  <1>3. \A t \in Sessions : t # s => phase[t] \notin Saving
    BY <1>2, NoOtherSaver
  <1>4. /\ \A t \in Sessions : t # s => phase'[t] = phase[t]
        /\ phase'[s] = "writing"
        /\ \A k \in Machines : k # m => plain'[k] = plain[k]
        /\ plain'[m] = <<>>
    BY <1>1, <1>2 DEF TypeOK
  <1>5. HoldersAtHome'
    BY <1>1 DEF FInv, HoldersAtHome
  <1>6. <<>> # NoFile
    <2>1. <<>> \in Seq(Nat) OBVIOUS
    <2>2. QED BY <2>1, FileAssumption, Zenon
  <1>7. InStep(s)'
    <2>1. InStep(s)
      BY <1>2 DEF FInv
    <2>2. /\ mem[s] = journal[m].base \o journal[m].rows
          /\ journal[m].base # NoFile
          /\ IsPrefixOf(saved, mem[s])
      BY <2>1 DEF InStep
    <2>3. /\ mem'[s] = journal'[m].base \o journal'[m].rows
          /\ journal'[m].base # NoFile
          /\ IsPrefixOf(saved, mem[s])'
      BY <1>1, <2>2
    <2>4. QED BY <1>4, <2>3 DEF InStep, Saving
  <1>8. DiskInv'
    <2>1. DiskInv BY DEF FInv
    <2>2. Network => baf # NoFile
      BY <1>3, <2>1 DEF DiskInv, Saving
    <2>3. \A k \in Machines : Loadable(k) # NoFile => Loadable(k)' # NoFile
      BY <1>1, <1>4, <1>6 DEF Loadable
    <2>4. Network => \A k \in Machines : plain'[k] # NoFile =>
            \E t \in Sessions : /\ MachineOf[t] = k
                                /\ phase'[t] \in {"writing", "packing", "renaming", "packed"}
      BY <1>3, <1>4, <2>1 DEF DiskInv
    <2>5. \A k \in Machines : plain'[k] # NoFile =>
            \/ IsPrefixOf(saved, plain'[k])
            \/ \E t \in Sessions : MachineOf[t] = k /\ phase'[t] = "writing"
      BY <1>3, <1>4, <2>1 DEF DiskInv, Saving
    <2>6. \A t \in Sessions : phase'[t] \in Saving => ~readOnly'[t]
      BY <1>1, <1>4, <2>1 DEF DiskInv
    <2>7. QED BY <1>1, <2>1, <2>2, <2>3, <2>4, <2>5, <2>6 DEF DiskInv
  <1>9. QED BY <1>1, <1>2, <1>4, <1>5, <1>7, <1>8, SaverStep

(* The plain file holds what is in memory.                                 *)
LEMMA WriteFInv ==
  ASSUME Orderly, FInv, LInv, TypeOK, NEW s \in Sessions, Write(s)
  PROVE  FInv'
  <1> DEFINE m == MachineOf[s]
  <1>1. /\ phase[s] = "writing"
        /\ phase' = [phase EXCEPT ![s] = "packing"]
        /\ plain' = [plain EXCEPT ![m] = mem[s]]
        /\ UNCHANGED <<baf, tmp, journal, holder, mem, state, readOnly, saved>>
    BY DEF Write, Goes, archive, session, Orderly
  <1>2. Writes(s) /\ m \in Machines
    BY <1>1, SaversWrite, FileAssumption DEF FInv, Saving
  <1>3. \A t \in Sessions : t # s => phase[t] \notin Saving
    BY <1>2, NoOtherSaver
  <1>4. /\ \A t \in Sessions : t # s => phase'[t] = phase[t]
        /\ phase'[s] = "packing"
        /\ \A k \in Machines : k # m => plain'[k] = plain[k]
        /\ plain'[m] = mem[s]
    BY <1>1, <1>2 DEF TypeOK
  <1>5. HoldersAtHome'
    BY <1>1 DEF FInv, HoldersAtHome
  <1>6. mem[s] # NoFile
    BY PlainTypes
  <1>7. InStep(s) /\ IsPrefixOf(saved, mem[s])
    BY <1>2 DEF FInv, InStep
  <1>8. InStep(s)'
    BY <1>1, <1>4, <1>7 DEF InStep, Saving
  <1>9. DiskInv'
    <2>1. DiskInv BY DEF FInv
    <2>2. Network => baf # NoFile
      BY <1>1, <1>3, <2>1 DEF DiskInv, Saving
    <2>3. \A k \in Machines : Loadable(k) # NoFile => Loadable(k)' # NoFile
      BY <1>1, <1>4, <1>6 DEF Loadable
    <2>4. Network => \A k \in Machines : plain'[k] # NoFile =>
            \E t \in Sessions : /\ MachineOf[t] = k
                                /\ phase'[t] \in {"writing", "packing", "renaming", "packed"}
      BY <1>3, <1>4, <2>1 DEF DiskInv
    <2>5. \A k \in Machines : plain'[k] # NoFile => IsPrefixOf(saved, plain'[k])
      <3>1. \A k \in Machines : k # m /\ plain[k] # NoFile => IsPrefixOf(saved, plain[k])
        BY <1>1, <1>3, <2>1 DEF DiskInv, Saving
      <3>2. QED BY <1>4, <1>7, <3>1
    <2>6. \A t \in Sessions : phase'[t] \in Saving => ~readOnly'[t]
      BY <1>1, <1>2, <1>4, <2>1 DEF DiskInv, Writes
    <2>7. QED BY <1>1, <2>1, <2>2, <2>3, <2>4, <2>5, <2>6 DEF DiskInv
  <1>10. QED BY <1>1, <1>2, <1>4, <1>5, <1>8, <1>9, SaverStep

(* The old archive goes, the plain file is still there.                    *)
LEMMA PackFInv ==
  ASSUME Orderly, FInv, LInv, TypeOK, NEW s \in Sessions, Pack(s)
  PROVE  FInv'
  <1> DEFINE m == MachineOf[s]
  <1>1. /\ phase[s] = "packing" /\ plain[m] # NoFile
        /\ phase' = [phase EXCEPT ![s] = "renaming"]
        /\ tmp' = plain[m] /\ baf' = NoFile
        /\ UNCHANGED <<plain, journal, holder, mem, state, readOnly, saved>>
    <2>1. "Sharing" \notin Ops
      BY DEF Orderly
    <2>2. ~BeingRead
      BY <2>1 DEF Pack
    <2>3. QED BY <2>2 DEF Pack, Goes, local, session
  <1>2. Writes(s) /\ m \in Machines
    BY <1>1, SaversWrite, FileAssumption DEF FInv, Saving
  <1>3. \A t \in Sessions : t # s => phase[t] \notin Saving
    BY <1>2, NoOtherSaver
  <1>4. /\ \A t \in Sessions : t # s => phase'[t] = phase[t]
        /\ phase'[s] = "renaming"
    BY <1>1, <1>2 DEF TypeOK
  <1>5. HoldersAtHome'
    BY <1>1 DEF FInv, HoldersAtHome
  <1>6. InStep(s)
    BY <1>2 DEF FInv
  <1>7. InStep(s)'
    BY <1>1, <1>4, <1>6 DEF InStep, Saving
  <1>8. DiskInv'
    <2>1. DiskInv BY DEF FInv
    <2>2. ~Network => \A k \in Machines : Loadable(k)' # NoFile
      BY <1>1, <1>2, FileAssumption DEF Loadable
    <2>3. Network => \A k \in Machines : plain'[k] # NoFile =>
            \E t \in Sessions : /\ MachineOf[t] = k
                                /\ phase'[t] \in {"writing", "packing", "renaming", "packed"}
      BY <1>1, <1>3, <1>4, <2>1 DEF DiskInv
    <2>4. \A k \in Machines : plain'[k] # NoFile =>
            \/ IsPrefixOf(saved, plain'[k])
            \/ \E t \in Sessions : MachineOf[t] = k /\ phase'[t] = "writing"
      BY <1>1, <1>4, <2>1 DEF DiskInv
    <2>5. \A t \in Sessions : phase'[t] \in Saving => ~readOnly'[t]
      BY <1>1, <1>2, <1>4, <2>1 DEF DiskInv, Writes
    <2>6. QED BY <1>1, <1>4, <2>2, <2>3, <2>4, <2>5 DEF DiskInv
  <1>9. QED BY <1>1, <1>2, <1>4, <1>5, <1>7, <1>8, SaverStep

(* The new archive comes, the plain file is still there.                   *)
LEMMA RenameFInv ==
  ASSUME Orderly, FInv, LInv, TypeOK, NEW s \in Sessions, Rename(s)
  PROVE  FInv'
  <1> DEFINE m == MachineOf[s]
  <1>1. /\ phase[s] = "renaming"
        /\ phase' = [phase EXCEPT ![s] = "packed"]
        /\ baf' = tmp
        /\ UNCHANGED <<plain, journal, holder, mem, state, readOnly, saved>>
    BY DEF Rename, Goes, local, session
  <1>2. Writes(s) /\ m \in Machines
    BY <1>1, SaversWrite, FileAssumption DEF FInv, Saving
  <1>3. \A t \in Sessions : t # s => phase[t] \notin Saving
    BY <1>2, NoOtherSaver
  <1>4. /\ \A t \in Sessions : t # s => phase'[t] = phase[t]
        /\ phase'[s] = "packed"
    BY <1>1, <1>2 DEF TypeOK
  <1>5. HoldersAtHome'
    BY <1>1 DEF FInv, HoldersAtHome
  <1>6. InStep(s) /\ tmp = mem[s] /\ IsPrefixOf(saved, mem[s]) /\ mem[s] # NoFile
    BY <1>1, <1>2, PlainTypes DEF FInv, InStep
  <1>7. InStep(s)'
    BY <1>1, <1>4, <1>6 DEF InStep, Saving
  <1>8. DiskInv'
    <2>1. DiskInv BY DEF FInv
    <2>2. \A k \in Machines : Loadable(k)' # NoFile
      BY <1>1, <1>6 DEF Loadable
    <2>3. Network => \A k \in Machines : plain'[k] # NoFile =>
            \E t \in Sessions : /\ MachineOf[t] = k
                                /\ phase'[t] \in {"writing", "packing", "renaming", "packed"}
      BY <1>1, <1>3, <1>4, <2>1 DEF DiskInv
    <2>4. \A k \in Machines : plain'[k] # NoFile =>
            \/ IsPrefixOf(saved, plain'[k])
            \/ \E t \in Sessions : MachineOf[t] = k /\ phase'[t] = "writing"
      BY <1>1, <1>4, <2>1 DEF DiskInv
    <2>5. \A t \in Sessions : phase'[t] \in Saving => ~readOnly'[t]
      BY <1>1, <1>2, <1>4, <2>1 DEF DiskInv, Writes
    <2>6. QED BY <1>1, <1>6, <2>2, <2>3, <2>4, <2>5 DEF DiskInv
  <1>9. QED BY <1>1, <1>2, <1>4, <1>5, <1>7, <1>8, SaverStep

(* The plain file goes when the archive has what it had.                   *)
LEMMA UnplainFInv ==
  ASSUME Orderly, FInv, LInv, TypeOK, NEW s \in Sessions, Unplain(s)
  PROVE  FInv'
  <1> DEFINE m == MachineOf[s]
  <1>1. /\ phase[s] = "packed"
        /\ phase' = [phase EXCEPT ![s] = "confirmed"]
        /\ plain' = [plain EXCEPT ![m] = NoFile]
        /\ UNCHANGED <<baf, tmp, journal, holder, mem, state, readOnly, saved>>
    BY DEF Unplain, Goes, archive, session
  <1>2. Writes(s) /\ m \in Machines
    BY <1>1, SaversWrite, FileAssumption DEF FInv, Saving
  <1>3. \A t \in Sessions : t # s => phase[t] \notin Saving
    BY <1>2, NoOtherSaver
  <1>4. /\ \A t \in Sessions : t # s => phase'[t] = phase[t]
        /\ phase'[s] = "confirmed"
        /\ \A k \in Machines : k # m => plain'[k] = plain[k]
        /\ plain'[m] = NoFile
    BY <1>1, <1>2 DEF TypeOK
  <1>5. HoldersAtHome'
    BY <1>1 DEF FInv, HoldersAtHome
  <1>6. InStep(s) /\ baf = mem[s] /\ mem[s] # NoFile
    BY <1>1, <1>2, PlainTypes DEF FInv, InStep
  <1>7. InStep(s)'
    BY <1>1, <1>4, <1>6 DEF InStep, Saving
  <1>8. DiskInv'
    <2>1. DiskInv BY DEF FInv
    <2>2. \A k \in Machines : Loadable(k)' # NoFile
      BY <1>1, <1>6 DEF Loadable
    <2>3. Network => \A k \in Machines : plain'[k] # NoFile =>
            \E t \in Sessions : /\ MachineOf[t] = k
                                /\ phase'[t] \in {"writing", "packing", "renaming", "packed"}
      BY <1>1, <1>4, <2>1 DEF DiskInv
    <2>4. \A k \in Machines : plain'[k] # NoFile => IsPrefixOf(saved, plain'[k])
      BY <1>1, <1>3, <1>4, <2>1 DEF DiskInv, Saving
    <2>5. \A t \in Sessions : phase'[t] \in Saving => ~readOnly'[t]
      BY <1>1, <1>2, <1>4, <2>1 DEF DiskInv, Writes
    <2>6. QED BY <1>1, <1>6, <2>1, <2>2, <2>3, <2>4, <2>5 DEF DiskInv
  <1>9. QED BY <1>1, <1>2, <1>4, <1>5, <1>7, <1>8, SaverStep

(* The end of Save(): what is in the archive is what was saved.            *)
LEMMA ConfirmFInv ==
  ASSUME Orderly, FInv, LInv, TypeOK, NEW s \in Sessions, Confirm(s)
  PROVE  FInv'
  <1> DEFINE m == MachineOf[s]
  <1>1. /\ phase[s] = "confirmed" /\ WriteBaseline(s) /\ saved' = mem[s]
        /\ state' = [state EXCEPT ![s] = "NO_CHANGE"]
        /\ UNCHANGED <<baf, tmp, plain, mem, readOnly>>
    BY DEF Confirm, archive
  <1>2. Writes(s) /\ m \in Machines
    BY <1>1, SaversWrite, FileAssumption DEF FInv, Saving
  <1>3. \A t \in Sessions : t # s => phase[t] \notin Saving
    BY <1>2, NoOtherSaver
  <1>4. InStep(s) /\ baf = mem[s] /\ plain[m] = NoFile
    BY <1>1, <1>2 DEF FInv, InStep
  <1>5. /\ mem[s] \in Seq(Nat) /\ mem[s] # NoFile /\ journal[m].rows \in Seq(Nat)
        /\ IsPrefixOf(mem[s], mem[s]) /\ mem[s] \o <<>> = mem[s]
    BY <1>2, PlainTypes, PrefixOfItself, ConcatEmptySeq
  <1>6. Opens(s)
    BY AlwaysOpens DEF Orderly, FInv
  <1>7. /\ holder' = [holder EXCEPT ![m] = s]
        /\ journal' = [journal EXCEPT ![m].base = mem[s]]
        /\ phase' = [phase EXCEPT ![s] = IF journal[m].rows = <<>> THEN "idle" ELSE "cutting"]
    BY <1>1, <1>6 DEF WriteBaseline, Goes
  <1>8. /\ journal'[m].base = mem[s] /\ journal'[m].rows = journal[m].rows
        /\ \A t \in Sessions : t # s => phase'[t] = phase[t]
        /\ phase'[s] = IF journal[m].rows = <<>> THEN "idle" ELSE "cutting"
    BY <1>2, <1>7 DEF TypeOK
  <1>9. HoldersAtHome'
    BY <1>7, TakenAtHome DEF FInv
  <1>10. mem'[s] = Loadable(m)'
    BY <1>1, <1>4 DEF Loadable
  <1>11. InStep(s)'
    BY <1>1, <1>5, <1>8, <1>10 DEF InStep, Saving
  <1>12. \A k \in Machines : plain[k] = NoFile
    <2>1. CASE Network
      BY <1>1, <1>3, <2>1 DEF FInv, DiskInv, Saving
    <2>2. CASE ~Network
      BY <1>2, <1>4, <2>2, FileAssumption
    <2>3. QED BY <2>1, <2>2
  <1>13. DiskInv'
    <2>1. \A k \in Machines : Loadable(k)' # NoFile
      BY <1>1, <1>4, <1>5 DEF Loadable
    <2>2. \A t \in Sessions : phase'[t] \notin Saving
      BY <1>3, <1>8 DEF Saving
    <2>3. baf' # NoFile /\ IsPrefixOf(saved', baf') /\ \A k \in Machines : plain'[k] = NoFile
      BY <1>1, <1>4, <1>5, <1>12
    <2>4. QED BY <2>1, <2>2, <2>3 DEF DiskInv
  <1>14. QED BY <1>1, <1>2, <1>8, <1>9, <1>11, <1>13, SaverStep

(* A process that ends outside of a save takes nothing with it.            *)
LEMMA GoneFInv ==
  ASSUME Orderly, FInv, LInv, TypeOK, NEW s \in Sessions, Gone(s),
         phase[s] \notin Saving,
         \A m \in Machines : m # MachineOf[s] => journal'[m] = journal[m],
         HoldersAtHome'
  PROVE  FInv'
  <1>1. /\ phase' = [phase EXCEPT ![s] = "down"]
        /\ mem' = [mem EXCEPT ![s] = <<>>]
        /\ state' = [state EXCEPT ![s] = "EMPTY"]
        /\ readOnly' = [readOnly EXCEPT ![s] = FALSE]
        /\ UNCHANGED <<baf, tmp, plain, saved>>
    BY DEF Gone, Goes, archive
  <1>2. Others(s) /\ phase'[s] = "down"
    BY <1>1 DEF Others, TypeOK
  <1>3. ~Writes(s)' /\ phase'[s] \notin Saving
    BY <1>2 DEF Writes, Saving
  <1>4. QED BY <1>1, <1>2, <1>3, SoloStep DEF Others

(* To leave is to end, or to save first.                                   *)
LEMMA ExitFInv ==
  ASSUME Orderly, FInv, LInv, TypeOK, NEW s \in Sessions, Exit(s)
  PROVE  FInv'
  <1>1. \/ Reset(s) /\ Gone(s) /\ phase[s] \in {"idle", "refused"}
        \/ StartSave(s) /\ phase[s] = "idle" /\ ~readOnly[s]
    BY DEF Exit, Idle, MayAsk
  <1>2. CASE Reset(s) /\ Gone(s) /\ phase[s] \in {"idle", "refused"}
    <2>1. HoldersAtHome'
      BY <1>2, ResetAtHome DEF FInv
    <2>2. \A m \in Machines : m # MachineOf[s] => journal'[m] = journal[m]
      BY <1>2 DEF Reset, TypeOK
    <2>3. phase[s] \notin Saving
      BY <1>2 DEF Saving
    <2>4. QED BY <1>2, <2>1, <2>2, <2>3, GoneFInv
  <1>3. CASE StartSave(s) /\ phase[s] = "idle" /\ ~readOnly[s]
    BY <1>3, StartSaveFInv
  <1>4. QED BY <1>1, <1>2, <1>3

(* A session that is killed in a save leaves its data in one of the files. *)
LEMMA CrashFInv ==
  ASSUME Orderly, FInv, LInv, TypeOK, NEW s \in Sessions, Crash(s)
  PROVE  FInv'
  <1> DEFINE m == MachineOf[s]
  <1>1. /\ phase[s] \in CrashIn /\ Gone(s) /\ UNCHANGED journal
        /\ holder' = [k \in Machines |-> IF holder[k] = s THEN Nobody ELSE holder[k]]
    BY DEF Crash
  <1>2. HoldersAtHome'
    BY <1>1 DEF FInv, HoldersAtHome
  <1>3. CASE phase[s] \notin Saving
    BY <1>1, <1>2, <1>3, GoneFInv
  <1>4. CASE phase[s] \in Saving
    <2>1. /\ phase' = [phase EXCEPT ![s] = "down"]
          /\ readOnly' = [readOnly EXCEPT ![s] = FALSE]
          /\ UNCHANGED <<baf, tmp, plain, saved>>
      BY <1>1 DEF Gone, Goes, archive
    <2>2. /\ \A t \in Sessions : t # s => phase'[t] = phase[t] /\ readOnly'[t] = readOnly[t]
          /\ phase'[s] = "down"
      BY <2>1 DEF TypeOK
    <2>3. Writes(s) /\ m \in Machines /\ InStep(s)
      BY <1>4, SaversWrite, FileAssumption DEF FInv
    <2>4. \A t \in Sessions : t # s => phase[t] \notin Saving
      BY <2>3, NoOtherSaver
    <2>5. phase[s] # "writing" /\ (Network => phase[s] = "confirmed")
      BY <1>1, <1>4 DEF Orderly, Saving
    <2>6. DiskInv BY DEF FInv
    <2>7. Network => baf # NoFile
      BY <2>4, <2>5, <2>6 DEF DiskInv, Saving
    <2>8. Network => \A k \in Machines : plain[k] = NoFile
      BY <2>4, <2>5, <2>6 DEF DiskInv, Saving
    <2>9. \A k \in Machines : plain[k] # NoFile => IsPrefixOf(saved, plain[k])
      BY <2>4, <2>5, <2>6 DEF DiskInv, Saving
    <2>10. \A k \in Machines : Loadable(k)' = Loadable(k)
      BY <2>1 DEF Loadable
    <2>11. \A t \in Sessions : phase'[t] \notin Saving
      BY <2>2, <2>4 DEF Saving
    <2>12. DiskInv'
      BY <2>1, <2>6, <2>7, <2>8, <2>9, <2>10, <2>11 DEF DiskInv
    <2>13. ~Writes(s)'
      BY <2>2 DEF Writes
    <2>14. QED BY <1>2, <2>2, <2>3, <2>12, <2>13, SaverStep
  <1>5. QED BY <1>3, <1>4

(* A session without the network folder has nothing.                       *)
LEMMA RefuseFInv ==
  ASSUME Orderly, FInv, LInv, TypeOK, NEW s \in Sessions, Refuse(s)
  PROVE  FInv'
  <1>1. /\ phase[s] = "down"
        /\ phase' = [phase EXCEPT ![s] = "refused"]
        /\ UNCHANGED <<baf, tmp, plain, journal, holder, mem, state, readOnly, saved>>
    BY DEF Refuse, Goes, archive, local, session
  <1>2. Others(s) /\ phase'[s] = "refused"
    BY <1>1 DEF Others, TypeOK
  <1>3. HoldersAtHome'
    BY <1>1 DEF FInv, HoldersAtHome
  <1>4. ~Writes(s)' /\ phase[s] \notin Saving /\ phase'[s] \notin Saving
    BY <1>1, <1>2 DEF Writes, Saving
  <1>5. QED BY <1>1, <1>2, <1>3, <1>4, SoloStep DEF Others

(* ZipSave() finds the plain file that it packs.                           *)
LEMMA PackSucceeds ==
  ASSUME Orderly, FInv, TypeOK, NEW s \in Sessions
  PROVE  ~PackFails(s)
  <1> SUFFICES ASSUME PackFails(s) PROVE FALSE
    OBVIOUS
  <1>1. phase[s] = "packing" /\ plain[MachineOf[s]] = NoFile
    BY DEF PackFails, Orderly
  <1>2. InStep(s)
    BY <1>1, SaversWrite DEF FInv, Saving
  <1>3. plain[MachineOf[s]] = mem[s] /\ mem[s] # NoFile
    BY <1>1, <1>2, PlainTypes DEF InStep
  <1>4. QED BY <1>1, <1>3

(* Every step keeps the invariant, one action after another.               *)
LEMMA FInvNext ==
  ASSUME Orderly, FInv, LInv, TypeOK, [Next]_vars
  PROVE  FInv'
  <1>1. CASE UNCHANGED vars
    <2>1. UNCHANGED <<baf, tmp, plain, journal, holder, phase, mem, state, readOnly, saved>>
      BY <1>1 DEF vars
    <2>2. HoldersAtHome'
      BY <2>1 DEF FInv, HoldersAtHome
    <2>3. \A s \in Sessions : Writes(s)' => InStep(s)'
      BY <2>1 DEF FInv, Writes, InStep, Loadable
    <2>4. \A m \in Machines : Loadable(m)' = Loadable(m)
      BY <2>1 DEF Loadable
    <2>5. DiskInv'
      BY <2>1, <2>4 DEF FInv, DiskInv
    <2>6. QED BY <2>2, <2>3, <2>5 DEF FInv
  <1>2. ASSUME NEW s \in Sessions, Launch(s) PROVE FInv'
    BY <1>2, DoLoadFInv DEF Launch
  <1>3. ASSUME NEW s \in Sessions, Decline(s) PROVE FInv'
    BY <1>3 DEF Decline, Orderly
  <1>4. ASSUME NEW s \in Sessions, Save(s) PROVE FInv'
    BY <1>4, StartSaveFInv DEF Save, Idle
  <1>5. CASE Next
    BY <1>2, <1>3, <1>4, <1>5, RefuseFInv, LoadedFInv, CutFInv, AcceptFInv,
       ChangeFInv, DiscardFInv, WriteFInv, PackSucceeds, PackFInv, RenameFInv,
       UnplainFInv, ConfirmFInv, ExitFInv, CrashFInv DEF Next
  <1>6. QED BY <1>1, <1>5

-----------------------------------------------------------------------------
(* With the types, the lock and the files together the invariant stands on *)
(* its own.                                                                *)
LEMMA FilesHold ==
  ASSUME Orderly PROVE Spec => [](TypeOK /\ FInv)
  <1>1. LockIsReliable
    BY DEF Orderly
  <1>2. Init => LInv /\ FInv
    BY LInvInit, FInit
  <1>3. LInv /\ FInv /\ TypeOK /\ [Next]_vars => LInv' /\ FInv'
    BY <1>1, LInvNext, FInvNext
  <1>4. QED BY <1>2, <1>3, TypesHold, PTL DEF Spec

(* What follows the baseline in the memory is not there when the baseline  *)
(* is all of it.                                                           *)
LEMMA NothingFollows ==
  ASSUME NEW c \in Seq(Nat), NEW r \in Seq(Nat), c = c \o r
  PROVE  r = <<>>
  <1>1. Len(c) \in Nat /\ Len(r) \in Nat /\ Len(c \o r) = Len(c) + Len(r)
    BY LenProperties, ConcatProperties
  <1>2. Len(r) = 0
    BY <1>1
  <1>3. QED BY <1>2, EmptySeq

(* What would be recovered is what is in memory, once it has been loaded   *)
(* and except while the plain file is rewritten.                           *)
LEMMA MemoryIsRecovered ==
  ASSUME FInv, TypeOK, NEW s \in Sessions, Writes(s),
         phase[s] \in {"idle"} \cup Saving, phase[s] # "writing"
  PROVE  Recovered(MachineOf[s]) = mem[s]
  <1> DEFINE m == MachineOf[s]
  <1>1. m \in Machines /\ InStep(s)
    BY FileAssumption DEF FInv
  <1>2. mem[s] = journal[m].base \o journal[m].rows /\ journal[m].base # NoFile
    BY <1>1 DEF InStep
  <1>3. /\ mem[s] \in Seq(Nat) /\ mem[s] # NoFile
        /\ journal[m].base \in Seq(Nat) /\ journal[m].rows \in Seq(Nat)
    BY <1>1, <1>2, PlainTypes
  <1>4. CASE phase[s] = "idle"
    <2>1. journal[m].base = Loadable(m)
      BY <1>1, <1>4 DEF InStep
    <2>2. CASE journal[m].rows = <<>>
      <3>1. mem[s] = Loadable(m)
        BY <1>2, <1>3, <2>1, <2>2, ConcatEmptySeq
      <3>2. QED BY <2>2, <3>1 DEF Recovered, Pending
    <2>3. CASE journal[m].rows # <<>>
      <3>1. Pending(m)
        BY <1>2, <2>1, <2>3 DEF Pending
      <3>2. QED BY <1>2, <2>1, <3>1 DEF Recovered
    <2>4. QED BY <2>2, <2>3
  <1>5. CASE phase[s] # "idle"
    <2>1. Loadable(m) = mem[s]
      <3>1. CASE phase[s] = "confirmed"
        BY <1>1, <3>1 DEF InStep, Loadable
      <3>2. CASE phase[s] \in {"packing", "renaming", "packed"}
        BY <1>1, <1>3, <3>2 DEF InStep, Loadable
      <3>3. QED BY <1>5, <3>1, <3>2 DEF Saving
    <2>2. ~Pending(m)
      BY <1>2, <1>3, <2>1, NothingFollows DEF Pending
    <2>3. QED BY <2>1, <2>2 DEF Recovered
  <1>6. QED BY <1>4, <1>5

(* Whatever a session has in memory can be had again if it is killed now   *)
(* (order of the steps of Save(): WorkSurvives).                           *)
THEOREM WorkSurvivesCrashes ==
  ASSUME Orderly PROVE Spec => []WorkSurvives
  <1>1. TypeOK /\ FInv => WorkSurvives
    BY MemoryIsRecovered DEF WorkSurvives
  <1>2. QED BY <1>1, FilesHold, PTL

(* A session that may write builds on what was last saved, by whomever     *)
(* (the lock taken before the file is read in DoLoad(): NoLostUpdate).     *)
THEOREM NoUpdateIsLost ==
  ASSUME Orderly PROVE Spec => []NoLostUpdate
  <1>1. FInv => NoLostUpdate
    BY DEF FInv, InStep, NoLostUpdate
  <1>2. QED BY <1>1, FilesHold, PTL

(* While no save is under way, what was last reported saved is on disk for *)
(* every machine to load (Save() up to its return value: SavedIsKept).     *)
THEOREM WhatWasSavedIsKept ==
  ASSUME Orderly PROVE Spec => []SavedIsKept
  <1>1. FInv => SavedIsKept
    <2> SUFFICES ASSUME FInv, \A s \in Sessions : phase[s] \notin Saving,
                        NEW m \in Machines
                 PROVE  IsPrefixOf(saved, Loadable(m))
      BY DEF SavedIsKept
    <2>1. DiskInv
      BY DEF FInv
    <2>2. Loadable(m) # NoFile
      <3>1. CASE Network
        <4>1. baf # NoFile
          BY <2>1, <3>1 DEF DiskInv, Saving
        <4>2. QED BY <4>1 DEF Loadable
      <3>2. QED BY <2>1, <3>1 DEF DiskInv
    <2>3. plain[m] # NoFile => IsPrefixOf(saved, plain[m])
      BY <2>1 DEF DiskInv, Saving
    <2>4. baf # NoFile => IsPrefixOf(saved, baf)
      BY <2>1 DEF DiskInv
    <2>5. QED BY <2>2, <2>3, <2>4 DEF Loadable
  <1>2. QED BY <1>1, FilesHold, PTL

-----------------------------------------------------------------------------
(* Without a network folder every session that runs may write.             *)
AllMayWrite == \A s \in Sessions : phase[s] # "refused" /\ ~readOnly[s]

(* Only DoLoad() may take away the right to write, and it does not.        *)
LEMMA AllMayWriteNext ==
  ASSUME ~Network, TypeOK, AllMayWrite, [Next]_vars
  PROVE  AllMayWrite'
  <1>1. CASE UNCHANGED vars
    BY <1>1 DEF vars, AllMayWrite
  <1>2. ASSUME NEW s \in Sessions, DoLoad(s) PROVE AllMayWrite'
    <2>1. Acquires(s)
      BY DEF Acquires
    <2>2. /\ readOnly' = [readOnly EXCEPT ![s] = FALSE]
          /\ \E p \in {"idle", "loading"} : phase' = [phase EXCEPT ![s] = p]
      BY <1>2, <2>1 DEF DoLoad, Goes
    <2>3. QED BY <2>2 DEF AllMayWrite, TypeOK
  <1>3. ASSUME NEW s \in Sessions, WriteBaseline(s), UNCHANGED readOnly
        PROVE  AllMayWrite'
    <2>1. \E p \in {"idle", "cutting"} : phase' = [phase EXCEPT ![s] = p]
      BY <1>3 DEF WriteBaseline, Goes
    <2>2. QED BY <1>3, <2>1 DEF AllMayWrite, TypeOK
  <1>4. ASSUME NEW s \in Sessions, Gone(s) PROVE AllMayWrite'
    BY <1>4 DEF Gone, Goes, AllMayWrite, TypeOK
  <1>5. ASSUME NEW s \in Sessions, StartSave(s) PROVE AllMayWrite'
    BY <1>5 DEF StartSave, Goes, AllMayWrite, TypeOK
  <1>6. ASSUME NEW s \in Sessions,
               \E p \in Phases \ {"refused"} : phase' = [phase EXCEPT ![s] = p],
               UNCHANGED readOnly
        PROVE  AllMayWrite'
    BY <1>6 DEF AllMayWrite, TypeOK
  <1>7. ASSUME NEW s \in Sessions,
               \/ Launch(s) \/ Discard(s) \/ Confirm(s) \/ Exit(s) \/ Crash(s)
               \/ Save(s)
        PROVE  AllMayWrite'
    BY <1>2, <1>3, <1>4, <1>5, <1>7
      DEF Launch, Discard, Confirm, Exit, Crash, Save
  <1>8. ASSUME NEW s \in Sessions, Loaded(s) PROVE AllMayWrite'
    <2>1. UNCHANGED readOnly
      BY <1>8 DEF Loaded, session
    <2>2. CASE WriteBaseline(s)
      BY <1>3, <2>1, <2>2
    <2>3. CASE Goes(s, "offer")
      BY <1>6, <2>1, <2>3 DEF Goes, Phases
    <2>4. QED BY <1>8, <2>2, <2>3 DEF Loaded
  <1>9. ASSUME NEW s \in Sessions,
               \/ Cut(s) \/ Accept(s) \/ Decline(s) \/ Write(s) \/ PackFails(s)
               \/ Pack(s) \/ Rename(s) \/ Unplain(s)
        PROVE  AllMayWrite'
    <2>1. UNCHANGED readOnly
      BY <1>9 DEF Cut, Accept, Decline, Write, PackFails, Pack, Rename,
                  Unplain, session
    <2>2. \E p \in Phases \ {"refused"} : phase' = [phase EXCEPT ![s] = p]
      BY <1>9 DEF Cut, Accept, Decline, Write, PackFails, Pack, Rename,
                  Unplain, Goes, Phases, Saving
    <2>3. QED BY <1>6, <2>1, <2>2
  <1>10. ASSUME NEW s \in Sessions, Refuse(s) \/ Change(s) PROVE AllMayWrite'
    BY <1>10 DEF Refuse, Change, AllMayWrite
  <1>11. CASE Next
    BY <1>7, <1>8, <1>9, <1>10, <1>11 DEF Next
  <1>12. QED BY <1>1, <1>11

(* The invariants of a database on one machine.                            *)
LEMMA LocalHolds ==
  ASSUME Orderly, ~Network PROVE Spec => [](TypeOK /\ FInv /\ AllMayWrite)
  <1>1. Init => AllMayWrite
    BY DEF Init, AllMayWrite
  <1>2. QED BY <1>1, AllMayWriteNext, TypesHold, FilesHold, PTL DEF Spec

(* Who leaves has the journal of an idle session that may write: when      *)
(* something could be recovered, its data are changed.                     *)
LEMMA LeaversAreAsked ==
  ASSUME FInv, TypeOK, AllMayWrite, NEW s \in Sessions,
         phase[s] = "idle", Pending(MachineOf[s])
  PROVE  MayAsk(s)
  <1>1. ~readOnly[s] /\ InStep(s)
    BY DEF FInv, AllMayWrite, Writes
  <1>2. journal[MachineOf[s]].rows # <<>>
    BY DEF Pending
  <1>3. QED BY <1>1, <1>2 DEF InStep, MayAsk

(* Only the end of a process, with its journal deleted or kept, makes a    *)
(* session go down.                                                        *)
LEMMA WhoGoesDown ==
  ASSUME TypeOK, [Next]_vars, NEW s \in Sessions,
         phase[s] # "down", phase'[s] = "down"
  PROVE  (Exit(s) /\ Gone(s)) \/ Crash(s)
  <1>1. ASSUME NEW t \in Sessions, NEW p \in Phases \ {"down"},
               phase' = [phase EXCEPT ![t] = p]
        PROVE  FALSE
    BY <1>1 DEF TypeOK
  <1>2. phase' # phase
    OBVIOUS
  <1>3. ASSUME NEW t \in Sessions, WriteBaseline(t) PROVE FALSE
    <2>1. \E p \in {"idle", "cutting"} : phase' = [phase EXCEPT ![t] = p]
      BY <1>3 DEF WriteBaseline, Goes
    <2>2. QED BY <1>1, <2>1 DEF Phases
  <1>4. ASSUME NEW t \in Sessions, DoLoad(t) PROVE FALSE
    <2>1. \E p \in {"idle", "loading"} : phase' = [phase EXCEPT ![t] = p]
      BY <1>4 DEF DoLoad, Goes
    <2>2. QED BY <1>1, <2>1 DEF Phases
  <1>5. ASSUME NEW t \in Sessions, StartSave(t) PROVE FALSE
    BY <1>1, <1>5 DEF StartSave, Goes, Phases, Saving
  <1>6. ASSUME NEW t \in Sessions, Gone(t) PROVE t = s
    BY <1>6 DEF Gone, Goes, TypeOK
  <1>7. ASSUME NEW t \in Sessions,
               \/ Launch(t) \/ Discard(t) \/ Confirm(t) \/ Save(t)
        PROVE  FALSE
    BY <1>2, <1>3, <1>4, <1>5, <1>7 DEF Launch, Discard, Confirm, Save
  <1>8. ASSUME NEW t \in Sessions, Loaded(t) PROVE FALSE
    <2>1. CASE WriteBaseline(t)
      BY <1>3, <2>1
    <2>2. CASE Goes(t, "offer")
      BY <1>1, <2>2 DEF Goes, Phases
    <2>3. QED BY <1>8, <2>1, <2>2 DEF Loaded
  <1>9. ASSUME NEW t \in Sessions,
               \/ Cut(t) \/ Accept(t) \/ Decline(t) \/ Write(t) \/ PackFails(t)
               \/ Pack(t) \/ Rename(t) \/ Unplain(t) \/ Refuse(t)
        PROVE  FALSE
    <2>1. \E p \in Phases \ {"down"} : phase' = [phase EXCEPT ![t] = p]
      BY <1>9 DEF Cut, Accept, Decline, Write, PackFails, Pack, Rename,
                  Unplain, Refuse, Goes, Phases, Saving
    <2>2. QED BY <1>1, <2>1
  <1>10. ASSUME NEW t \in Sessions, Change(t) PROVE FALSE
    BY <1>2, <1>10 DEF Change
  <1>11. ASSUME NEW t \in Sessions, Exit(t) PROVE Exit(s) /\ Gone(s)
    <2>1. Gone(t)
      BY <1>5, <1>11 DEF Exit
    <2>2. QED BY <1>6, <1>11, <2>1
  <1>12. ASSUME NEW t \in Sessions, Crash(t) PROVE Crash(s)
    BY <1>6, <1>12 DEF Crash
  <1>13. Next
    BY <1>2 DEF vars
  <1>14. QED BY <1>7, <1>8, <1>9, <1>10, <1>11, <1>12, <1>13 DEF Next

(* Nobody leaves the application and takes with it rows that could still   *)
(* be recovered, unless asked whether to save (~cMain():                   *)
(* NothingDroppedUnasked). A shared database is another matter: there a    *)
(* session that may only read is not asked.                                *)
THEOREM NothingIsDroppedUnasked ==
  ASSUME Orderly, ~Network PROVE Spec => NothingDroppedUnasked
  <1>1. ASSUME TypeOK, FInv, AllMayWrite, [Next]_vars, NEW s \in Sessions,
               phase[s] # "down", phase'[s] = "down",
               Pending(MachineOf[s]), journal'[MachineOf[s]] = NoJournal
        PROVE  MayAsk(s)
    <2>1. CASE Crash(s)
      <3>1. journal[MachineOf[s]].rows = <<>>
        BY <1>1, <2>1 DEF Crash, NoJournal
      <3>2. QED BY <1>1, <3>1 DEF Pending
    <2>2. CASE Exit(s) /\ Gone(s)
      <3>1. phase[s] = "idle"
        BY <1>1, <2>2 DEF Exit, Idle, MayAsk, AllMayWrite
      <3>2. QED BY <1>1, <3>1, LeaversAreAsked
    <2>3. QED BY <1>1, <2>1, <2>2, WhoGoesDown
  <1>2. TypeOK /\ FInv /\ AllMayWrite /\ [Next]_vars =>
          [\A s \in Sessions :
             phase[s] # "down" /\ phase'[s] = "down" =>
               LET m == MachineOf[s]
               IN  Pending(m) /\ journal'[m] = NoJournal => MayAsk(s)]_vars
    BY <1>1
  <1>3. QED BY <1>2, LocalHolds, PTL DEF Spec, NothingDroppedUnasked

-----------------------------------------------------------------------------
\* The refinement mapping of Promise, by name.
Safe == IF Rewriting({"writing", "cutting"}) THEN Work ELSE Recovered(Here)
Kept == IF Rewriting({"writing"}) THEN Work ELSE Loadable(Here)

(* What the promise sees of the one session there is.                      *)
SeenAs(s) ==
  LET m == MachineOf[s]
  IN  /\ Works(s) => Work = mem[s] /\ mem[s] # NoFile /\ Safe = mem[s]
      /\ ~Works(s) => Work = NoFile /\ Safe = Recovered(m)
      /\ phase[s] \in Saving => Kept = mem[s]
      /\ phase[s] # "writing" => Kept = Loadable(m)

(* With one session on the one machine the choices of the mapping have no  *)
(* alternative.                                                            *)
LEMMA TheOnly ==
  ASSUME OneSessionEach, ~Network, NEW s \in Sessions
  PROVE  /\ Here = MachineOf[s]
         /\ Work = IF Works(s) THEN mem[s] ELSE NoFile
         /\ \A P : Rewriting(P) <=> phase[s] \in P
  <1>1. \A t \in Sessions : t = s
    BY FileAssumption DEF OneSessionEach
  <1>2. Here = MachineOf[s]
    BY FileAssumption DEF Here
  <1>3. CASE Works(s)
    <2>1. (CHOOSE t \in Sessions : Works(t)) = s
      BY <1>1, <1>3
    <2>2. QED BY <1>1, <1>2, <1>3, <2>1 DEF Work, Rewriting
  <1>4. CASE ~Works(s)
    BY <1>1, <1>2, <1>4 DEF Work, Rewriting
  <1>5. QED BY <1>3, <1>4

(* What the promise sees follows from the invariant.                       *)
LEMMA Seen ==
  ASSUME Orderly, ~Network, TypeOK, FInv, AllMayWrite, NEW s \in Sessions
  PROVE  SeenAs(s)
  <1> DEFINE m == MachineOf[s]
  <1>1. /\ Work = IF Works(s) THEN mem[s] ELSE NoFile
        /\ Safe = IF phase[s] \in {"writing", "cutting"} THEN Work ELSE Recovered(m)
        /\ Kept = IF phase[s] = "writing" THEN Work ELSE Loadable(m)
    BY TheOnly DEF Orderly, Safe, Kept
  <1>2. mem[s] # NoFile /\ (Works(s) => Writes(s))
    BY PlainTypes DEF AllMayWrite, Works, Writes, Saving
  <1>3. Works(s) /\ phase[s] \notin {"writing", "cutting"} => Recovered(m) = mem[s]
    BY <1>2, MemoryIsRecovered DEF Works
  <1>4. phase[s] \in Saving \ {"writing"} => Loadable(m) = mem[s]
    <2>1. phase[s] \in Saving => InStep(s)
      BY SaversWrite DEF FInv
    <2>2. CASE phase[s] = "confirmed"
      BY <2>1, <2>2 DEF InStep, Loadable, Saving
    <2>3. CASE phase[s] \in {"packing", "renaming", "packed"}
      BY <1>2, <2>1, <2>3 DEF InStep, Loadable, Saving
    <2>4. QED BY <2>2, <2>3 DEF Saving
  <1>5. phase[s] \in Saving => Works(s)
    BY DEF Works
  <1>6. QED BY <1>1, <1>2, <1>3, <1>4, <1>5 DEF SeenAs, Works, Saving

(* A step of the promise, or nothing to it.                                *)
Sees ==
  \/ Work = NoFile /\ Work' = Safe /\ Safe' = Safe /\ Kept' = Kept
  \/ \E c \in 1 .. MaxChanges :
       Work # NoFile /\ Work' = Append(Work, c) /\ Safe' = Work' /\ Kept' = Kept
  \/ Work # NoFile /\ Kept' = Work /\ Work' = Work /\ Safe' = Safe
  \/ Work' = NoFile /\ Safe' = Kept /\ Kept' = Kept
  \/ Work' = NoFile /\ Safe' = Safe /\ Kept' = Kept
  \/ Work' = Work /\ Safe' = Safe /\ Kept' = Kept

(* These are the steps of UnsavedWork.                                     *)
LEMMA SeesIsPromised == Sees => [Promise!Next]_(Promise!vars)
  <1> SUFFICES ASSUME Sees PROVE [Promise!Next]_(Promise!vars)
    OBVIOUS
  <1> USE DEF Promise!Next, Promise!Open, Promise!Change, Promise!Save,
              Promise!GiveUp, Promise!Crash, Promise!vars, Safe, Kept
  <1>1. CASE Work = NoFile /\ Work' = Safe /\ Safe' = Safe /\ Kept' = Kept
    BY <1>1
  <1>2. ASSUME NEW c \in 1 .. MaxChanges,
               Work # NoFile, Work' = Append(Work, c), Safe' = Work', Kept' = Kept
        PROVE  Promise!Next
    BY <1>2
  <1>3. CASE Work # NoFile /\ Kept' = Work /\ Work' = Work /\ Safe' = Safe
    BY <1>3
  <1>4. CASE Work' = NoFile /\ Safe' = Kept /\ Kept' = Kept
    BY <1>4
  <1>5. CASE Work' = NoFile /\ Safe' = Safe /\ Kept' = Kept
    BY <1>5
  <1>6. CASE Work' = Work /\ Safe' = Safe /\ Kept' = Kept
    BY <1>6
  <1>7. QED BY <1>1, <1>2, <1>3, <1>4, <1>5, <1>6 DEF Sees

(* What would be loaded and recovered depends on the files and journals.   *)
LEMMA SameFiles ==
  ASSUME UNCHANGED <<baf, plain>>, NEW m
  PROVE  /\ Loadable(m)' = Loadable(m)
         /\ UNCHANGED journal => Recovered(m)' = Recovered(m)
         /\ journal'[m].rows = <<>> => Recovered(m)' = Loadable(m)
  BY DEF Loadable, Recovered, Pending

(* A journal that was deleted is empty: what is kept is what remains.      *)
LEMMA AfterReset ==
  ASSUME Orderly, FInv, TypeOK, NEW s \in Sessions, Reset(s)
  PROVE  journal'[MachineOf[s]].rows = <<>>
  <1>1. Opens(s) /\ MachineOf[s] \in Machines
    BY AlwaysOpens, FileAssumption DEF Orderly, FInv
  <1>2. journal' = [journal EXCEPT ![MachineOf[s]] = NoJournal]
    BY <1>1 DEF Reset
  <1>3. journal'[MachineOf[s]] = NoJournal
    BY <1>1, <1>2 DEF TypeOK
  <1>4. QED BY <1>3 DEF NoJournal

(* What the lemmas about the steps of a session have in common.            *)
Local(s) ==
  /\ Orderly /\ ~Network
  /\ TypeOK /\ FInv /\ AllMayWrite
  /\ SeenAs(s) /\ SeenAs(s)'

(* To load is nothing to the promise when nothing was before the session,  *)
(* and gives up the work that was.                                         *)
LEMMA DoLoadSees ==
  ASSUME NEW s \in Sessions, Local(s), DoLoad(s),
         \/ phase[s] = "down" /\ UNCHANGED journal
         \/ phase[s] = "idle" /\ Reset(s)
  PROVE  Sees
  <1> DEFINE m == MachineOf[s]
  <1>1. m \in Machines
    BY FileAssumption
  <1>2. Loadable(m) # NoFile
    BY <1>1 DEF Local, FInv, DiskInv
  <1>3. phase' = [phase EXCEPT ![s] = "loading"] /\ UNCHANGED <<baf, plain>>
    BY <1>2 DEF DoLoad, Goes, archive
  <1>4. phase'[s] = "loading"
    BY <1>3 DEF Local, TypeOK
  <1>5. Work' = NoFile /\ Safe' = Recovered(m)' /\ Kept' = Loadable(m)'
    BY <1>4 DEF Local, SeenAs, Works, Saving
  <1>6. Kept = Loadable(m) /\ Loadable(m)' = Loadable(m)
    BY <1>3, SameFiles DEF Local, SeenAs
  <1>7. CASE phase[s] = "down" /\ UNCHANGED journal
    <2>1. Work = NoFile /\ Safe = Recovered(m) /\ Recovered(m)' = Recovered(m)
      BY <1>3, <1>7, SameFiles DEF Local, SeenAs, Works, Saving
    <2>2. QED BY <1>5, <1>6, <2>1 DEF Sees
  <1>8. CASE phase[s] = "idle" /\ Reset(s)
    <2>1. Recovered(m)' = Loadable(m)
      BY <1>3, <1>8, SameFiles, AfterReset DEF Local
    <2>2. QED BY <1>5, <1>6, <2>1 DEF Sees
  <1>9. QED BY <1>7, <1>8

(* A new baseline belongs to what is on disk and in memory, and is taken   *)
(* for it until the old rows are cut off.                                  *)
LEMMA BaselineSeen ==
  ASSUME NEW s \in Sessions, Local(s), WriteBaseline(s), UNCHANGED <<baf, plain, mem>>,
         mem[s] = Loadable(MachineOf[s])
  PROVE  Work' = mem[s] /\ Safe' = mem[s] /\ Kept' = mem[s]
  <1> DEFINE m == MachineOf[s]
  <1>1. phase' \in {[phase EXCEPT ![s] = "idle"], [phase EXCEPT ![s] = "cutting"]}
    BY DEF WriteBaseline, Goes
  <1>2. phase'[s] \in {"idle", "cutting"}
    BY <1>1 DEF Local, TypeOK
  <1>3. Works(s)' /\ phase'[s] # "writing"
    BY <1>2 DEF Works
  <1>4. Work' = mem[s] /\ Safe' = mem[s] /\ Kept' = Loadable(m)'
    BY <1>3 DEF Local, SeenAs
  <1>5. QED BY <1>4, SameFiles

(* A session opens its database when its recovery, if there is one, is     *)
(* decided.                                                                *)
LEMMA LoadedSees ==
  ASSUME NEW s \in Sessions, Local(s), Loaded(s)
  PROVE  Sees
  <1> DEFINE m == MachineOf[s]
  <1>1. phase[s] = "loading" /\ UNCHANGED <<baf, plain, mem>>
    BY DEF Loaded, archive, session
  <1>2. Work = NoFile /\ Safe = Recovered(m) /\ Kept = Loadable(m)
    BY <1>1 DEF Local, SeenAs, Works, Saving
  <1>3. mem[s] = Loadable(m)
    BY <1>1 DEF Local, FInv, InStep, AllMayWrite, Writes
  <1>4. CASE CheckBaseline(s)
    <2>1. phase' = [phase EXCEPT ![s] = "offer"] /\ UNCHANGED journal
      BY <1>4 DEF Loaded, Goes
    <2>2. phase'[s] = "offer"
      BY <2>1 DEF Local, TypeOK
    <2>3. Work' = NoFile /\ Safe' = Recovered(m)' /\ Kept' = Loadable(m)'
      BY <2>2 DEF Local, SeenAs, Works, Saving
    <2>4. QED BY <1>1, <1>2, <2>1, <2>3, SameFiles DEF Sees
  <1>5. CASE ~CheckBaseline(s)
    <2>1. WriteBaseline(s)
      BY <1>5 DEF Loaded
    <2>2. Work' = mem[s] /\ Safe' = mem[s] /\ Kept' = mem[s]
      BY <1>1, <1>3, <2>1, BaselineSeen
    <2>3. Opens(s)
      BY AlwaysOpens DEF Local, Orderly, FInv
    <2>4. ~Pending(m)
      BY <1>3, <1>5, <2>3 DEF CheckBaseline, Pending
    <2>5. Safe = mem[s]
      BY <1>2, <1>3, <2>4 DEF Recovered
    <2>6. QED BY <1>2, <1>3, <2>2, <2>5 DEF Sees
  <1>6. QED BY <1>4, <1>5

(* What the user accepts is what was safe.                                 *)
LEMMA AcceptSees ==
  ASSUME NEW s \in Sessions, Local(s), Accept(s)
  PROVE  Sees
  <1> DEFINE m == MachineOf[s]
  <1>1. /\ phase[s] = "offer" /\ UNCHANGED <<baf, plain, journal>>
        /\ phase' = [phase EXCEPT ![s] = "idle"]
        /\ mem' = [mem EXCEPT ![s] = @ \o journal[m].rows]
    BY DEF Accept, Goes, archive, local
  <1>2. phase'[s] = "idle" /\ mem'[s] = mem[s] \o journal[m].rows
    BY <1>1 DEF Local, TypeOK
  <1>3. Work = NoFile /\ Safe = Recovered(m) /\ Kept = Loadable(m)
    BY <1>1 DEF Local, SeenAs, Works, Saving
  <1>4. Work' = mem'[s] /\ Safe' = mem'[s] /\ Kept' = Loadable(m)'
    BY <1>2 DEF Local, SeenAs, Works
  <1>5. /\ mem[s] = Loadable(m) /\ journal[m].base = mem[s]
        /\ journal[m].rows # <<>> /\ mem[s] # NoFile
    BY <1>1, PlainTypes DEF Local, FInv, InStep, AllMayWrite, Writes
  <1>6. Recovered(m) = mem'[s]
    BY <1>2, <1>5 DEF Recovered, Pending
  <1>7. QED BY <1>1, <1>3, <1>4, <1>6, SameFiles DEF Sees

(* A change is safe as soon as it is made.                                 *)
LEMMA ChangeSees ==
  ASSUME NEW s \in Sessions, Local(s), Change(s)
  PROVE  Sees
  <1> DEFINE m == MachineOf[s]
  <1>1. /\ phase[s] = "idle" /\ UNCHANGED <<baf, plain, phase>>
        /\ made < MaxChanges /\ made' = made + 1
        /\ mem' = [mem EXCEPT ![s] = Append(@, made')]
    BY DEF Change, Idle, archive
  <1>2. mem'[s] = Append(mem[s], made')
    BY <1>1 DEF Local, TypeOK
  <1>3. Work = mem[s] /\ mem[s] # NoFile /\ Kept = Loadable(m)
    BY <1>1 DEF Local, SeenAs, Works
  <1>4. Work' = mem'[s] /\ Safe' = mem'[s] /\ Kept' = Loadable(m)'
    BY <1>1 DEF Local, SeenAs, Works
  <1>5. made' \in 1 .. MaxChanges
    BY <1>1, FileAssumption DEF Local, TypeOK
  <1>6. QED BY <1>1, <1>2, <1>3, <1>4, <1>5, SameFiles DEF Sees

(* To begin a save is to keep what is in memory: what is on disk until the *)
(* plain file is written is taken for it.                                  *)
LEMMA StartSaveSees ==
  ASSUME NEW s \in Sessions, Local(s), StartSave(s), phase[s] = "idle"
  PROVE  Sees
  <1>1. phase' = [phase EXCEPT ![s] = "writing"] /\ UNCHANGED mem
    BY DEF StartSave, Goes
  <1>2. phase'[s] = "writing"
    BY <1>1 DEF Local, TypeOK
  <1>3. Work = mem[s] /\ Safe = mem[s] /\ mem[s] # NoFile
    BY DEF Local, SeenAs, Works
  <1>4. Work' = mem[s] /\ Safe' = mem[s] /\ Kept' = mem[s]
    BY <1>1, <1>2 DEF Local, SeenAs, Works, Saving
  <1>5. QED BY <1>3, <1>4 DEF Sees

(* The steps of a save are nothing to the promise.                         *)
LEMMA SavingSees ==
  ASSUME NEW s \in Sessions, Local(s), phase[s] \in Saving, phase'[s] \in Saving,
         UNCHANGED mem
  PROVE  Sees
  <1>1. Work = mem[s] /\ Safe = mem[s] /\ Kept = mem[s]
    BY DEF Local, SeenAs, Works
  <1>2. Work' = mem[s] /\ Safe' = mem[s] /\ Kept' = mem[s]
    BY DEF Local, SeenAs, Works
  <1>3. QED BY <1>1, <1>2 DEF Sees

(* Neither is its end.                                                     *)
LEMMA ConfirmSees ==
  ASSUME NEW s \in Sessions, Local(s), Confirm(s)
  PROVE  Sees
  <1>1. phase[s] = "confirmed" /\ WriteBaseline(s) /\ UNCHANGED <<baf, plain, mem>>
    BY DEF Confirm, archive
  <1>2. Work = mem[s] /\ Safe = mem[s] /\ Kept = mem[s] /\ Kept = Loadable(MachineOf[s])
    BY <1>1 DEF Local, SeenAs, Works, Saving
  <1>3. Work' = mem[s] /\ Safe' = mem[s] /\ Kept' = mem[s]
    BY <1>1, <1>2, BaselineSeen
  <1>4. QED BY <1>2, <1>3 DEF Sees

(* Nor the cutting off of rows that nobody wants any more.                 *)
LEMMA CutSees ==
  ASSUME NEW s \in Sessions, Local(s), Cut(s)
  PROVE  Sees
  <1>1. /\ phase[s] = "cutting" /\ UNCHANGED <<baf, plain, mem>>
        /\ phase' = [phase EXCEPT ![s] = "idle"]
    BY DEF Cut, Goes, archive, session
  <1>2. phase'[s] = "idle"
    BY <1>1 DEF Local, TypeOK
  <1>3. Work = mem[s] /\ Safe = mem[s] /\ Kept = Loadable(MachineOf[s])
    BY <1>1 DEF Local, SeenAs, Works
  <1>4. Work' = mem[s] /\ Safe' = mem[s] /\ Kept' = Loadable(MachineOf[s])'
    BY <1>1, <1>2 DEF Local, SeenAs, Works
  <1>5. QED BY <1>1, <1>3, <1>4, SameFiles DEF Sees

(* Who leaves gives up what is not kept, who is killed nothing.            *)
LEMMA EndSees ==
  ASSUME NEW s \in Sessions, Local(s), Gone(s),
         \/ Reset(s) /\ phase[s] \notin Saving
         \/ Crash(s)
  PROVE  Sees
  <1> DEFINE m == MachineOf[s]
  <1>1. phase' = [phase EXCEPT ![s] = "down"] /\ UNCHANGED <<baf, plain>>
    BY DEF Gone, Goes, archive
  <1>2. phase'[s] = "down"
    BY <1>1 DEF Local, TypeOK
  <1>3. Work' = NoFile /\ Safe' = Recovered(m)' /\ Kept' = Loadable(m)'
    BY <1>2 DEF Local, SeenAs, Works, Saving
  <1>4. Loadable(m)' = Loadable(m)
    BY <1>1, SameFiles
  <1>5. CASE Reset(s) /\ phase[s] \notin Saving
    <2>1. Recovered(m)' = Loadable(m)
      BY <1>1, <1>5, SameFiles, AfterReset DEF Local
    <2>2. Kept = Loadable(m)
      BY <1>5 DEF Local, SeenAs, Saving
    <2>3. QED BY <1>3, <1>4, <2>1, <2>2 DEF Sees
  <1>6. CASE Crash(s)
    <2>1. UNCHANGED journal /\ phase[s] \notin {"writing", "cutting"}
      BY <1>6 DEF Crash, Local, Orderly
    <2>2. Kept = Loadable(m)
      BY <2>1 DEF Local, SeenAs
    <2>3. Safe = Recovered(m)
      <3>1. CASE Works(s)
        <4>1. phase[s] \in {"idle"} \cup Saving /\ phase[s] # "writing" /\ Writes(s)
          BY <2>1, <3>1 DEF Works, Writes, Saving, Local, AllMayWrite
        <4>2. Recovered(m) = mem[s]
          BY <4>1, MemoryIsRecovered DEF Local
        <4>3. QED BY <3>1, <4>2 DEF Local, SeenAs
      <3>2. QED BY <3>1 DEF Local, SeenAs
    <2>4. Recovered(m)' = Recovered(m)
      BY <1>1, <2>1, SameFiles
    <2>5. QED BY <1>3, <1>4, <2>2, <2>3, <2>4 DEF Sees
  <1>7. QED BY <1>5, <1>6

(* Every step is one of the promise, or nothing to it.                     *)
LEMMA NextSees ==
  ASSUME NEW s \in Sessions, Local(s),
         \/ Launch(s) \/ Refuse(s) \/ Loaded(s) \/ Cut(s)
         \/ Accept(s) \/ Decline(s) \/ Change(s) \/ Discard(s)
         \/ Save(s) \/ Write(s) \/ PackFails(s) \/ Pack(s) \/ Rename(s)
         \/ Unplain(s) \/ Confirm(s)
         \/ Exit(s) \/ Crash(s)
  PROVE  Sees
  <1>1. ~Refuse(s) /\ ~Decline(s) /\ ~PackFails(s)
    BY PackSucceeds DEF Refuse, Decline, Local, Orderly
  <1>2. CASE Launch(s)
    <2>1. DoLoad(s) /\ phase[s] = "down" /\ UNCHANGED journal
      BY <1>2 DEF Launch
    <2>2. QED BY <2>1, DoLoadSees
  <1>3. CASE Discard(s)
    <2>1. DoLoad(s)
      BY <1>3 DEF Discard, Local
    <2>2. QED BY <1>3, <2>1, DoLoadSees DEF Discard, Idle
  <1>4. CASE Save(s)
    BY <1>4, StartSaveSees DEF Save, Idle
  <1>5. CASE Write(s) \/ Pack(s) \/ Rename(s) \/ Unplain(s)
    <2>1. phase[s] \in Saving /\ UNCHANGED mem
      BY <1>5 DEF Write, Pack, Rename, Unplain, session, Saving
    <2>2. \E p \in Saving : phase' = [phase EXCEPT ![s] = p]
      BY <1>5 DEF Write, Pack, Rename, Unplain, Goes, Saving
    <2>3. phase'[s] \in Saving
      BY <2>2 DEF Local, TypeOK
    <2>4. QED BY <2>1, <2>3, SavingSees
  <1>6. CASE Exit(s)
    <2>1. CASE Reset(s) /\ Gone(s) /\ phase[s] \in {"idle", "refused"}
      BY <2>1, EndSees DEF Saving
    <2>2. CASE StartSave(s) /\ phase[s] = "idle"
      BY <2>2, StartSaveSees
    <2>3. QED BY <1>6, <2>1, <2>2 DEF Exit, Idle
  <1>7. CASE Crash(s)
    BY <1>7, EndSees DEF Crash
  <1>8. QED BY <1>1, <1>2, <1>3, <1>4, <1>5, <1>6, <1>7, LoadedSees, CutSees,
          AcceptSees, ChangeSees, ConfirmSees

(* On one machine, with one session at a time, launching, recovering,      *)
(* changing, discarding, saving, leaving and being killed implement the    *)
(* promise of UnsavedWork (KeepsPromise).                                  *)
THEOREM PromiseIsKept ==
  ASSUME Orderly, ~Network PROVE Spec => KeepsPromise
  <1>1. Init => Promise!Init
    <2> SUFFICES ASSUME Init PROVE Promise!Init
      OBVIOUS
    <2>1. Work = NoFile /\ ~Rewriting({"writing", "cutting"}) /\ ~Rewriting({"writing"})
      BY DEF Init, Work, Works, Rewriting, Saving
    <2>2. Here \in Machines
      BY FileAssumption DEF Here
    <2>3. Loadable(Here) = Original /\ Recovered(Here) = Original
      BY <2>2 DEF Init, Loadable, Recovered, Pending, NoJournal
    <2>4. QED BY <2>1, <2>3 DEF Promise!Init
  <1>2. TypeOK /\ FInv /\ AllMayWrite => \A s \in Sessions : SeenAs(s)
    BY Seen
  <1>3. ASSUME TypeOK, FInv, AllMayWrite,
               \A s \in Sessions : SeenAs(s), \A s \in Sessions : SeenAs(s)',
               [Next]_vars
        PROVE  [Promise!Next]_(Promise!vars)
    <2>1. CASE UNCHANGED vars
      <3>1. Work' = Work /\ Safe' = Safe /\ Kept' = Kept
        BY <2>1 DEF vars, Work, Works, Safe, Kept, Rewriting, Here, Recovered,
                    Pending, Loadable
      <3>2. Sees
        BY <3>1 DEF Sees
      <3>3. QED BY <3>2, SeesIsPromised
    <2>2. CASE Next
      <3>1. Sees
        BY <1>3, <2>2, NextSees DEF Next, Local
      <3>2. QED BY <3>1, SeesIsPromised
    <2>3. QED BY <1>3, <2>1, <2>2
  <1>4. (\A s \in Sessions : SeenAs(s))' => \A s \in Sessions : SeenAs(s)'
    OBVIOUS
  <1>5. QED BY <1>1, <1>2, <1>3, <1>4, LocalHolds, PTL DEF Spec, KeepsPromise, Promise!Spec

=============================================================================
