-------------------------- MODULE ServerFilesProofs --------------------------
(***************************************************************************)
(* Proofs about the files a server keeps: the agent settings, for every    *)
(* set of processes, requests, updates and files an operator may leave,    *)
(* and the pages a PDF is printed from, for any number of process ids, of  *)
(* their successors, of conversions, of parts of a PDF and of polls.       *)
(***************************************************************************)
EXTENDS AgentSettings, PdfExport, TLAPS

-----------------------------------------------------------------------------
(* AgentSettings.  One inductive invariant carries its theorems: a save in *)
(* progress holds the mutex and a copy made from what is still in force,   *)
(* and a readable file is the copy in force or the one about to be.        *)

Busy == {"writing", "written"}

\* What is staged was made from what is in force, and validated.
Staged ==
    \A p \in Processes, r \in Slots :
        slot[p][r].step \in Busy =>
            /\ slot[p][r].next = Updated(mem[p], slot[p][r].update)
            /\ DOMAIN slot[p][r].update \subseteq Editable
            /\ Usable(slot[p][r].next)

\* StoredIsInForce, with the moment between a write and its being told: a file
\* of p's is what p has in force, or what p is about to put in force.
StoredOrStaged ==
    \A p \in Processes :
        author = p /\ file \in Settings /\ pc[p] = "serving" =>
            \/ holder[p] = NoSlot /\ file = mem[p]
            \/ \E r \in Slots :
                holder[p] = r /\ slot[p][r].step = "written"
                /\ file = slot[p][r].next

IInv ==
    /\ TypeOK
    /\ EditsInForce
    /\ Staged
    /\ StoredOrStaged
    /\ WrittenIsUsable
    /\ NoOpenSurface

USE SettingsAssumption, ProcessAssumption DEF SettingsAssumption, ProcessAssumption

-----------------------------------------------------------------------------
(* Lemmas about the operators.                                             *)

\* The defaults are settings, and they validate.
LEMMA DefaultsUsable == Defaults \in Settings /\ Usable(Defaults)
BY DEF Defaults, Settings, Usable, Reaches

\* An update of settings gives settings, and never another token.
LEMMA UpdatedIsSettings ==
    ASSUME NEW s \in Settings, NEW u \in Updates
    PROVE  Updated(s, u) \in Settings /\ Updated(s, u).token = s.token
BY UpdateAssumption DEF Updated, Settings

\* What a readable file loads as is settings.
LEMMA LoadedIsSettings ==
    ASSUME NEW f, Readable(f)
    PROVE  Loaded(f) \in Settings
BY DefaultsUsable DEF Readable, Loaded

\* The marks of a file that is missing or cannot be read are no settings.
LEMMA NotSettings == Absent \notin Settings /\ Empty \notin Settings /\ Garbled \notin Settings
OBVIOUS

\* Setting one slot leaves every other as it was.
LEMMA SlotAt ==
    ASSUME slot \in [Processes -> [Slots -> SlotRecord]],
           NEW p \in Processes, NEW r \in Slots, NEW v \in SlotRecord,
           SetSlot(p, r, v)
    PROVE  /\ slot' \in [Processes -> [Slots -> SlotRecord]]
           /\ slot'[p][r] = v
           /\ \A q \in Processes, t \in Slots :
                q # p \/ t # r => slot'[q][t] = slot[q][t]
BY DEF SetSlot

\* A free slot is a slot.
LEMMA FreeIsSlot == Free \in SlotRecord
BY DefaultsUsable DEF Free, SlotRecord, Steps

-----------------------------------------------------------------------------
(* The invariant holds at first.                                           *)

\* Nothing runs yet, and the file is an operator's.
LEMMA InitInv == Init => IInv
<1> SUFFICES ASSUME Init PROVE IInv
  OBVIOUS
<1>1. TypeOK
  BY DefaultsUsable, LoadedIsSettings, FreeIsSlot
     DEF Init, TypeOK, Types, HeldBySaver, Readable, Stages, SlotRecord, Free
<1>2. EditsInForce /\ Staged /\ StoredOrStaged /\ WrittenIsUsable /\ NoOpenSurface
  BY DEF Init, EditsInForce, Staged, Busy, StoredOrStaged, WrittenIsUsable,
         NoOpenSurface, Free, Processes
<1> QED
  BY <1>1, <1>2 DEF IInv

-----------------------------------------------------------------------------
(* Steps of a start.                                                       *)

\* What a process does before it serves: its own copy aside, it changes nothing
\* that a request or another process relies on, and the file it leaves is either
\* as it was, or not readable, or nobody's.
LEMMA Starting ==
    ASSUME IInv, NEW p \in Processes, NEW stage \in Stages \ {"serving"},
           pc[p] # "serving", GoTo(p, stage),
           mem' \in [Processes -> Settings],
           \A q \in Processes : q # p => mem'[q] = mem[q],
           file' \in Settings \cup {Absent, Empty, Garbled},
           author' = NoCaller \/ (author' = author /\ file' \in {file, Empty}),
           lasting' \in Settings, lastingIn' \subseteq Editable,
           starts' \in 0..MaxStarts,
           UNCHANGED <<holder, slot, promise, requests, hands>>
    PROVE  IInv'
<1> USE DEF IInv
<1>1. /\ pc' \in [Processes -> Stages] /\ pc'[p] # "serving"
      /\ \A q \in Processes : q # p => pc'[q] = pc[q]
  BY DEF GoTo, TypeOK, Types, HeldBySaver
<1>2. \A r \in Slots : slot[p][r].step = "free"
  BY DEF TypeOK, Types, HeldBySaver
<1>3. TypeOK'
  <2>1. Types'
    BY <1>1, <1>2 DEF TypeOK, Types, HeldBySaver
  <2>2. HeldBySaver'
    BY <1>1, <1>2 DEF TypeOK, Types, HeldBySaver
  <2> QED BY <2>1, <2>2 DEF TypeOK
<1>4. EditsInForce'
  BY <1>1 DEF EditsInForce
<1>5. Staged'
  BY <1>2 DEF Staged, Busy
<1>6. StoredOrStaged'
  BY <1>1, NotSettings DEF StoredOrStaged, Processes
<1>7. WrittenIsUsable'
  BY NotSettings DEF WrittenIsUsable
<1>8. NoOpenSurface'
  BY <1>2 DEF NoOpenSurface, Processes
<1> QED BY <1>3, <1>4, <1>5, <1>6, <1>7, <1>8

\* A start keeps the invariant, whatever became of the file between its steps.
LEMMA StartInv ==
    ASSUME IInv, NEW p \in Processes, StartStep(p)
    PROVE  IInv'
<1> USE DEF IInv
<1>1. CASE Look(p)
  BY <1>1, Starting DEF Look, TypeOK, Types, HeldBySaver, Stages, history
<1>2. CASE Load(p)
  <2>1. CASE Readable(file)
    <3>1. mem' = [mem EXCEPT ![p] = Loaded(file)] /\ Loaded(file) \in Settings
      BY <1>2, <2>1, LoadedIsSettings DEF Load
    <3>2. /\ mem' \in [Processes -> Settings]
          /\ \A q \in Processes : q # p => mem'[q] = mem[q]
      BY <3>1 DEF TypeOK, Types, HeldBySaver
    <3>3. PICK stage \in {"generating", "judging"} : GoTo(p, stage)
      BY <1>2, <2>1 DEF Load
    <3> QED BY <1>2, <3>2, <3>3, Starting
               DEF Load, TypeOK, Types, HeldBySaver, Stages, history, counters
  <2>2. CASE ~Readable(file)
    BY <1>2, <2>2, Starting
       DEF Load, TypeOK, Types, HeldBySaver, Stages, history, counters
  <2> QED BY <2>1, <2>2
<1>3. CASE Generate(p)
  <2>1. PICK t \in Tokens : mem' = [mem EXCEPT ![p].token = t]
    BY <1>3 DEF Generate
  <2>2. mem[p] \in Settings
    BY DEF TypeOK, Types, HeldBySaver
  <2>3. [mem[p] EXCEPT !.token = t] \in Settings
    BY <2>2 DEF Settings
  <2>4. /\ mem' \in [Processes -> Settings]
        /\ \A q \in Processes : q # p => mem'[q] = mem[q]
    BY <2>1, <2>3 DEF TypeOK, Types, HeldBySaver
  <2>5. /\ pc[p] = "generating" /\ GoTo(p, "writing") /\ file' = Empty
        /\ UNCHANGED <<author, holder, slot, history, counters>>
    BY <1>3 DEF Generate
  <2>6. "writing" \in Stages \ {"serving"}
    BY DEF Stages
  <2>7. lasting' \in Settings /\ lastingIn' \subseteq Editable /\ starts' \in 0..MaxStarts
    BY <2>5 DEF TypeOK, Types, history, counters
  <2> QED BY <2>4, <2>5, <2>6, <2>7, Starting DEF history, counters
<1>4. CASE WriteToken(p)
  <2>1. mem[p] \in Settings /\ file' \in {mem[p], Garbled}
    BY <1>4 DEF WriteToken, Outcomes, TypeOK, Types
  <2>2. /\ pc[p] = "writing" /\ GoTo(p, "judging") /\ author' = NoCaller
        /\ lasting' = mem[p] /\ lastingIn' = {}
        /\ UNCHANGED <<mem, holder, slot, promise, counters>>
    BY <1>4 DEF WriteToken
  <2>3. "judging" \in Stages \ {"serving"}
    BY DEF Stages
  <2>4. mem' \in [Processes -> Settings] /\ starts' \in 0..MaxStarts
    BY <2>2 DEF TypeOK, Types, counters
  <2>5. /\ file' \in Settings \cup {Absent, Empty, Garbled}
        /\ lasting' \in Settings /\ lastingIn' \subseteq Editable
        /\ pc[p] # "serving"
    BY <2>1, <2>2
  <2>6. UNCHANGED <<mem, holder, slot, promise, requests, hands>>
    BY <2>2 DEF counters
  <2> QED BY <2>2, <2>3, <2>4, <2>5, <2>6, Starting
<1>5. CASE Judge(p)
  <2>1. PICK stage \in {"reopening", "down"} : GoTo(p, stage)
    BY <1>5 DEF Judge
  <2> QED BY <1>5, <2>1, Starting
             DEF Judge, TypeOK, Types, HeldBySaver, Stages, history, counters
<1>6. ASSUME pc[p] \in {"down", "reopening"}, Serve(p),
             starts' \in 0..MaxStarts,
             UNCHANGED <<file, author, holder, slot, lasting, lastingIn, requests, hands>>
      PROVE  IInv'
  <2>1. \A r \in Slots : slot[p][r].step = "free" /\ holder[p] # r
    BY <1>6 DEF TypeOK, HeldBySaver
  <2>2. holder[p] = NoSlot
    BY <2>1 DEF TypeOK, Types
  <2>3. CASE Readable(file)
    <3>1. Loaded(file) \in Settings
      BY <2>3, LoadedIsSettings
    <3>2. /\ pc' = [pc EXCEPT ![p] = "serving"]
          /\ mem' = [mem EXCEPT ![p] = Loaded(file)]
          /\ promise' = [promise EXCEPT ![p] = Loaded(file)]
      BY <1>6, <2>3 DEF Serve, GoTo
    <3>3. /\ pc' \in [Processes -> Stages] /\ mem' \in [Processes -> Settings]
          /\ promise' \in [Processes -> Settings]
          /\ mem'[p] = Loaded(file) /\ promise'[p] = Loaded(file)
          /\ \A q \in Processes : q # p =>
                pc'[q] = pc[q] /\ mem'[q] = mem[q] /\ promise'[q] = promise[q]
      BY <3>1, <3>2 DEF TypeOK, Types, Stages
    <3>4. Types' /\ HeldBySaver'
      BY <1>6, <2>1, <3>3 DEF TypeOK, Types, HeldBySaver
    <3>5. EditsInForce' /\ Staged'
      BY <1>6, <2>1, <3>3 DEF EditsInForce, Staged, Busy
    <3>6. StoredOrStaged'
      BY <1>6, <2>2, <3>3, NotSettings DEF StoredOrStaged, Loaded
    <3>7. WrittenIsUsable' /\ NoOpenSurface'
      BY <1>6, <2>1, <3>3 DEF WrittenIsUsable, NoOpenSurface, Processes, Usable
    <3> QED BY <3>4, <3>5, <3>6, <3>7 DEF TypeOK
  <2>4. CASE ~Readable(file)
    <3>1. GoTo(p, "down") /\ UNCHANGED <<mem, promise>>
      BY <1>6, <2>4 DEF Serve
    <3>2. "down" \in Stages \ {"serving"} /\ pc[p] # "serving"
      BY <1>6 DEF Stages
    <3>3. /\ mem' \in [Processes -> Settings] /\ file' \in Settings \cup {Absent, Empty, Garbled}
          /\ lasting' \in Settings /\ lastingIn' \subseteq Editable
      BY <1>6, <3>1 DEF TypeOK, Types
    <3> QED BY <1>6, <3>1, <3>2, <3>3, Starting
  <2> QED BY <2>3, <2>4
<1>7. CASE Reopen(p)
  BY <1>6, <1>7 DEF Reopen, counters, TypeOK, Types, HeldBySaver
<1>8. CASE StartAgent(p)
  BY <1>6, <1>8 DEF StartAgent, TypeOK, Types, HeldBySaver
<1> QED
  BY <1>1, <1>2, <1>3, <1>4, <1>5, <1>7, <1>8 DEF StartStep

-----------------------------------------------------------------------------
(* Steps of a request.                                                     *)

\* What a request does to its slot, its process's mutex and copy, and the file:
\* v is its slot afterwards and m the copy in force.  It saves only while it
\* holds the mutex, alone, so that what is staged stays true of what is in force.
LEMMA RequestKeeps ==
    ASSUME IInv, NEW p \in Processes, NEW r \in Slots,
           NEW v \in SlotRecord, NEW m \in Settings,
           pc[p] = "serving", holder[p] \in {NoSlot, r},
           SetSlot(p, r, v),
           holder' = [holder EXCEPT ![p] = IF v.step \in Busy THEN r ELSE NoSlot],
           mem' = [mem EXCEPT ![p] = m], promise' = [promise EXCEPT ![p] = m],
           m.token = mem[p].token,
           v.step # "free" =>
                /\ v.update \in Updates
                /\ p \in Servers => v.presented = m.token /\ m.token # Blank,
           v.step \in Busy =>
                /\ v.next = Updated(m, v.update)
                /\ DOMAIN v.update \subseteq Editable
                /\ Usable(v.next),
           \/ /\ file' = file /\ author' = author
              /\ author = p /\ file \in Settings =>
                    v.step \notin Busy /\ file = m
           \/ file' \in {Empty, Garbled} /\ author' \in {author, p}
           \/ file' = v.next /\ author' = p /\ v.step = "written",
           lasting' \in Settings, lastingIn' \subseteq Editable,
           requests' \in 0..MaxRequests,
           UNCHANGED <<pc, starts, hands>>
    PROVE  IInv'
<1>1. TypeOK /\ Types /\ HeldBySaver
  BY DEF IInv, TypeOK
<1>2. /\ slot' \in [Processes -> [Slots -> SlotRecord]]
      /\ slot'[p][r] = v
      /\ \A q \in Processes, t \in Slots :
            q # p \/ t # r => slot'[q][t] = slot[q][t]
  BY <1>1, SlotAt DEF Types
<1>3. /\ holder' \in [Processes -> Slots \cup {NoSlot}]
      /\ holder'[p] = IF v.step \in Busy THEN r ELSE NoSlot
      /\ \A q \in Processes : q # p => holder'[q] = holder[q]
  BY <1>1 DEF Types
<1>4. /\ mem' \in [Processes -> Settings] /\ mem'[p] = m
      /\ promise' \in [Processes -> Settings] /\ promise'[p] = m
      /\ \A q \in Processes : q # p => mem'[q] = mem[q] /\ promise'[q] = promise[q]
  BY <1>1 DEF Types
<1>5. \A t \in Slots : t # r => slot[p][t].step \notin Busy
  BY <1>1 DEF HeldBySaver, Busy
<1>6. v.next \in Settings
  BY DEF SlotRecord
<1>7. Types'
  BY <1>1, <1>2, <1>3, <1>4, <1>6 DEF Types
<1>8. HeldBySaver'
  <2> SUFFICES ASSUME NEW q \in Processes, NEW t \in Slots
               PROVE  /\ slot'[q][t].step # "free" =>
                            pc[q] = "serving" /\ slot'[q][t].update \in Updates
                      /\ holder'[q] = t <=> slot'[q][t].step \in Busy
    BY DEF HeldBySaver, Busy
  <2>1. CASE q = p /\ t = r
    BY <1>2, <1>3, <2>1
  <2>2. CASE q = p /\ t # r
    BY <1>1, <1>2, <1>3, <1>5, <2>2 DEF HeldBySaver
  <2>3. CASE q # p
    BY <1>1, <1>2, <1>3, <2>3 DEF HeldBySaver, Busy
  <2> QED BY <2>1, <2>2, <2>3
<1>9. EditsInForce'
  BY <1>4 DEF IInv, EditsInForce
<1>10. Staged'
  <2> SUFFICES ASSUME NEW q \in Processes, NEW t \in Slots, slot'[q][t].step \in Busy
               PROVE  /\ slot'[q][t].next = Updated(mem'[q], slot'[q][t].update)
                      /\ DOMAIN slot'[q][t].update \subseteq Editable
                      /\ Usable(slot'[q][t].next)
    BY DEF Staged
  <2>1. CASE q = p
    BY <1>2, <1>4, <1>5, <2>1
  <2>2. CASE q # p
    BY <1>2, <1>4, <2>2 DEF IInv, Staged
  <2> QED BY <2>1, <2>2
<1>11. StoredOrStaged'
  <2> SUFFICES ASSUME NEW q \in Processes, author' = q, file' \in Settings,
                      pc[q] = "serving"
               PROVE  \/ holder'[q] = NoSlot /\ file' = mem'[q]
                      \/ \E t \in Slots : /\ holder'[q] = t
                                          /\ slot'[q][t].step = "written"
                                          /\ file' = slot'[q][t].next
    BY DEF StoredOrStaged
  <2>1. CASE q = p
    BY <1>2, <1>3, <1>4, <2>1, NotSettings DEF Busy
  <2>2. CASE q # p
    <3>1. file' = file /\ author' = author
      BY <2>2, NotSettings
    <3> QED BY <1>2, <1>3, <1>4, <2>2, <3>1 DEF IInv, StoredOrStaged
  <2> QED BY <2>1, <2>2
<1>12. WrittenIsUsable'
  BY NotSettings DEF IInv, WrittenIsUsable, Busy, Usable
<1>13. NoOpenSurface'
  <2> SUFFICES ASSUME NEW q \in Servers, NEW t \in Slots, slot'[q][t].step # "free"
               PROVE  slot'[q][t].presented = mem'[q].token /\ mem'[q].token # Blank
    BY DEF NoOpenSurface
  <2>1. q \in Processes
    BY DEF Processes
  <2>2. CASE q = p /\ t = r
    BY <1>2, <1>4, <2>2
  <2>3. CASE q = p /\ t # r
    BY <1>2, <1>4, <2>1, <2>3 DEF IInv, NoOpenSurface
  <2>4. CASE q # p
    BY <1>2, <1>4, <2>1, <2>4 DEF IInv, NoOpenSurface
  <2> QED BY <2>2, <2>3, <2>4
<1> QED
  BY <1>7, <1>8, <1>9, <1>10, <1>11, <1>12, <1>13 DEF IInv, TypeOK

\* What is known of a slot that is not free.
LEMMA SlotFacts ==
    ASSUME IInv, NEW p \in Processes, NEW r \in Slots
    PROVE  /\ slot[p][r] \in SlotRecord /\ mem[p] \in Settings
           /\ mem = [mem EXCEPT ![p] = mem[p]]
           /\ promise = [promise EXCEPT ![p] = promise[p]]
           /\ holder = [holder EXCEPT ![p] = holder[p]]
           /\ lasting \in Settings /\ lastingIn \subseteq Editable
           /\ requests \in 0..MaxRequests
           /\ pc[p] = "serving" => promise[p] = mem[p]
           /\ pc[p] = "serving" /\ holder[p] = NoSlot /\ author = p
              /\ file \in Settings => file = mem[p]
           /\ slot[p][r].step # "free" =>
                /\ pc[p] = "serving" /\ slot[p][r].update \in Updates
                /\ p \in Servers =>
                    slot[p][r].presented = mem[p].token /\ mem[p].token # Blank
           /\ slot[p][r].step \in Busy =>
                /\ holder[p] = r
                /\ slot[p][r].next = Updated(mem[p], slot[p][r].update)
                /\ DOMAIN slot[p][r].update \subseteq Editable
                /\ Usable(slot[p][r].next)
<1>1. Types /\ HeldBySaver
  BY DEF IInv, TypeOK
<1>2. /\ slot[p][r] \in SlotRecord /\ mem[p] \in Settings
      /\ mem = [mem EXCEPT ![p] = mem[p]]
      /\ promise = [promise EXCEPT ![p] = promise[p]]
      /\ holder = [holder EXCEPT ![p] = holder[p]]
      /\ lasting \in Settings /\ lastingIn \subseteq Editable
      /\ requests \in 0..MaxRequests
  BY <1>1 DEF Types
<1>3. pc[p] = "serving" => promise[p] = mem[p]
  BY DEF IInv, EditsInForce
<1>4. pc[p] = "serving" /\ holder[p] = NoSlot /\ author = p
      /\ file \in Settings => file = mem[p]
  BY DEF IInv, StoredOrStaged
<1>5. slot[p][r].step # "free" => pc[p] = "serving" /\ slot[p][r].update \in Updates
  BY <1>1 DEF HeldBySaver
<1>6. p \in Servers /\ slot[p][r].step # "free" =>
        slot[p][r].presented = mem[p].token /\ mem[p].token # Blank
  BY DEF IInv, NoOpenSurface
<1>7. slot[p][r].step \in Busy =>
        /\ holder[p] = r
        /\ slot[p][r].next = Updated(mem[p], slot[p][r].update)
        /\ DOMAIN slot[p][r].update \subseteq Editable
        /\ Usable(slot[p][r].next)
  BY <1>1 DEF IInv, HeldBySaver, Staged, Busy
<1> QED BY <1>2, <1>3, <1>4, <1>5, <1>6, <1>7

\* A request reaches a handler with the token in force.
LEMMA AdmitInv ==
    ASSUME IInv, NEW p \in Processes, NEW r \in Slots, Admit(p, r)
    PROVE  IInv'
<1>1. PICK presented \in Tokens \cup {Blank}, u \in Updates :
        /\ p \in Servers => Admits(p, presented)
        /\ SetSlot(p, r, [step |-> "admitted", presented |-> presented,
                          update |-> u, next |-> Defaults])
  BY DEF Admit
<1> DEFINE v == [step |-> "admitted", presented |-> presented,
                 update |-> u, next |-> Defaults]
<1>2. v \in SlotRecord /\ v.step = "admitted" /\ v.presented = presented /\ v.update = u
  BY DefaultsUsable DEF SlotRecord, Steps
<1>3. SetSlot(p, r, v)
  BY <1>1
<1>4. p \in Servers => v.presented = mem[p].token /\ mem[p].token # Blank
  BY <1>1, <1>2 DEF Admits
<1>5. /\ pc[p] = "serving" /\ holder[p] = NoSlot
      /\ requests < MaxRequests /\ requests' = requests + 1
      /\ UNCHANGED <<file, author, pc, mem, holder, history, starts, hands>>
  BY DEF Admit, LockFree
<1> HIDE DEF v
<1>6. requests' \in 0..MaxRequests
  BY <1>5, SlotFacts
<1> QED
  BY <1>2, <1>3, <1>4, <1>5, <1>6, SlotFacts, RequestKeeps DEF Busy, history

\* A refused request gives its slot up, and nothing else changes.
LEMMA RefuseInv ==
    ASSUME IInv, NEW p \in Processes, NEW r \in Slots, Refuse(p, r)
    PROVE  IInv'
<1>1. /\ slot[p][r].step = "admitted" /\ holder[p] = NoSlot /\ SetSlot(p, r, Free)
      /\ UNCHANGED <<file, author, pc, mem, holder, history, counters>>
  BY DEF Refuse, LockFree
<1>2. Free \in SlotRecord /\ Free.step = "free"
  BY FreeIsSlot DEF Free
<1> QED
  BY <1>1, <1>2, SlotFacts, RequestKeeps DEF Busy, history, counters

\* The mutex is taken, the copy staged, and the file is empty until the write.
LEMMA BeginSaveInv ==
    ASSUME IInv, NEW p \in Processes, NEW r \in Slots, BeginSave(p, r)
    PROVE  IInv'
<1> DEFINE u == slot[p][r].update
           v == [slot[p][r] EXCEPT !.step = "writing", !.next = Updated(mem[p], u)]
<1>1. /\ slot[p][r].step = "admitted" /\ holder[p] = NoSlot
      /\ SetSlot(p, r, v) /\ Accepted(mem[p], u) /\ file' = Empty
      /\ holder' = [holder EXCEPT ![p] = r]
      /\ UNCHANGED <<author, pc, mem, history, counters>>
  BY DEF BeginSave, LockFree
<1>2. Updated(mem[p], u) \in Settings
  BY <1>1, SlotFacts, UpdatedIsSettings
<1>3. /\ v \in SlotRecord /\ v.step = "writing" /\ v.presented = slot[p][r].presented
      /\ v.update = u /\ v.next = Updated(mem[p], u)
  <2>1. slot[p][r] \in SlotRecord
    BY SlotFacts
  <2> QED BY <1>2, <2>1 DEF SlotRecord, Steps
<1>4. DOMAIN u \subseteq Editable /\ Usable(Updated(mem[p], u))
  BY <1>1 DEF Accepted
<1>5. /\ v.step \in Busy /\ v.update \in Updates /\ pc[p] = "serving"
      /\ p \in Servers => v.presented = mem[p].token /\ mem[p].token # Blank
  BY <1>1, <1>3, SlotFacts DEF Busy
<1>6. /\ mem' = [mem EXCEPT ![p] = mem[p]] /\ promise' = [promise EXCEPT ![p] = mem[p]]
      /\ lasting' \in Settings /\ lastingIn' \subseteq Editable
      /\ requests' \in 0..MaxRequests /\ UNCHANGED <<pc, starts, hands>>
  BY <1>1, <1>5, SlotFacts DEF history, counters
<1>7. mem[p] \in Settings
  BY SlotFacts
<1> HIDE DEF v, u
<1> QED
  BY <1>1, <1>3, <1>4, <1>5, <1>6, <1>7, RequestKeeps

\* The staged copy is in the file, or the file cannot be read.
LEMMA WriteSaveInv ==
    ASSUME IInv, NEW p \in Processes, NEW r \in Slots, WriteSave(p, r)
    PROVE  IInv'
<1> DEFINE v == [slot[p][r] EXCEPT !.step = "written"]
<1>1. /\ slot[p][r].step = "writing" /\ SetSlot(p, r, v) /\ author' = p
      /\ file' = slot[p][r].next \/ file' = Garbled
      /\ UNCHANGED <<pc, mem, holder, history, counters>>
  BY DEF WriteSave, Outcomes
<1>2. /\ v \in SlotRecord /\ v.step = "written" /\ v.presented = slot[p][r].presented
      /\ v.update = slot[p][r].update /\ v.next = slot[p][r].next
  BY SlotFacts DEF SlotRecord, Steps
<1> HIDE DEF v
<1> QED
  BY <1>1, <1>2, SlotFacts, RequestKeeps DEF Busy, history, counters

\* A failed write leaves the copy in force and gives the mutex back.
LEMMA SaveFailsInv ==
    ASSUME IInv, NEW p \in Processes, NEW r \in Slots, SaveFails(p, r)
    PROVE  IInv'
<1>1. /\ slot[p][r].step = "writing" /\ SetSlot(p, r, Free)
      /\ file' = file \/ file' = Garbled
      /\ holder' = [holder EXCEPT ![p] = NoSlot]
      /\ UNCHANGED <<author, pc, mem, history, counters>>
  BY DEF SaveFails
<1>2. Free \in SlotRecord /\ Free.step = "free"
  BY FreeIsSlot DEF Free
<1>3. ~(author = p /\ file \in Settings)
  <2>1. holder[p] = r /\ pc[p] = "serving"
    BY <1>1, SlotFacts DEF Busy
  <2> QED BY <1>1, <2>1 DEF IInv, StoredOrStaged
<1>4. /\ mem' = [mem EXCEPT ![p] = mem[p]] /\ promise' = [promise EXCEPT ![p] = mem[p]]
      /\ lasting' \in Settings /\ lastingIn' \subseteq Editable
      /\ requests' \in 0..MaxRequests /\ UNCHANGED <<pc, starts, hands>>
      /\ mem[p] \in Settings /\ holder[p] = r /\ pc[p] = "serving"
  BY <1>1, SlotFacts DEF Busy, history, counters
<1>5. Free.step \notin Busy
  BY <1>2 DEF Busy
<1> QED
  BY <1>1, <1>2, <1>3, <1>4, <1>5, RequestKeeps

\* What was staged is put in force: it is the promise brought up to date.
LEMMA TellInv ==
    ASSUME IInv, NEW p \in Processes, NEW r \in Slots, Tell(p, r)
    PROVE  IInv'
<1> DEFINE u == slot[p][r].update
           n == slot[p][r].next
<1>1. /\ slot[p][r].step = "written" /\ SetSlot(p, r, Free)
      /\ mem' = [mem EXCEPT ![p] = n]
      /\ promise' = [promise EXCEPT ![p] = Updated(promise[p], u)]
      /\ holder' = [holder EXCEPT ![p] = NoSlot]
      /\ lasting' = Updated(lasting, u) /\ lastingIn' = lastingIn \cup DOMAIN u
      /\ UNCHANGED <<file, author, pc, counters>>
  BY SlotFacts DEF Tell
<1>2. /\ holder[p] = r /\ pc[p] = "serving" /\ u \in Updates
      /\ n = Updated(mem[p], u) /\ DOMAIN u \subseteq Editable
      /\ promise[p] = mem[p]
  BY <1>1, SlotFacts DEF Busy
<1>3. n \in Settings /\ n.token = mem[p].token
  BY <1>2, SlotFacts, UpdatedIsSettings
<1>4. lasting' \in Settings
  BY <1>1, <1>2, SlotFacts, UpdatedIsSettings
<1>5. Free \in SlotRecord /\ Free.step = "free"
  BY FreeIsSlot DEF Free
<1>6. author = p /\ file \in Settings => file = n
  BY <1>2 DEF IInv, StoredOrStaged
<1>7. promise' = [promise EXCEPT ![p] = n]
  BY <1>1, <1>2
<1> HIDE DEF n, u
<1> QED
  BY <1>1, <1>2, <1>3, <1>4, <1>5, <1>6, <1>7, SlotFacts, RequestKeeps
     DEF Busy, counters

-----------------------------------------------------------------------------
(* The surroundings, and the invariance.                                   *)

\* The end of a process takes its copy and its requests with it.
LEMMA EndInv ==
    ASSUME IInv, NEW p \in Processes, End(p)
    PROVE  IInv'
<1> USE DEF IInv
<1>1. /\ \A t \in Slots : slot'[p][t] = Free
      /\ \A q \in Processes, t \in Slots : q # p => slot'[q][t] = slot[q][t]
      /\ slot' \in [Processes -> [Slots -> SlotRecord]]
  BY FreeIsSlot DEF End, TypeOK, Types, HeldBySaver, SlotRecord
<1>2. file' = file \/ file' = Garbled
  BY DEF End
<1>3. TypeOK'
  <2>1. Types'
    BY <1>1, <1>2, DefaultsUsable
       DEF End, GoTo, TypeOK, Types, HeldBySaver, Stages, SlotRecord, counters, Free
  <2>2. HeldBySaver'
    BY <1>1, <1>2, DefaultsUsable
       DEF End, GoTo, TypeOK, Types, HeldBySaver, Stages, SlotRecord, counters, Free
  <2> QED BY <2>1, <2>2 DEF TypeOK
<1>4. (EditsInForce /\ Staged /\ StoredOrStaged /\ WrittenIsUsable /\ NoOpenSurface)'
  BY <1>1, <1>2, NotSettings
     DEF End, GoTo, TypeOK, Types, HeldBySaver, EditsInForce, Staged, Busy,
         StoredOrStaged, WrittenIsUsable, NoOpenSurface, Free, Processes
<1> QED BY <1>3, <1>4

\* An operator's file is no process's.
LEMMA EditByHandInv == ASSUME IInv, EditByHand PROVE IInv'
<1> USE DEF IInv
<1>1. TypeOK'
  <2>1. Types'
    BY LoadedIsSettings DEF EditByHand, TypeOK, Types, HeldBySaver, Readable
  <2>2. HeldBySaver'
    BY LoadedIsSettings DEF EditByHand, TypeOK, Types, HeldBySaver, Readable
  <2> QED BY <2>1, <2>2 DEF TypeOK
<1>2. (EditsInForce /\ Staged /\ StoredOrStaged /\ WrittenIsUsable /\ NoOpenSurface)'
  BY DEF EditByHand, TypeOK, Types, HeldBySaver, EditsInForce, Staged, StoredOrStaged, WrittenIsUsable, NoOpenSurface
<1> QED BY <1>1, <1>2

\* A step that changes nothing keeps the invariant.
LEMMA StutterInv == ASSUME IInv, UNCHANGED vars PROVE IInv'
BY DEF IInv, vars, history, counters, TypeOK, Types, HeldBySaver, EditsInForce, Staged, StoredOrStaged, WrittenIsUsable,
       NoOpenSurface, Usable

\* The invariant the theorems rest on.
THEOREM Invariance == Spec => []IInv
<1>1. IInv /\ [Next]_vars => IInv'
  <2> SUFFICES ASSUME IInv, [Next]_vars PROVE IInv'
    OBVIOUS
  <2>1. ASSUME NEW p \in Processes, NEW r \in Slots, RequestStep(p, r) PROVE IInv'
    BY <2>1, AdmitInv, RefuseInv, BeginSaveInv, WriteSaveInv, SaveFailsInv, TellInv
       DEF RequestStep
  <2> QED
    BY <2>1, StartInv, EndInv, EditByHandInv, StutterInv DEF Next
<1> QED BY <1>1, InitInv, PTL DEF Spec

\* Types, and the mutex is held exactly by the request that is saving
\* (AgentState::store).
THEOREM TypeCorrect == Spec => []TypeOK
BY Invariance, PTL DEF IInv

\* No edit that was told is lost to another request of the same process, and
\* none that was refused remains (SettingsStore::apply under the mutex).
THEOREM NoEditIsLost == Spec => []EditsInForce
BY Invariance, PTL DEF IInv

\* The file a process last wrote for a caller, while it can be read, is what
\* that process has in force (SettingsStore::apply, Settings::save).
THEOREM StoreAgrees == Spec => []StoredIsInForce
<1>1. IInv => StoredIsInForce
  BY DEF IInv, StoredOrStaged, StoredIsInForce
<1> QED BY <1>1, Invariance, PTL

\* What the zone writes validates, whatever its process started from
\* (Settings::with_update).
THEOREM ZoneWritesUsable == Spec => []WrittenIsUsable
BY Invariance, PTL DEF IInv

\* Nobody is served by a server whose token is blank, or under another token
\* than the one it holds (bearer_middleware).
THEOREM SurfaceStaysClosed == Spec => []NoOpenSurface
BY Invariance, PTL DEF IInv

HIDE DEF SettingsAssumption, ProcessAssumption

-----------------------------------------------------------------------------
(* PdfExport.                                                              *)

USE PrintAssumption

\* The empty name is no name, and no file is a PDF of no parts.
LEMMA Names ==
    /\ <<>> \notin Token
    /\ NoPdf \in Pdf /\ NoJob \in Job
    /\ \A t \in Token : t = <<t[1], t[2]>> /\ t[1] \in Process /\ t[2] \in 0..MaxPrints
<1>1. NoPdf \in Pdf
  BY DEF NoPdf, Pdf
<1>2. NoJob \in Job
  BY <1>1 DEF NoJob, Job
<1> QED
  BY <1>1, <1>2 DEF Token

\* A first state is well typed.
LEMMA PrintTypeInit == PrintInit => PrintTypeOK
<1> SUFFICES ASSUME PrintInit PROVE PrintTypeOK
  OBVIOUS
<1>1. \A p \in Process : job[p] = NoJob /\ count[p] = 0
  BY DEF PrintInit
<1>2. NoJob.token = <<>> /\ NoJob.stage = "none"
  BY DEF NoJob
<1> QED
  BY <1>1, <1>2, Names DEF PrintInit, PrintTypeOK

\* The job of a process as a step leaves it is a job, its name the process's.
JobOf(p, j) ==
    /\ j \in Job
    /\ j.token # <<>> => j.token[1] = p
    /\ j.stage = "none" => j = NoJob
    /\ j.stage \notin {"none", "told"} => j.token # <<>> /\ j.page \in Page

\* Out of the loop, or in it, a job stays one.
LEMMA LoopJobs ==
    ASSUME NEW p \in Process, NEW j, JobOf(p, j), j.token # <<>>, j.page \in Page, NEW there
    PROVE  JobOf(p, Left(j)) /\ JobOf(p, Later(j, there))
<1>1. -1 \in -1..Parts /\ 0 \in Nat
  BY DEF PrintAssumption
<1>2. j \in Job
  BY DEF JobOf
<1>3. Left(j) \in Job
  <2>1. [j EXCEPT !.stage = "clear"] \in Job
    BY <1>2 DEF Job
  <2>2. [[j EXCEPT !.stage = "clear"] EXCEPT !.last = -1] \in Job
    BY <1>1, <2>1 DEF Job
  <2> QED
    BY <1>1, <1>2, <2>2 DEF Left, Job
<1>a. Left(j).stage = "clear" /\ Left(j).token = j.token /\ Left(j).page = j.page
  BY <1>2 DEF Left, Job
<1>4. JobOf(p, Left(j))
  BY <1>3, <1>a DEF JobOf
<1> QED
  BY <1>4 DEF Later

\* Every step keeps the types.
LEMMA PrintTypeKept == PrintTypeOK /\ [PrintNext]_printvars => PrintTypeOK'
<1> SUFFICES ASSUME PrintTypeOK, [PrintNext]_printvars PROVE PrintTypeOK'
  OBVIOUS
<1>a. \A p \in Process : JobOf(p, job[p])
  BY DEF PrintTypeOK, JobOf
<1>b. ASSUME NEW p \in Process, NEW j, JobOf(p, j), job' = [job EXCEPT ![p] = j]
      PROVE  /\ job' \in [Process -> Job]
             /\ \A q \in Process : JobOf(q, job'[q])
  BY <1>a, <1>b DEF PrintTypeOK, JobOf
<1>t. ASSUME NEW p \in Process, job[p].stage \notin {"none", "told"}
      PROVE  job[p].token \in Token /\ job[p].page \in Page /\ job[p].token # <<>>
  BY <1>a, <1>t DEF JobOf, Job
<1>j. ASSUME job' \in [Process -> Job], \A q \in Process : JobOf(q, job'[q]),
             count' \in [Process -> Nat], \A q \in Process : count'[q] <= prints',
             run' \in [Process -> 0..MaxRuns],
             html' \in [Token -> Page \cup {NoFile, TornFile}], pdf' \in [Token -> Pdf],
             dirs' \subseteq Token, halted' \subseteq Token, stale' \subseteq Token,
             loose' \subseteq Token, browsers' \subseteq Browser, prints' \in 0..MaxPrints
      PROVE  PrintTypeOK'
  BY <1>j DEF PrintTypeOK, JobOf
<1>1. ASSUME NEW p \in Process, Decline(p) PROVE PrintTypeOK'
  <2>1. JobOf(p, [job[p] EXCEPT !.stage = "told"])
    BY <1>a DEF JobOf, Job
  <2>2. job' = [job EXCEPT ![p] = [job[p] EXCEPT !.stage = "told"]]
    BY <1>1 DEF Decline, PrintTypeOK
  <2> QED
    BY <1>1, <1>b, <1>j, <2>1, <2>2 DEF Decline, PrintTypeOK
<1>2. ASSUME NEW p \in Process, Convert(p) PROVE PrintTypeOK'
  <2> DEFINE j == [NoJob EXCEPT !.stage = "named", !.page = prints', !.token = <<p, count[p]>>]
  <2>1. prints' = prints + 1 /\ prints' \in Page /\ prints' \in 0..MaxPrints
    BY <1>2 DEF Convert, PrintTypeOK, Page
  <2>2. <<p, count[p]>> \in Token
    BY <2>1 DEF PrintTypeOK, Token, Page
  <2>3. j.stage = "named" /\ j.page = prints' /\ j.token = <<p, count[p]>>
    BY DEF NoJob
  <2>4. j \in Job
    BY <2>1, <2>2, Names DEF NoJob, Job
  <2>5. JobOf(p, j)
    BY <2>1, <2>2, <2>3, <2>4, Names DEF JobOf
  <2>6. /\ count' \in [Process -> Nat]
        /\ \A q \in Process : count'[q] <= prints'
    BY <1>2, <2>1 DEF Convert, Raised, PrintTypeOK
  <2> HIDE DEF j
  <2> QED
    BY <1>2, <1>b, <1>j, <2>1, <2>5, <2>6 DEF Convert, PrintTypeOK, j
<1>3. ASSUME NEW p \in Process, WriteHtml(p) PROVE PrintTypeOK'
  <2> DEFINE t == job[p].token
  <2>1. job[p].stage = "named"
    BY <1>3 DEF WriteHtml
  <2>2. t \in Token /\ job[p].page \in Page
    BY <1>t, <2>1
  <2>3. \A s \in {"written", "told"} : JobOf(p, [job[p] EXCEPT !.stage = s])
    BY <1>a, <1>t, <2>1 DEF JobOf, Job
  <2>4. \E s \in {"written", "told"} : job' = [job EXCEPT ![p] = [job[p] EXCEPT !.stage = s]]
    BY <1>3 DEF WriteHtml, PrintTypeOK
  <2>5. html' \in [Token -> Page \cup {NoFile, TornFile}] /\ loose' \subseteq Token
    BY <1>3, <2>2 DEF WriteHtml, PrintTypeOK
  <2> QED
    BY <1>3, <1>b, <1>j, <2>3, <2>4, <2>5 DEF WriteHtml, PrintTypeOK
<1>4. ASSUME NEW p \in Process, Launch(p) PROVE PrintTypeOK'
  <2>1. job[p].stage = "written"
    BY <1>4 DEF Launch
  <2>2. job[p].token \in Token
    BY <1>t, <2>1
  <2>3. \A s \in {"running", "clear"} : JobOf(p, [job[p] EXCEPT !.stage = s])
    BY <1>a, <1>t, <2>1 DEF JobOf, Job
  <2>4. \E s \in {"running", "clear"} : job' = [job EXCEPT ![p] = [job[p] EXCEPT !.stage = s]]
    BY <1>4 DEF Launch, PrintTypeOK
  <2>5. [token |-> job[p].token, run |-> run[p], stage |-> "started", page |-> NoFile,
         done |-> 0, linked |-> FALSE, due |-> FALSE] \in Browser
    BY <2>2 DEF Browser, PrintTypeOK
  <2>6. browsers' \subseteq Browser /\ dirs' \subseteq Token
    BY <1>4, <2>2, <2>5 DEF Launch, PrintTypeOK
  <2> QED
    BY <1>4, <1>b, <1>j, <2>3, <2>4, <2>6 DEF Launch, PrintTypeOK
<1>5. ASSUME NEW p \in Process, BrowserExits(p) PROVE PrintTypeOK'
  <2>1. job[p].stage = "running"
    BY <1>5 DEF BrowserExits
  <2>2. \A s \in {"waiting", "clear"} : JobOf(p, [job[p] EXCEPT !.stage = s])
    BY <1>a, <1>t, <2>1 DEF JobOf, Job
  <2>3. \E s \in {"waiting", "clear"} : job' = [job EXCEPT ![p] = [job[p] EXCEPT !.stage = s]]
    BY <1>5 DEF BrowserExits, PrintTypeOK
  <2> QED
    BY <1>5, <1>b, <1>j, <2>2, <2>3 DEF BrowserExits, PrintTypeOK
<1>6. ASSUME NEW p \in Process, Poll(p) PROVE PrintTypeOK'
  <2> DEFINE len == pdf[job[p].token].parts
             seen == [job[p] EXCEPT !.polls = @ + 1, !.last = IF len >= 0 THEN len ELSE @]
  <2>1. job[p].stage = "waiting"
    BY <1>6 DEF Poll
  <2>2. /\ job[p].token \in Token /\ job[p].page \in Page /\ job[p].token # <<>>
        /\ len \in -1..Parts
    BY <1>t, <2>1 DEF PrintTypeOK, Pdf
  <2>a. /\ job[p] \in Job /\ job[p].polls + 1 \in Nat
        /\ (IF len >= 0 THEN len ELSE job[p].last) \in -1..Parts
    BY <1>a, <2>2 DEF JobOf, Job
  <2>b. seen \in Job /\ [seen EXCEPT !.stage = "reading"] \in Job
    BY <2>a DEF Job
  <2>c. /\ seen.token = job[p].token /\ seen.page = job[p].page
        /\ seen.stage = "waiting" /\ [seen EXCEPT !.stage = "reading"].stage = "reading"
        /\ [seen EXCEPT !.stage = "reading"].token = job[p].token
        /\ [seen EXCEPT !.stage = "reading"].page = job[p].page
    BY <2>1, <2>a DEF Job
  <2>3. /\ JobOf(p, seen) /\ seen.token = job[p].token /\ seen.page = job[p].page
        /\ JobOf(p, [seen EXCEPT !.stage = "reading"])
    BY <1>a, <2>2, <2>b, <2>c DEF JobOf
  <2>4. JobOf(p, Left(seen)) /\ JobOf(p, Later(seen, len >= 0))
    BY <2>2, <2>3, LoopJobs
  <2>5. \E j : JobOf(p, j) /\ job' = [job EXCEPT ![p] = j]
    BY <1>6, <2>3, <2>4 DEF Poll
  <2>6. \A b \in browsers : b \in Browser /\ [b EXCEPT !.due = TRUE] \in Browser
    BY ZenonT(60) DEF PrintTypeOK, Browser
  <2>7. browsers' \subseteq Browser /\ halted' \subseteq Token
    BY <1>6, <2>2, <2>6 DEF Poll, PrintTypeOK
  <2> QED
    BY <1>6, <1>b, <1>j, <2>5, <2>7 DEF Poll, PrintTypeOK
<1>7. ASSUME NEW p \in Process, Read(p) PROVE PrintTypeOK'
  <2> DEFINE got == pdf[job[p].token]
             again == [job[p] EXCEPT !.stage = "waiting"]
  <2>1. job[p].stage = "reading"
    BY <1>7 DEF Read
  <2>2. job[p].token \in Token /\ job[p].page \in Page /\ job[p].token # <<>> /\ got \in Pdf
    BY <1>t, <2>1 DEF PrintTypeOK
  <2>3. JobOf(p, again) /\ again.token = job[p].token /\ again.page = job[p].page
    BY <1>a, <2>1, <2>2 DEF JobOf, Job
  <2>4. JobOf(p, Left(job[p])) /\ JobOf(p, Later(again, TRUE))
    BY <1>a, <2>2, <2>3, LoopJobs
  <2>a. Left(job[p]).stage = "clear"
    BY <1>a DEF Left, JobOf, Job
  <2>5. JobOf(p, [Left(job[p]) EXCEPT !.got = got])
    BY <2>2, <2>4, <2>a DEF JobOf, Job
  <2>6. \E j : JobOf(p, j) /\ job' = [job EXCEPT ![p] = j]
    BY <1>7, <2>4, <2>5 DEF Read
  <2> QED
    BY <1>7, <1>b, <1>j, <2>6 DEF Read, PrintTypeOK
<1>8. ASSUME NEW p \in Process, Clear(p) PROVE PrintTypeOK'
  <2> DEFINE t == job[p].token
  <2>1. job[p].stage = "clear"
    BY <1>8 DEF Clear
  <2>2. t \in Token
    BY <1>t, <2>1
  <2>3. JobOf(p, [job[p] EXCEPT !.stage = "told"])
    BY <1>a DEF JobOf, Job
  <2>4. job' = [job EXCEPT ![p] = [job[p] EXCEPT !.stage = "told"]]
    BY <1>8 DEF Clear, PrintTypeOK
  <2>a. /\ html' \in {html, [html EXCEPT ![t] = NoFile]}
        /\ pdf' \in {pdf, [pdf EXCEPT ![t] = NoPdf]}
        /\ dirs' \in {dirs, dirs \ {t}} /\ loose' \in {loose, loose \cup {t}}
    BY <1>8 DEF Clear, Kept
  <2>b. html' \in [Token -> Page \cup {NoFile, TornFile}]
    BY <2>2, <2>a DEF PrintTypeOK
  <2>c. NoPdf \in Pdf
    BY Names
  <2>d. pdf' \in [Token -> Pdf]
    BY <2>2, <2>a, <2>c DEF PrintTypeOK
  <2>5. dirs' \subseteq Token /\ loose' \subseteq Token
    BY <2>2, <2>a DEF PrintTypeOK
  <2>6. \A b \in browsers : b \in Browser /\ [b EXCEPT !.linked = FALSE] \in Browser
    BY ZenonT(60) DEF PrintTypeOK, Browser
  <2>7. browsers' \subseteq Browser
    BY <1>8, <2>6 DEF Clear
  <2> QED
    BY <1>8, <1>b, <1>j, <2>3, <2>4, <2>b, <2>d, <2>5, <2>7 DEF Clear, PrintTypeOK
<1>9. ASSUME NEW p \in Process, Return(p) PROVE PrintTypeOK'
  <2>1. JobOf(p, NoJob)
    BY Names DEF JobOf, NoJob
  <2> QED
    BY <1>9, <1>b, <1>j, <2>1 DEF Return, PrintTypeOK
<1>10. ASSUME NEW p \in Process, Restart(p) PROVE PrintTypeOK'
  <2>1. JobOf(p, NoJob)
    BY Names DEF JobOf, NoJob
  <2>2. job' \in [Process -> Job] /\ \A q \in Process : JobOf(q, job'[q])
    BY <1>10, <1>b, <2>1 DEF Restart
  <2>3. /\ count' \in [Process -> Nat] /\ \A q \in Process : count'[q] <= prints'
        /\ run' \in [Process -> 0..MaxRuns]
    BY <1>10 DEF Restart, PrintTypeOK
  <2>4. stale' \subseteq Token /\ loose' \subseteq Token
    BY <1>10, <1>a DEF Restart, PrintTypeOK, JobOf, Job
  <2> QED
    BY <1>10, <1>j, <2>2, <2>3, <2>4 DEF Restart, PrintTypeOK
<1>11. ASSUME NEW b \in browsers, LoadPage(b) PROVE PrintTypeOK'
  <2>1. b \in Browser /\ [b EXCEPT !.stage = "loaded", !.page = html[b.token]] \in Browser
    BY DEF PrintTypeOK, Browser
  <2>2. browsers' \subseteq Browser /\ dirs' \subseteq Token
    BY <1>11, <2>1 DEF LoadPage, PrintTypeOK, Browser
  <2> QED
    BY <1>11, <1>a, <1>j, <2>2 DEF LoadPage, PrintTypeOK
<1>12. ASSUME NEW b \in browsers, OpenPdf(b) PROVE PrintTypeOK'
  <2>1. b \in Browser /\ [b EXCEPT !.stage = "writing", !.linked = TRUE, !.due = FALSE] \in Browser
    BY ZenonT(60) DEF PrintTypeOK, Browser
  <2>2. [pages |-> {}, parts |-> 0] \in Pdf
    BY DEF Pdf
  <2>3. browsers' \subseteq Browser /\ pdf' \in [Token -> Pdf]
    BY <1>12, <2>1, <2>2 DEF OpenPdf, PrintTypeOK
  <2> QED
    BY <1>12, <1>a, <1>j, <2>3 DEF OpenPdf, PrintTypeOK
<1>13. ASSUME NEW b \in browsers, WritePart(b) PROVE PrintTypeOK'
  <2> DEFINE was == pdf[b.token]
             got == [pages |-> was.pages \cup {b.page},
                      parts |-> IF b.done < was.parts THEN was.parts ELSE b.done + 1]
  <2>1. b \in Browser /\ b.done < Parts
    BY <1>13 DEF PrintTypeOK, WritePart
  <2>a. b.done + 1 \in 0..Parts
    BY <2>1 DEF Browser, PrintAssumption
  <2>2. [b EXCEPT !.done = @ + 1, !.due = FALSE] \in Browser
    BY <2>1, <2>a DEF Browser
  <2>3. was \in Pdf
    BY <2>1 DEF PrintTypeOK, Browser
  <2>4. got \in Pdf
    BY <2>1, <2>3 DEF Pdf, Browser
  <2>5. browsers' \subseteq Browser /\ pdf' \in [Token -> Pdf]
    BY <1>13, <2>1, <2>2, <2>4 DEF WritePart, PrintTypeOK
  <2> QED
    BY <1>13, <1>a, <1>j, <2>5 DEF WritePart, PrintTypeOK
<1>14. ASSUME NEW b \in browsers, Quit(b) PROVE PrintTypeOK'
  <2>1. b \in Browser
    BY DEF PrintTypeOK
  <2>2. browsers' \subseteq Browser /\ halted' \subseteq Token
    BY <1>14, <2>1 DEF Quit, PrintTypeOK, Browser
  <2> QED
    BY <1>14, <1>a, <1>j, <2>2 DEF Quit, PrintTypeOK
<1>15. CASE UNCHANGED printvars
  BY <1>15, <1>a, <1>j DEF printvars, PrintTypeOK
<1> QED
  BY <1>1, <1>2, <1>3, <1>4, <1>5, <1>6, <1>7, <1>8, <1>9, <1>10, <1>11, <1>12, <1>13,
     <1>14, <1>15 DEF PrintNext, Advance

\* Every reachable state of the conversions is well typed: a call has names of
\* its own process's, and no count outruns the conversions.
THEOREM PrintTypes == PrintSpec => []PrintTypeOK
<1> QED
  BY PrintTypeInit, PrintTypeKept, PTL DEF PrintSpec

-----------------------------------------------------------------------------
\* What there is under a name, in a file, in a directory, or a browser at work
\* that may make either, is in use or accounted for.
Accounted ==
    \A t \in Token :
        html[t] # NoFile \/ pdf[t] # NoPdf \/ t \in dirs \/ Running(t) =>
            \/ t \in loose
            \/ \E p \in Process : job[p].token = t /\ job[p].stage # "told"

\* A call keeps its name, and is told only when it has cleared up or could not
\* write its page.
LEMMA SameName ==
    ASSUME PrintTypeOK, NEW p \in Process,
           \/ WriteHtml(p) \/ Launch(p) \/ BrowserExits(p) \/ Poll(p) \/ Read(p) \/ Clear(p)
    PROVE  \E j : /\ job' = [job EXCEPT ![p] = j]
                  /\ j.token = job[p].token
                  /\ j.stage = "told" =>
                        \/ WriteHtml(p) /\ job[p].token \in loose'
                        \/ Clear(p)
<1> USE DEF PrintTypeOK
<1>a. job[p] \in Job
  OBVIOUS
<1>b. ASSUME NEW s
      PROVE  /\ [job[p] EXCEPT !.stage = s].token = job[p].token
             /\ [job[p] EXCEPT !.stage = s].stage = s
  BY <1>a DEF Job
<1>1. CASE WriteHtml(p)
  <2>1. job' = [job EXCEPT ![p] = [job[p] EXCEPT !.stage = "written"]] \/
        /\ job' = [job EXCEPT ![p] = [job[p] EXCEPT !.stage = "told"]]
        /\ job[p].token \in loose'
    BY <1>1 DEF WriteHtml
  <2> DEFINE on  == [job[p] EXCEPT !.stage = "written"]
             out == [job[p] EXCEPT !.stage = "told"]
  <2>2. on.token = job[p].token /\ on.stage = "written" /\ out.token = job[p].token
    BY <1>b
  <2>3. \/ job' = [job EXCEPT ![p] = on]
        \/ job' = [job EXCEPT ![p] = out] /\ job[p].token \in loose'
    BY <2>1
  <2> HIDE DEF on, out
  <2>4. CASE job' = [job EXCEPT ![p] = on]
    BY <2>2, <2>4
  <2>5. CASE job' = [job EXCEPT ![p] = out] /\ job[p].token \in loose'
    BY <1>1, <2>2, <2>5
  <2> QED
    BY <2>3, <2>4, <2>5
<1>2. CASE Launch(p)
  <2>1. \E s \in {"running", "clear"} : job' = [job EXCEPT ![p] = [job[p] EXCEPT !.stage = s]]
    BY <1>2 DEF Launch
  <2> QED
    BY <1>b, <2>1
<1>3. CASE BrowserExits(p)
  <2>1. \E s \in {"waiting", "clear"} : job' = [job EXCEPT ![p] = [job[p] EXCEPT !.stage = s]]
    BY <1>3 DEF BrowserExits
  <2> QED
    BY <1>b, <2>1
<1>4. CASE Poll(p)
  <2> DEFINE len == pdf[job[p].token].parts
             seen == [job[p] EXCEPT !.polls = @ + 1, !.last = IF len >= 0 THEN len ELSE @]
  <2>1. /\ seen.token = job[p].token /\ seen.stage = "waiting"
        /\ [seen EXCEPT !.stage = "reading"].token = job[p].token
        /\ [seen EXCEPT !.stage = "reading"].stage = "reading"
        /\ Left(seen).token = job[p].token /\ Left(seen).stage = "clear"
    BY <1>4, <1>a DEF Poll, Job, Left
  <2>2. Later(seen, len >= 0) \in {seen, Left(seen)}
    BY DEF Later
  <2>3. \E j \in {seen, Left(seen), [seen EXCEPT !.stage = "reading"]} : job' = [job EXCEPT ![p] = j]
    BY <1>4, <2>2 DEF Poll
  <2> HIDE DEF seen
  <2> QED
    BY <2>1, <2>3
<1>5. CASE Read(p)
  <2> DEFINE got == pdf[job[p].token]
             again == [job[p] EXCEPT !.stage = "waiting"]
  <2>1. /\ again.token = job[p].token /\ again.stage = "waiting"
        /\ Left(again).token = job[p].token /\ Left(again).stage = "clear"
        /\ Left(job[p]).token = job[p].token /\ Left(job[p]).stage = "clear"
        /\ [Left(job[p]) EXCEPT !.got = got].token = job[p].token
        /\ [Left(job[p]) EXCEPT !.got = got].stage = "clear"
    BY <1>a DEF Job, Left
  <2>2. Later(again, TRUE) \in {again, Left(again)}
    BY DEF Later
  <2>a. \/ job' = [job EXCEPT ![p] = [Left(job[p]) EXCEPT !.got = got]]
        \/ job' = [job EXCEPT ![p] = Later(again, TRUE)]
        \/ job' = [job EXCEPT ![p] = Left(job[p])]
    BY <1>5 DEF Read
  <2>3. \E j \in {again, Left(again), Left(job[p]), [Left(job[p]) EXCEPT !.got = got]} :
            job' = [job EXCEPT ![p] = j]
    <3> HIDE DEF again, got
    <3> QED
      BY <2>2, <2>a
  <2> HIDE DEF again, got
  <2> QED
    BY <2>1, <2>3
<1>6. CASE Clear(p)
  <2>1. job' = [job EXCEPT ![p] = [job[p] EXCEPT !.stage = "told"]]
    BY <1>6 DEF Clear
  <2> QED
    BY <1>6, <1>b, <2>1
<1> QED
  BY <1>1, <1>2, <1>3, <1>4, <1>5, <1>6

\* Every step keeps the account.
LEMMA AccountKept == PrintTypeOK /\ Accounted /\ [PrintNext]_printvars => Accounted'
<1> SUFFICES ASSUME PrintTypeOK, Accounted, [PrintNext]_printvars,
                    NEW t \in Token,
                    html'[t] # NoFile \/ pdf'[t] # NoPdf \/ t \in dirs' \/ Running(t)'
             PROVE  \/ t \in loose'
                    \/ \E p \in Process : job'[p].token = t /\ job'[p].stage # "told"
  BY DEF Accounted
<1> DEFINE There == html[t] # NoFile \/ pdf[t] # NoPdf \/ t \in dirs \/ Running(t)
           Used(p) == job[p].token = t /\ job[p].stage # "told"
<1>a. There => t \in loose \/ \E p \in Process : Used(p)
  BY DEF Accounted
<1>b. \A p \in Process : Used(p) => job[p].stage # "none"
  BY Names DEF PrintTypeOK, NoJob
<1> HIDE DEF There, Used
<1>1. ASSUME NEW p \in Process, Decline(p) PROVE t \in loose' \/ \E q \in Process : Used(q)'
  <2>1. There
    BY <1>1 DEF Decline, There, Running
  <2>2. \A q \in Process : Used(q) => Used(q)'
    BY <1>1, <1>b DEF Decline, Used, PrintTypeOK
  <2> QED
    BY <1>1, <1>a, <2>1, <2>2 DEF Decline
<1>2. ASSUME NEW p \in Process, Convert(p) PROVE t \in loose' \/ \E q \in Process : Used(q)'
  <2>1. There
    BY <1>2 DEF Convert, There, Running
  <2>2. \A q \in Process : Used(q) => Used(q)'
    BY <1>2, <1>b DEF Convert, Used, PrintTypeOK
  <2> QED
    BY <1>2, <1>a, <2>1, <2>2 DEF Convert
<1>3. ASSUME NEW p \in Process, WriteHtml(p) \/ Launch(p)
      PROVE  t \in loose' \/ \E q \in Process : Used(q)'
  <2>1. PICK j : /\ job' = [job EXCEPT ![p] = j] /\ j.token = job[p].token
                 /\ j.stage = "told" => (WriteHtml(p) /\ job[p].token \in loose') \/ Clear(p)
    BY <1>3, SameName
  <2>2. ~Clear(p) /\ loose \subseteq loose'
    BY <1>3 DEF WriteHtml, Launch, Clear
  <2>3. t = job[p].token => Used(p)' \/ t \in loose'
    BY <2>1, <2>2 DEF Used, PrintTypeOK
  <2>4. t # job[p].token => There
    BY <1>3 DEF WriteHtml, Launch, There, Running, PrintTypeOK
  <2>5. \A q \in Process : t # job[p].token /\ Used(q) => Used(q)'
    BY <2>1 DEF Used, PrintTypeOK
  <2> QED
    BY <1>a, <2>2, <2>3, <2>4, <2>5
<1>5. ASSUME NEW p \in Process, BrowserExits(p) \/ Poll(p) \/ Read(p)
      PROVE  t \in loose' \/ \E q \in Process : Used(q)'
  <2>1. PICK j : /\ job' = [job EXCEPT ![p] = j] /\ j.token = job[p].token
                 /\ j.stage = "told" => (WriteHtml(p) /\ job[p].token \in loose') \/ Clear(p)
    BY <1>5, SameName
  <2>2. ~Clear(p) /\ ~WriteHtml(p) /\ loose' = loose
    BY <1>5 DEF BrowserExits, Poll, Read, Clear, WriteHtml
  <2>b. \A b \in browsers : [b EXCEPT !.due = TRUE].token = b.token
    BY DEF PrintTypeOK, Browser
  <2>c. \/ browsers' = browsers
        \/ browsers' = {IF b.token = job[p].token THEN [b EXCEPT !.due = TRUE] ELSE b : b \in browsers}
    BY <1>5 DEF BrowserExits, Poll, Read
  <2>a. \A c \in browsers' : \E b \in browsers : b.token = c.token
    <3> SUFFICES ASSUME NEW c \in browsers' PROVE \E b \in browsers : b.token = c.token
      OBVIOUS
    <3>1. CASE browsers' = browsers
      BY <3>1
    <3>2. CASE browsers' = {IF b.token = job[p].token THEN [b EXCEPT !.due = TRUE] ELSE b : b \in browsers}
      <4>1. PICK b \in browsers : c = IF b.token = job[p].token THEN [b EXCEPT !.due = TRUE] ELSE b
        BY <3>2
      <4> QED
        BY <4>1, <2>b
    <3> QED
      BY <2>c, <3>1, <3>2
  <2>3. Running(t)' => Running(t)
    BY <2>a DEF Running
  <2>4. There
    BY <1>5, <2>3 DEF BrowserExits, Poll, Read, There
  <2>5. \A q \in Process : Used(q) => Used(q)'
    BY <2>1, <2>2 DEF Used, PrintTypeOK
  <2> QED
    BY <1>a, <2>2, <2>4, <2>5
<1>8. ASSUME NEW p \in Process, Clear(p) PROVE t \in loose' \/ \E q \in Process : Used(q)'
  <2>1. Running(t)' => Running(t)
    BY <1>8 DEF Clear, Running, PrintTypeOK, Browser
  <2>2. CASE t = job[p].token
    <3>1. CASE Running(t)
      BY <1>8, <2>2, <3>1 DEF Clear
    <3>2. CASE ~Running(t)
      <4>1. html' = [html EXCEPT ![t] = NoFile] /\ pdf' = [pdf EXCEPT ![t] = NoPdf] /\ dirs' = dirs \ {t}
        BY <1>8, <2>2, <3>2 DEF Clear, Kept
      <4> QED
        BY <4>1, <3>2, <2>1 DEF PrintTypeOK
    <3> QED
      BY <3>1, <3>2
  <2>3. CASE t # job[p].token
    <3>1. html'[t] = html[t] /\ pdf'[t] = pdf[t] /\ (t \in dirs' => t \in dirs) /\ loose \subseteq loose'
      BY <1>8, <2>3 DEF Clear, Kept, PrintTypeOK
    <3>2. There
      BY <2>1, <3>1 DEF There
    <3>3. \A q \in Process : Used(q) => Used(q)'
      BY <1>8, <2>3 DEF Clear, Used, PrintTypeOK
    <3> QED
      BY <1>a, <3>1, <3>2, <3>3
  <2> QED
    BY <2>2, <2>3
<1>9. ASSUME NEW p \in Process, Return(p) PROVE t \in loose' \/ \E q \in Process : Used(q)'
  <2>1. There
    BY <1>9 DEF Return, There, Running
  <2>2. \A q \in Process : Used(q) => Used(q)'
    BY <1>9 DEF Return, Used, PrintTypeOK
  <2> QED
    BY <1>9, <1>a, <2>1, <2>2 DEF Return
<1>10. ASSUME NEW p \in Process, Restart(p) PROVE t \in loose' \/ \E q \in Process : Used(q)'
  <2>1. There
    BY <1>10 DEF Restart, There, Running
  <2>2. \A q \in Process : Used(q) => Used(q)' \/ t \in loose'
    BY <1>10, Names DEF Restart, Used, PrintTypeOK
  <2>3. loose \subseteq loose'
    BY <1>10 DEF Restart
  <2> QED
    BY <1>a, <2>1, <2>2, <2>3
<1>11. ASSUME NEW b \in browsers, LoadPage(b) \/ OpenPdf(b) \/ WritePart(b) \/ Quit(b)
       PROVE  t \in loose' \/ \E q \in Process : Used(q)'
  <2>1. b.token \in Token /\ Running(b.token) /\ b \in Browser
    BY DEF PrintTypeOK, Browser, Running
  <2>2. t # b.token => html'[t] = html[t] /\ pdf'[t] = pdf[t] /\ (t \in dirs' => t \in dirs)
    BY <1>11, <2>1 DEF LoadPage, OpenPdf, WritePart, Quit, PrintTypeOK
  <2>a. /\ [b EXCEPT !.stage = "loaded", !.page = html[b.token]].token = b.token
        /\ [b EXCEPT !.stage = "writing", !.linked = TRUE, !.due = FALSE].token = b.token
        /\ [b EXCEPT !.done = @ + 1, !.due = FALSE].token = b.token
    BY <2>1 DEF Browser
  <2>3. \A c \in browsers' : c \in browsers \/ c.token = b.token
    BY <1>11, <2>a DEF LoadPage, OpenPdf, WritePart, Quit
  <2>4. There
    BY <2>1, <2>2, <2>3 DEF There, Running
  <2>5. loose' = loose /\ job' = job
    BY <1>11 DEF LoadPage, OpenPdf, WritePart, Quit
  <2> QED
    BY <1>a, <2>4, <2>5 DEF Used
<1>12. ASSUME UNCHANGED printvars PROVE t \in loose' \/ \E q \in Process : Used(q)'
  BY <1>12, <1>a DEF printvars, There, Running, Used
<1>s. \/ \E p \in Process : \/ Decline(p) \/ Convert(p) \/ WriteHtml(p) \/ Launch(p)
                            \/ BrowserExits(p) \/ Poll(p) \/ Read(p) \/ Clear(p) \/ Return(p)
                            \/ Restart(p)
      \/ \E b \in browsers : LoadPage(b) \/ OpenPdf(b) \/ WritePart(b) \/ Quit(b)
      \/ UNCHANGED printvars
  BY DEF PrintNext, Advance
<1>13. t \in loose' \/ \E q \in Process : Used(q)'
  BY <1>s, <1>1, <1>2, <1>3, <1>5, <1>8, <1>9, <1>10, <1>11, <1>12
<1> QED
  BY <1>13 DEF Used

\* No way a conversion ends leaves a file or a directory behind, but for the ones
\* NothingLeft names: whatever the browsers do, and whenever processes end.
THEOREM NothingIsLeft == PrintSpec => []NothingLeft
<1>1. PrintInit => Accounted
  BY DEF PrintInit, Accounted, Running
<1>2. Accounted => NothingLeft
  BY DEF Accounted, NothingLeft
<1> QED
  BY <1>1, <1>2, PrintTypeInit, PrintTypeKept, AccountKept, PTL DEF PrintSpec

-----------------------------------------------------------------------------
\* The browsers at work under a name.
At(t) == {b \in browsers : b.token = t}

\* What holds of a conversion j whose name nobody had before, of the page h and
\* the PDF f under that name, and of the browsers B at work on them: there is one
\* at most, it has loaded this page, the file has what it wrote and no other, and
\* a size seen twice over a browser that writes is a pause.  "cut" tells whether
\* there was one, or a browser that ended short.
Sound(j, h, f, B, cut) ==
    /\ j.stage \in {"named", "written"} => f = NoPdf /\ B = {}
    /\ j.stage \in {"named", "written", "running"} => j.last = -1
    /\ j.stage \in {"none", "named", "written", "running", "waiting", "reading"} => j.got = NoPdf
    /\ j.stage \in {"written", "running", "waiting", "reading"} => h = j.page
    /\ j.stage \in {"running", "waiting", "reading"} =>
        /\ \A b, c \in B : b = c
        /\ \A b \in B :
            /\ b.stage # "started" => b.page = j.page
            /\ b.linked = (b.stage = "writing")
            /\ b.stage = "writing" => f.parts = b.done /\ (j.last = b.done => b.due)
            /\ b.stage # "writing" => f = NoPdf /\ b.done = 0
        /\ f.pages \subseteq {j.page} /\ (f.parts > 0 => f.pages # {})
        /\ f.parts \in 0..(Parts - 1) => cut \/ \E b \in B : b.stage = "writing"
        /\ j.last <= f.parts
    /\ j.stage = "reading" => f.parts > 0 /\ (f.parts = Parts \/ cut)
    /\ j.got # NoPdf => j.got.pages = {j.page} /\ (j.got.parts = Parts \/ cut)

\* Of the names of a process: those not taken yet have nothing under them, and
\* the one in use is sound, unless an earlier process left something there.
OwnOf(p) ==
    /\ \A n \in count[p]..MaxPrints :
        <<p, n>> \in stale \/ (pdf[<<p, n>>] = NoPdf /\ At(<<p, n>>) = {})
    /\ job[p].token # <<>> =>
        /\ job[p].token[2] < count[p]
        /\ job[p].token \in stale
           \/ Sound(job[p], html[job[p].token], pdf[job[p].token], At(job[p].token),
                    job[p].token \in halted)
    /\ job[p].token = <<>> => job[p].got = NoPdf

Own == \A p \in Process : OwnOf(p)

\* A step that touches neither the process nor anything under the name it uses,
\* nor under those nothing is at work under.
LEMMA Elsewhere ==
    ASSUME PrintTypeOK, NEW p \in Process, OwnOf(p),
           job'[p] = job[p], count'[p] = count[p],
           \A t \in Token : t[1] = p /\ (t = job[p].token \/ At(t) = {}) =>
                /\ html'[t] = html[t] /\ pdf'[t] = pdf[t] /\ At(t)' = At(t),
           halted \subseteq halted', stale \subseteq stale'
    PROVE  OwnOf(p)'
<1>1. ASSUME NEW n \in (count[p]..MaxPrints)'
      PROVE  (<<p, n>> \in stale \/ (pdf[<<p, n>>] = NoPdf /\ At(<<p, n>>) = {}))'
  <2>1. n \in count[p]..MaxPrints /\ <<p, n>> \in Token
    BY DEF PrintTypeOK, Token
  <2> QED
    BY <2>1 DEF OwnOf
<1>2. ASSUME job[p].token # <<>>
      PROVE  /\ job[p].token[2] < count'[p]
             /\ job[p].token \in stale'
                \/ Sound(job[p], html'[job[p].token], pdf'[job[p].token], At(job[p].token)',
                         job[p].token \in halted')
  <2> DEFINE t == job[p].token
  <2>1. t \in Token /\ t[1] = p
    BY <1>2 DEF PrintTypeOK, Job
  <2>2. html'[t] = html[t] /\ pdf'[t] = pdf[t] /\ At(t)' = At(t)
    BY <2>1
  <2>3. t[2] < count[p] /\ (t \in stale \/ Sound(job[p], html[t], pdf[t], At(t), t \in halted))
    BY <1>2 DEF OwnOf
  <2> HIDE DEF t
  <2>4. Sound(job[p], html[t], pdf[t], At(t), t \in halted)
        => Sound(job[p], html[t], pdf[t], At(t), t \in halted')
    BY DEF Sound
  <2>5. t[2] < count'[p] /\ (t \in stale' \/ Sound(job[p], html'[t], pdf'[t], At(t)', t \in halted'))
    BY <2>2, <2>3, <2>4
  <2> QED
    BY <2>5 DEF t
<1>3. job[p].token = <<>> => job[p].got = NoPdf
  BY DEF OwnOf
<1> QED
  BY <1>1, <1>2, <1>3 DEF OwnOf

\* A step under the name in use leaves the others of the process alone, and
\* makes the conversion sound again.
LEMMA Here ==
    ASSUME PrintTypeOK, NEW p \in Process, OwnOf(p), NEW t \in Token,
           t = job[p].token, job'[p].token = t,
           count'[p] = count[p], stale \subseteq stale',
           \A u \in Token : u # t => pdf'[u] = pdf[u] /\ At(u)' = At(u),
           Sound(job[p], html[t], pdf[t], At(t), t \in halted)
           => Sound(job'[p], html'[t], pdf'[t], At(t)', t \in halted')
    PROVE  OwnOf(p)'
<1>1. t # <<>> /\ t[2] < count[p] /\ t = <<t[1], t[2]>>
  BY Names DEF OwnOf
<1>2. ASSUME NEW n \in (count[p]..MaxPrints)'
      PROVE  (<<p, n>> \in stale \/ (pdf[<<p, n>>] = NoPdf /\ At(<<p, n>>) = {}))'
  <2>1. n \in count[p]..MaxPrints /\ <<p, n>> \in Token
    BY DEF PrintTypeOK, Token
  <2>2. <<p, n>>[2] = n /\ n # t[2]
    BY <1>1, <2>1, Names DEF PrintTypeOK
  <2>3. <<p, n>> # t
    BY <2>2
  <2>4. pdf'[<<p, n>>] = pdf[<<p, n>>] /\ At(<<p, n>>)' = At(<<p, n>>)
    BY <2>1, <2>3
  <2> QED
    BY <2>1, <2>4 DEF OwnOf
<1>3. t \in stale \/ Sound(job[p], html[t], pdf[t], At(t), t \in halted)
  BY <1>1 DEF OwnOf
<1>4. t \in stale' \/ Sound(job'[p], html'[t], pdf'[t], At(t)', t \in halted')
  BY <1>3
<1> QED
  BY <1>1, <1>2, <1>4 DEF OwnOf

\* A conversion that begins takes a name under which there is nothing.
LEMMA OwnBegins ==
    ASSUME PrintTypeOK, NEW p \in Process, OwnOf(p),
           Decline(p) \/ Convert(p) \/ Return(p)
    PROVE  OwnOf(p)'
<1>1. \A u : At(u)' = At(u)
  BY DEF Decline, Convert, Return, At
<1>2. NoJob.token = <<>> /\ NoJob.got = NoPdf
  BY DEF NoJob
<1>3. CASE Decline(p)
  <2>1. job[p] = NoJob
    BY <1>3 DEF Decline, PrintTypeOK
  <2>2. job'[p].token = <<>> /\ job'[p].got = NoPdf
    BY <1>3, <2>1 DEF Decline, PrintTypeOK, NoJob
  <2> QED
    BY <1>1, <1>3, <2>2 DEF Decline, OwnOf
<1>4. CASE Convert(p)
  <2> DEFINE n0 == count[p]
             t == <<p, n0>>
  <2>1. n0 \in 0..MaxPrints /\ t \in Token /\ count'[p] = n0 + 1
    BY <1>4 DEF Convert, Raised, PrintTypeOK, Token
  <2>2. /\ job'[p] = [NoJob EXCEPT !.stage = "named", !.page = prints', !.token = t]
    BY <1>4 DEF Convert, PrintTypeOK
  <2>3. /\ job'[p].token = t /\ job'[p].stage = "named" /\ job'[p].got = NoPdf
        /\ job'[p].last = -1
    BY <2>2 DEF NoJob
  <2>4. t # <<>> /\ t[2] = n0
    BY Names, <2>1
  <2>5. t \in stale \/ (pdf[t] = NoPdf /\ At(t) = {})
    BY <2>1 DEF OwnOf
  <2>6. t \in stale \/ Sound(job'[p], html[t], pdf[t], At(t), t \in halted)
    BY <2>3, <2>5 DEF Sound
  <2>7. html' = html /\ pdf' = pdf /\ halted' = halted /\ stale' = stale
    BY <1>4 DEF Convert
  <2>8. \A n \in count'[p]..MaxPrints :
            <<p, n>> \in stale \/ (pdf[<<p, n>>] = NoPdf /\ At(<<p, n>>) = {})
    BY <2>1 DEF OwnOf, PrintTypeOK
  <2> QED
    BY <1>1, <2>1, <2>3, <2>4, <2>6, <2>7, <2>8 DEF OwnOf
<1>5. CASE Return(p)
  <2>1. job'[p] = NoJob
    BY <1>5 DEF Return, PrintTypeOK
  <2> QED
    BY <1>1, <1>2, <1>5, <2>1 DEF Return, OwnOf
<1> QED
  BY <1>3, <1>4, <1>5

\* A process that begins anew takes no name over under which it found something.
LEMMA OwnAnew ==
    ASSUME PrintTypeOK, NEW p \in Process, OwnOf(p), Restart(p)
    PROVE  OwnOf(p)'
<1>1. NoJob.token = <<>> /\ NoJob.got = NoPdf /\ job'[p] = NoJob
  BY DEF NoJob, Restart, PrintTypeOK
<1>2. ASSUME NEW n \in (count[p]..MaxPrints)'
      PROVE  (<<p, n>> \in stale \/ (pdf[<<p, n>>] = NoPdf /\ At(<<p, n>>) = {}))'
  <2>1. count'[p] = 0
    BY DEF Restart, PrintTypeOK
  <2>2. <<p, n>> \in Token /\ <<p, n>>[1] = p
    BY <2>1 DEF Token
  <2>3. pdf[<<p, n>>] # NoPdf \/ Running(<<p, n>>) => <<p, n>> \in stale'
    BY <2>2 DEF Restart
  <2>4. ~Running(<<p, n>>) => At(<<p, n>>) = {}
    BY DEF Running, At
  <2>5. pdf' = pdf /\ At(<<p, n>>)' = At(<<p, n>>)
    BY DEF Restart, At
  <2> QED
    BY <2>3, <2>4, <2>5
<1> QED
  BY <1>1, <1>2 DEF OwnOf

\* A call touches no browser of another name.
LEMMA OthersAlone ==
    ASSUME PrintTypeOK, NEW p \in Process, NEW u \in Token, u # job[p].token,
           \/ WriteHtml(p) \/ Launch(p) \/ BrowserExits(p) \/ Poll(p) \/ Read(p) \/ Clear(p)
    PROVE  At(u)' = At(u)
<1> DEFINE t == job[p].token
<1>a. \A b \in browsers : /\ [b EXCEPT !.linked = FALSE].token = b.token
                          /\ [b EXCEPT !.due = TRUE].token = b.token
  BY DEF PrintTypeOK, Browser
<1>b. SUFFICES /\ \A c \in browsers' : c.token = u => c \in browsers
               /\ \A c \in browsers : c.token = u => c \in browsers'
  BY DEF At
<1>1. CASE WriteHtml(p) \/ BrowserExits(p) \/ Read(p)
  BY <1>1 DEF WriteHtml, BrowserExits, Read
<1>2. CASE Launch(p)
  BY <1>2 DEF Launch
<1>3. CASE Poll(p)
  <2>1. browsers' = {IF b.token = t THEN [b EXCEPT !.due = TRUE] ELSE b : b \in browsers}
    BY <1>3 DEF Poll
  <2>2. ASSUME NEW c \in browsers', c.token = u PROVE c \in browsers
    <3>1. PICK b \in browsers : c = IF b.token = t THEN [b EXCEPT !.due = TRUE] ELSE b
      BY <2>1
    <3> QED
      BY <1>a, <2>2, <3>1
  <2> QED
    BY <2>1, <2>2
<1>4. CASE Clear(p)
  <2>1. browsers' = {IF b.token = t /\ pdf'[t] = NoPdf THEN [b EXCEPT !.linked = FALSE] ELSE b :
                        b \in browsers}
    BY <1>4 DEF Clear
  <2>2. ASSUME NEW c \in browsers', c.token = u PROVE c \in browsers
    <3>1. PICK b \in browsers :
            c = IF b.token = t /\ pdf'[t] = NoPdf THEN [b EXCEPT !.linked = FALSE] ELSE b
      BY <2>1
    <3> QED
      BY <1>a, <2>2, <3>1
  <2> QED
    BY <2>1, <2>2
<1> QED
  BY <1>1, <1>2, <1>3, <1>4

\* What a call does keeps its conversion sound: it launches one browser, counts a
\* browser that did not write since the last poll as pausing, and reads a file
\* that was of the same size twice.
LEMMA OwnCall ==
    ASSUME PrintTypeOK, NEW p \in Process, OwnOf(p),
           \/ WriteHtml(p) \/ Launch(p) \/ BrowserExits(p) \/ Poll(p) \/ Read(p) \/ Clear(p)
    PROVE  OwnOf(p)'
<1> DEFINE t == job[p].token
           f == pdf[t]
           Before == Sound(job[p], html[t], f, At(t), t \in halted)
           After == Sound(job'[p], html'[t], pdf'[t], At(t)', t \in halted')
<1>a. /\ job[p] \in Job /\ job[p].stage \notin {"none", "told"}
      /\ t \in Token /\ job[p].page \in Page /\ f \in Pdf
  BY DEF WriteHtml, Launch, BrowserExits, Poll, Read, Clear, PrintTypeOK, Job
<1>b. \A b \in browsers : b \in Browser
  BY DEF PrintTypeOK
<1>c. job'[p].token = t
  BY SameName DEF PrintTypeOK
<1>d. count' = count /\ stale' = stale
  BY DEF WriteHtml, Launch, BrowserExits, Poll, Read, Clear
<1>e. \A s \in {"written", "told", "running", "waiting", "clear"} :
        LET j == [job[p] EXCEPT !.stage = s] IN
        j.stage = s /\ j.page = job[p].page /\ j.last = job[p].last /\ j.got = job[p].got
  BY <1>a DEF Job
<1>1. CASE WriteHtml(p)
  <2>1. \A u : At(u)' = At(u)
    BY <1>1 DEF WriteHtml, At
  <2>2. ASSUME Before PROVE After
    <3>1. /\ pdf' = pdf /\ halted' = halted
          /\ f = NoPdf /\ At(t) = {} /\ job[p].last = -1 /\ job[p].got = NoPdf
      BY <1>1, <2>2 DEF WriteHtml, Sound
    <3>2. \/ job'[p] = [job[p] EXCEPT !.stage = "written"] /\ html'[t] = job[p].page
          \/ job'[p] = [job[p] EXCEPT !.stage = "told"]
      BY <1>1, <1>a DEF WriteHtml, PrintTypeOK
    <3>3. CASE job'[p] = [job[p] EXCEPT !.stage = "written"] /\ html'[t] = job[p].page
      <4>1. /\ job'[p].stage = "written" /\ job'[p].page = job[p].page
            /\ job'[p].last = -1 /\ job'[p].got = NoPdf
        BY <1>e, <3>1, <3>3
      <4> QED
        BY <2>1, <3>1, <3>3, <4>1 DEF Sound
    <3>4. CASE job'[p] = [job[p] EXCEPT !.stage = "told"]
      <4>1. job'[p].stage = "told" /\ job'[p].got = NoPdf
        BY <1>e, <3>1, <3>4
      <4> QED
        BY <4>1 DEF Sound
    <3> QED
      BY <3>2, <3>3, <3>4
  <2>3. pdf' = pdf
    BY <1>1 DEF WriteHtml
  <2> QED
    BY <1>a, <1>c, <1>d, <2>1, <2>2, <2>3, Here
<1>2. CASE Launch(p)
  <2> DEFINE new == [token |-> t, run |-> run[p], stage |-> "started", page |-> NoFile,
                     done |-> 0, linked |-> FALSE, due |-> FALSE]
  <2>1. /\ pdf' = pdf /\ html' = html /\ halted' = halted
        /\ \/ browsers' = browsers \cup {new} /\ job' = [job EXCEPT ![p].stage = "running"]
           \/ browsers' = browsers /\ job' = [job EXCEPT ![p].stage = "clear"]
    BY <1>2 DEF Launch
  <2>2. \A u : u # t => At(u)' = At(u)
    BY <2>1 DEF At
  <2>3. ASSUME Before PROVE After
    <3>1. /\ f = NoPdf /\ At(t) = {} /\ job[p].last = -1 /\ job[p].got = NoPdf
          /\ html[t] = job[p].page
      BY <1>2, <2>3 DEF Launch, Sound
    <3>2. NoPdf.parts = -1 /\ NoPdf.pages = {}
      BY DEF NoPdf
    <3>3. CASE browsers' = browsers \cup {new} /\ job' = [job EXCEPT ![p].stage = "running"]
      <4>1. At(t)' = {new}
        BY <3>1, <3>3 DEF At
      <4>2. job'[p] = [job[p] EXCEPT !.stage = "running"]
        BY <3>3 DEF PrintTypeOK
      <4>3. new.stage = "started" /\ new.linked = (new.stage = "writing") /\ new.done = 0
        OBVIOUS
      <4>4. /\ job'[p].stage = "running" /\ job'[p].page = job[p].page
            /\ job'[p].last = -1 /\ job'[p].got = NoPdf
        BY <1>e, <3>1, <4>2
      <4> HIDE DEF new
      <4> QED
        BY <2>1, <3>1, <3>2, <4>1, <4>3, <4>4, PrintAssumption DEF Sound
    <3>4. CASE browsers' = browsers /\ job' = [job EXCEPT ![p].stage = "clear"]
      <4>1. job'[p] = [job[p] EXCEPT !.stage = "clear"]
        BY <3>4 DEF PrintTypeOK
      <4> QED
        BY <1>e, <3>1, <4>1 DEF Sound
    <3> QED
      BY <2>1, <3>3, <3>4
  <2> QED
    BY <1>a, <1>c, <1>d, <2>1, <2>2, <2>3, Here
<1>3. CASE BrowserExits(p)
  <2>1. \A u : At(u)' = At(u)
    BY <1>3 DEF BrowserExits, At
  <2>2. pdf' = pdf /\ html' = html /\ halted' = halted
    BY <1>3 DEF BrowserExits
  <2>3. ASSUME Before PROVE After
    <3>1. job[p].stage = "running" /\ \E s \in {"waiting", "clear"} : job'[p] = [job[p] EXCEPT !.stage = s]
      BY <1>3 DEF BrowserExits, PrintTypeOK
    <3> QED
      BY <1>e, <2>1, <2>2, <2>3, <3>1 DEF Sound
  <2> QED
    BY <1>a, <1>c, <1>d, <2>1, <2>2, <2>3, Here
<1>6. CASE Clear(p)
  <2>1. /\ job[p].stage = "clear" /\ job'[p] = [job[p] EXCEPT !.stage = "told"]
        /\ halted' = halted
    BY <1>6 DEF Clear, PrintTypeOK
  <2>2. \A u \in Token : u # t => pdf'[u] = pdf[u]
    BY <1>6, <1>a DEF Clear, Kept, PrintTypeOK
  <2>3. \A u \in Token : u # t => At(u)' = At(u)
    BY <1>6, OthersAlone
  <2>4. ASSUME Before PROVE After
    BY <1>e, <2>1, <2>4 DEF Sound
  <2> QED
    BY <1>a, <1>c, <1>d, <2>2, <2>3, <2>4, Here
<1>5. CASE Read(p)
  <2> DEFINE j == job[p]
             again == [j EXCEPT !.stage = "waiting"]
  <2>1. \A u : At(u)' = At(u)
    BY <1>5 DEF Read, At
  <2>2. pdf' = pdf /\ html' = html /\ halted' = halted /\ j.stage = "reading"
    BY <1>5 DEF Read
  <2>3. \A k \in {j, again} : /\ Left(k).stage = "clear" /\ Left(k).page = j.page
                              /\ Left(k).got = j.got
    BY <1>a DEF Left, Job
  <2>4. [Left(j) EXCEPT !.got = f].stage = "clear" /\ [Left(j) EXCEPT !.got = f].page = j.page
        /\ [Left(j) EXCEPT !.got = f].got = f
    BY <1>a DEF Left, Job
  <2>5. again.stage = "waiting" /\ again.page = j.page /\ again.last = j.last /\ again.got = j.got
    BY <1>a DEF Job
  <2>6. \/ f.parts > 0 /\ job'[p] = [Left(j) EXCEPT !.got = f]
        \/ job'[p] \in {again, Left(again), Left(j)}
    BY <1>5 DEF Read, Later, PrintTypeOK
  <2>7. ASSUME Before PROVE After
    <3>1. j.got = NoPdf /\ f.pages = {j.page} /\ (f.parts = Parts \/ t \in halted)
      BY <2>2, <2>7, <1>a DEF Sound
    <3>2. CASE f.parts > 0 /\ job'[p] = [Left(j) EXCEPT !.got = f]
      BY <2>2, <2>4, <3>1, <3>2 DEF Sound
    <3>3. CASE job'[p] \in {Left(again), Left(j)}
      BY <2>2, <2>3, <3>1, <3>3 DEF Sound
    <3>4. CASE job'[p] = again
      BY <2>1, <2>2, <2>5, <2>7, <3>4 DEF Sound
    <3> QED
      BY <2>6, <3>2, <3>3, <3>4
  <2> HIDE DEF again, j
  <2> QED
    BY <1>a, <1>c, <1>d, <2>1, <2>2, <2>7, Here
<1>4. CASE Poll(p)
  <2> DEFINE j == job[p]
             len == f.parts
             last == IF len >= 0 THEN len ELSE j.last
             seen == [j EXCEPT !.polls = @ + 1, !.last = last]
             reading == [seen EXCEPT !.stage = "reading"]
  <2>1. pdf' = pdf /\ html' = html /\ j.stage = "waiting" /\ halted' \in {halted, halted \cup {t}}
    BY <1>4 DEF Poll
  <2>2. \A b \in browsers : LET c == [b EXCEPT !.due = TRUE] IN
            /\ c.token = b.token /\ c.stage = b.stage /\ c.page = b.page /\ c.done = b.done
            /\ c.linked = b.linked /\ c.due = TRUE
    BY <1>b DEF Browser
  <2>3. browsers' = {IF b.token = t THEN [b EXCEPT !.due = TRUE] ELSE b : b \in browsers}
    BY <1>4 DEF Poll
  <2>4. \A u \in Token : u # t => At(u)' = At(u)
    BY <1>4, OthersAlone
  <2>5. /\ \A c \in At(t)' : \E b \in At(t) : c = [b EXCEPT !.due = TRUE]
        /\ \A b \in At(t) : [b EXCEPT !.due = TRUE] \in At(t)'
    <3>1. ASSUME NEW c \in browsers', c.token = t
          PROVE  \E b \in browsers : b.token = t /\ c = [b EXCEPT !.due = TRUE]
      <4>1. PICK b \in browsers : c = IF b.token = t THEN [b EXCEPT !.due = TRUE] ELSE b
        BY <2>3
      <4> QED
        BY <3>1, <4>1
    <3>2. ASSUME NEW b \in browsers, b.token = t
          PROVE  [b EXCEPT !.due = TRUE] \in browsers' /\ [b EXCEPT !.due = TRUE].token = t
      BY <2>2, <2>3, <3>2
    <3>3. \A c : (c \in At(t) <=> c \in browsers /\ c.token = t)
                 /\ (c \in At(t)' <=> c \in browsers' /\ c.token = t)
      BY <1>c DEF At
    <3> QED
      BY <3>1, <3>2, <3>3
  <2>6. /\ seen.stage = "waiting" /\ seen.page = j.page /\ seen.last = last /\ seen.got = j.got
        /\ reading.stage = "reading" /\ reading.page = j.page /\ reading.last = last
        /\ reading.got = j.got
        /\ Left(seen).stage = "clear" /\ Left(seen).page = j.page /\ Left(seen).got = j.got
    BY <1>a, <2>1 DEF Job, Left
  <2>7. \/ Steady(p, len) /\ job'[p] = reading
        \/ job'[p] \in {seen, Left(seen)}
    BY <1>4 DEF Poll, Later, PrintTypeOK
  <2>8. (\E b \in At(t) : b.stage = "writing" /\ b.due) => t \in halted'
    BY <1>4 DEF Poll, At
  <2>9. ASSUME Before PROVE After
    <3>1. /\ j.got = NoPdf /\ html[t] = j.page /\ j.last <= len
          /\ f.pages \subseteq {j.page} /\ (f.parts > 0 => f.pages # {})
          /\ len \in 0..(Parts - 1) => t \in halted \/ \E b \in At(t) : b.stage = "writing"
          /\ \A b, c \in At(t) : b = c
      BY <2>1, <2>9 DEF Sound
    <3>2. \A b \in At(t) :
            /\ b.stage # "started" => b.page = j.page
            /\ b.linked = (b.stage = "writing")
            /\ b.stage = "writing" => f.parts = b.done /\ (j.last = b.done => b.due)
            /\ b.stage # "writing" => f = NoPdf /\ b.done = 0
      BY <2>1, <2>9 DEF Sound
    <3>3. len \in -1..Parts /\ j.last \in -1..Parts
      BY <1>a DEF Pdf, Job
    <3>4. last <= len
      BY <3>1, <3>3
    <3>5. /\ \A b, c \in At(t)' : b = c
          /\ \A b \in At(t)' :
            /\ b.stage # "started" => b.page = j.page
            /\ b.linked = (b.stage = "writing")
            /\ b.stage = "writing" => f.parts = b.done /\ b.due
            /\ b.stage # "writing" => f = NoPdf /\ b.done = 0
          /\ (\E b \in At(t) : b.stage = "writing") => \E b \in At(t)' : b.stage = "writing"
      <4>1. \A b \in At(t) : LET c == [b EXCEPT !.due = TRUE] IN
              /\ c.stage = b.stage /\ c.page = b.page /\ c.done = b.done
              /\ c.linked = b.linked /\ c.due = TRUE
        BY <2>2 DEF At
      <4>2. ASSUME NEW c \in At(t)'
            PROVE  /\ c.stage # "started" => c.page = j.page
                   /\ c.linked = (c.stage = "writing")
                   /\ c.stage = "writing" => f.parts = c.done /\ c.due
                   /\ c.stage # "writing" => f = NoPdf /\ c.done = 0
        <5>1. PICK b \in At(t) : c = [b EXCEPT !.due = TRUE]
          BY <2>5
        <5> QED
          BY <3>2, <4>1, <5>1
      <4>3. \A b, c \in At(t)' : b = c
        BY <2>5, <3>1
      <4>4. (\E b \in At(t) : b.stage = "writing") => \E b \in At(t)' : b.stage = "writing"
        BY <2>5, <4>1
      <4> QED
        BY <4>2, <4>3, <4>4
    <3>6. CASE Steady(p, len) /\ job'[p] = reading
      <4>1. len > 0 /\ len = j.last
        BY <3>6 DEF Steady
      <4>2. len = Parts \/ t \in halted'
        BY <2>1, <2>8, <3>1, <3>2, <3>3, <4>1, PrintAssumption DEF PrintAssumption
      <4> HIDE DEF seen, reading, last, j
      <4> QED
        BY <2>1, <2>6, <3>1, <3>4, <3>5, <3>6, <4>1, <4>2 DEF Sound
    <3>7. CASE job'[p] = seen
      <4> HIDE DEF seen, reading, last, j
      <4> QED
        BY <2>1, <2>6, <3>1, <3>4, <3>5, <3>7 DEF Sound
    <3>8. CASE job'[p] = Left(seen)
      <4> HIDE DEF seen, reading, last, j
      <4> QED
        BY <2>1, <2>6, <3>1, <3>8 DEF Sound
    <3> QED
      BY <2>7, <3>6, <3>7, <3>8
  <2>10. halted \subseteq halted'
    BY <2>1
  <2> HIDE DEF j, seen, reading, last, len
  <2> QED
    BY <1>a, <1>c, <1>d, <2>1, <2>4, <2>9, Here
<1> QED
  BY <1>1, <1>2, <1>3, <1>4, <1>5, <1>6

\* What a browser does keeps the conversion sound whose page it prints, and is
\* nothing to the others.
LEMMA OwnBrowser ==
    ASSUME PrintTypeOK, NEW p \in Process, OwnOf(p), NEW b \in browsers,
           LoadPage(b) \/ OpenPdf(b) \/ WritePart(b) \/ Quit(b)
    PROVE  OwnOf(p)'
<1> DEFINE t == b.token
           j == job[p]
           f == pdf[t]
<1>a. b \in Browser /\ t \in Token /\ f \in Pdf /\ b \in At(t)
  BY DEF PrintTypeOK, Browser, At
<1>b. job' = job /\ count' = count /\ stale' = stale /\ html' = html /\ halted \subseteq halted'
  BY DEF LoadPage, OpenPdf, WritePart, Quit
<1>c. \A u \in Token : u # t => pdf'[u] = pdf[u]
  BY <1>a DEF LoadPage, OpenPdf, WritePart, Quit, PrintTypeOK
<1>d. \/ browsers' = browsers \ {b}
      \/ \E c : c.token = t /\ browsers' = (browsers \ {b}) \cup {c}
  <2>1. /\ [b EXCEPT !.stage = "loaded", !.page = html[b.token]].token = t
        /\ [b EXCEPT !.stage = "writing", !.linked = TRUE, !.due = FALSE].token = t
        /\ [b EXCEPT !.done = @ + 1, !.due = FALSE].token = t
    BY <1>a DEF Browser
  <2> QED
    BY <2>1 DEF LoadPage, OpenPdf, WritePart, Quit
<1>e. \A u \in Token : u # t => At(u)' = At(u)
  BY <1>d DEF At
<1>1. CASE job[p].token # t
  <2>1. \A u \in Token : u[1] = p /\ (u = job[p].token \/ At(u) = {}) => u # t
    BY <1>1, <1>a
  <2> QED
    BY <1>b, <1>c, <1>e, <2>1, Elsewhere
<1>2. CASE job[p].token = t
  <2>1. ASSUME Sound(j, html[t], f, At(t), t \in halted)
        PROVE  Sound(j, html[t], pdf'[t], At(t)', t \in halted')
    <3>1. CASE j.stage \notin {"running", "waiting", "reading"}
      <4>1. j.stage \notin {"named", "written"}
        BY <1>a, <2>1 DEF Sound
      <4> QED
        BY <1>b, <2>1, <3>1, <4>1 DEF Sound
    <3>2. CASE j.stage \in {"running", "waiting", "reading"}
      <4>1. /\ At(t) = {b} /\ j.got = NoPdf /\ html[t] = j.page /\ j.last <= f.parts
            /\ j.stage = "running" => j.last = -1
            /\ j.stage = "reading" => f.parts > 0 /\ (f.parts = Parts \/ t \in halted)
            /\ f.pages \subseteq {j.page} /\ (f.parts > 0 => f.pages # {})
            /\ f.parts \in 0..(Parts - 1) => t \in halted \/ b.stage = "writing"
            /\ b.stage # "started" => b.page = j.page
            /\ b.linked = (b.stage = "writing")
            /\ b.stage = "writing" => f.parts = b.done /\ (j.last = b.done => b.due)
            /\ b.stage # "writing" => f = NoPdf /\ b.done = 0
        BY <1>a, <2>1, <3>2 DEF Sound
      <4>2. ASSUME NEW c, browsers' = (browsers \ {b}) \cup {c}, c.token = t
            PROVE  At(t)' = {c}
        BY <4>1, <4>2 DEF At
      <4>3. NoPdf.parts = -1 /\ NoPdf.pages = {} /\ f.parts \in -1..Parts /\ j.last \in -1..Parts
            /\ b.done \in 0..Parts
        BY <1>a DEF NoPdf, Pdf, PrintTypeOK, Job, Browser
      <4>4. CASE LoadPage(b)
        <5> DEFINE c == [b EXCEPT !.stage = "loaded", !.page = html[b.token]]
        <5>1. /\ c.token = t /\ c.stage = "loaded" /\ c.page = html[t] /\ c.done = b.done
              /\ c.linked = b.linked
          BY <1>a DEF Browser
        <5>2. b.stage = "started" /\ browsers' = (browsers \ {b}) \cup {c} /\ pdf' = pdf /\ halted' = halted
          BY <4>4 DEF LoadPage
        <5> HIDE DEF c
        <5>3. At(t)' = {c}
          BY <4>2, <5>1, <5>2
        <5> QED
          BY <3>2, <4>1, <4>3, <5>1, <5>2, <5>3 DEF Sound
      <4>5. CASE OpenPdf(b)
        <5> DEFINE c == [b EXCEPT !.stage = "writing", !.linked = TRUE, !.due = FALSE]
        <5>1. /\ c.token = t /\ c.stage = "writing" /\ c.page = b.page /\ c.done = b.done
              /\ c.linked = TRUE
          BY <1>a DEF Browser
        <5>2. /\ b.stage = "loaded" /\ browsers' = (browsers \ {b}) \cup {c} /\ halted' = halted
              /\ pdf'[t] = [pages |-> {}, parts |-> 0]
          BY <4>5, <1>a DEF OpenPdf, PrintTypeOK
        <5> HIDE DEF c
        <5>3. At(t)' = {c}
          BY <4>2, <5>1, <5>2
        <5>a. f = NoPdf /\ b.done = 0 /\ f.parts = -1
          BY <4>1, <4>3, <5>2
        <5>b. j.last = -1 /\ c.done = 0 /\ j.stage # "reading"
          BY <4>1, <4>3, <5>1, <5>a
        <5>c. c.linked = (c.stage = "writing")
          BY <5>1
        <5>4. /\ j.last = -1 /\ c.done = 0 /\ j.stage # "reading" /\ c.page = j.page
              /\ c.linked = (c.stage = "writing")
          BY <4>1, <5>1, <5>2, <5>b, <5>c
        <5>5. pdf'[t].pages = {} /\ pdf'[t].parts = 0
          BY <5>2
        <5> QED
          BY <3>2, <4>1, <5>1, <5>3, <5>4, <5>5 DEF Sound
      <4>6. CASE WritePart(b)
        <5> DEFINE c == [b EXCEPT !.done = @ + 1, !.due = FALSE]
                   g == [pages |-> f.pages \cup {b.page},
                         parts |-> IF b.done < f.parts THEN f.parts ELSE b.done + 1]
        <5>1. /\ c.token = t /\ c.stage = b.stage /\ c.page = b.page /\ c.done = b.done + 1
              /\ c.linked = b.linked
          BY <1>a DEF Browser
        <5>2. /\ b.stage = "writing" /\ browsers' = (browsers \ {b}) \cup {c} /\ halted' = halted
              /\ b.linked
          BY <4>1, <4>6 DEF WritePart
        <5>3. pdf'[t] = g
          BY <4>6, <1>a, <5>2 DEF WritePart, PrintTypeOK
        <5>4. g.pages = {j.page} /\ g.parts = b.done + 1 /\ f.parts = b.done /\ b.done < Parts
          BY <4>1, <4>3, <4>6, <5>2 DEF WritePart
        <5> HIDE DEF c, g
        <5>5. At(t)' = {c}
          BY <4>2, <5>1, <5>2
        <5>6. j.stage = "reading" => g.parts = Parts \/ t \in halted
          BY <4>1, <4>3, <5>4
        <5> QED
          BY <3>2, <4>1, <4>3, <5>1, <5>2, <5>3, <5>4, <5>5, <5>6 DEF Sound
      <4>7. CASE Quit(b)
        <5>1. At(t)' = {} /\ pdf' = pdf
          BY <4>1, <4>7 DEF Quit, At
        <5>2. f.parts \in 0..(Parts - 1) => t \in halted'
          BY <1>b, <4>1, <4>3, <4>7 DEF Quit
        <5> QED
          BY <1>b, <3>2, <4>1, <4>3, <5>1, <5>2 DEF Sound
      <4> QED
        BY <4>4, <4>5, <4>6, <4>7
    <3> QED
      BY <3>1, <3>2
  <2> QED
    BY <1>2, <1>a, <1>b, <1>c, <1>e, <2>1, Here
<1> QED
  BY <1>1, <1>2

\* Every step keeps every process's names its own.
LEMMA OwnKept == PrintTypeOK /\ Own /\ [PrintNext]_printvars => Own'
<1> SUFFICES ASSUME PrintTypeOK, Own, [PrintNext]_printvars, NEW p \in Process PROVE OwnOf(p)'
  BY DEF Own
<1>0. OwnOf(p)
  BY DEF Own
<1>1. ASSUME NEW q \in Process, Decline(q) \/ Convert(q) \/ Return(q) PROVE OwnOf(p)'
  <2>1. CASE q = p
    BY <1>0, <1>1, <2>1, OwnBegins
  <2>2. CASE q # p
    <3>1. /\ job'[p] = job[p] /\ count'[p] = count[p] /\ html' = html /\ pdf' = pdf
          /\ browsers' = browsers /\ halted' = halted /\ stale' = stale
      BY <1>1, <2>2 DEF Decline, Convert, Return, Raised, PrintTypeOK
    <3>2. \A u : At(u)' = At(u)
      BY <3>1 DEF At
    <3> QED
      BY <1>0, <3>1, <3>2, Elsewhere
  <2> QED
    BY <2>1, <2>2
<1>2. ASSUME NEW q \in Process,
             \/ WriteHtml(q) \/ Launch(q) \/ BrowserExits(q) \/ Poll(q) \/ Read(q) \/ Clear(q)
      PROVE  OwnOf(p)'
  <2>1. CASE q = p
    BY <1>0, <1>2, <2>1, OwnCall
  <2>2. CASE q # p
    <3> DEFINE t == job[q].token
    <3>1. t \in Token /\ t[1] = q
      BY <1>2, Names DEF WriteHtml, Launch, BrowserExits, Poll, Read, Clear, PrintTypeOK, Job
    <3>2. /\ job'[p] = job[p] /\ count'[p] = count[p] /\ halted \subseteq halted' /\ stale' = stale
      BY <1>2, <2>2 DEF WriteHtml, Launch, BrowserExits, Poll, Read, Clear, PrintTypeOK
    <3>3. \A u \in Token : u # t => html'[u] = html[u]
      BY <1>2, <3>1 DEF WriteHtml, Launch, BrowserExits, Poll, Read, Clear, Kept, PrintTypeOK
    <3>4. \A u \in Token : u # t => pdf'[u] = pdf[u]
      BY <1>2, <3>1 DEF WriteHtml, Launch, BrowserExits, Poll, Read, Clear, Kept, PrintTypeOK
    <3>5. ASSUME NEW u \in Token, u # t PROVE At(u)' = At(u)
      BY <1>2, <3>1, <3>5, OthersAlone
    <3>6. \A u \in Token : u[1] = p => u # t
      BY <2>2, <3>1
    <3> QED
      BY <1>0, <3>2, <3>3, <3>4, <3>5, <3>6, Elsewhere
  <2> QED
    BY <2>1, <2>2
<1>3. ASSUME NEW q \in Process, Restart(q) PROVE OwnOf(p)'
  <2>1. CASE q = p
    BY <1>0, <1>3, <2>1, OwnAnew
  <2>2. CASE q # p
    <3>1. /\ job'[p] = job[p] /\ count'[p] = count[p] /\ html' = html /\ pdf' = pdf
          /\ browsers' = browsers /\ halted' = halted /\ stale \subseteq stale'
      BY <1>3, <2>2 DEF Restart, PrintTypeOK
    <3>2. \A u : At(u)' = At(u)
      BY <3>1 DEF At
    <3> QED
      BY <1>0, <3>1, <3>2, Elsewhere
  <2> QED
    BY <2>1, <2>2
<1>4. ASSUME NEW b \in browsers, LoadPage(b) \/ OpenPdf(b) \/ WritePart(b) \/ Quit(b)
      PROVE  OwnOf(p)'
  BY <1>0, <1>4, OwnBrowser
<1>5. CASE UNCHANGED printvars
  <2>1. \A u : At(u)' = At(u)
    BY <1>5 DEF printvars, At
  <2> QED
    BY <1>0, <1>5, <2>1, Elsewhere DEF printvars
<1>s. \/ \E q \in Process : \/ Decline(q) \/ Convert(q) \/ WriteHtml(q) \/ Launch(q)
                            \/ BrowserExits(q) \/ Poll(q) \/ Read(q) \/ Clear(q) \/ Return(q)
                            \/ Restart(q)
      \/ \E b \in browsers : LoadPage(b) \/ OpenPdf(b) \/ WritePart(b) \/ Quit(b)
      \/ UNCHANGED printvars
  BY DEF PrintNext, Advance
<1> QED
  BY <1>s, <1>1, <1>2, <1>3, <1>4, <1>5

\* A caller gets its own page printed and no other, whole unless its browser
\* paused or ended in the writing: for any number of processes, of conversions
\* and of polls.
THEOREM OwnPageIsReturned == PrintSpec => []OwnPage
<1>1. PrintInit => Own
  <2> SUFFICES ASSUME PrintInit, NEW p \in Process PROVE OwnOf(p)
    BY DEF Own
  <2>1. job[p] = NoJob /\ NoJob.token = <<>> /\ NoJob.got = NoPdf
    BY DEF PrintInit, NoJob
  <2>2. \A n \in count[p]..MaxPrints : pdf[<<p, n>>] = NoPdf /\ At(<<p, n>>) = {}
    BY DEF PrintInit, At, Token
  <2> QED
    BY <2>1, <2>2 DEF OwnOf
<1>2. PrintTypeOK /\ Own => OwnPage
  BY DEF Own, OwnOf, Sound, OwnPage
<1> QED
  BY <1>1, <1>2, PrintTypeInit, PrintTypeKept, OwnKept, PTL DEF PrintSpec

==============================================================================
