--------------------------- MODULE Verbals_proofs ---------------------------
(***************************************************************************)
(* Proofs about verbal warnings and notes, for any number of commands,     *)
(* failures and restarts: a verbal with a row was sent, its row says what  *)
(* the user sees when all is quiet, and a note that was saved has a row.   *)
(***************************************************************************)
EXTENDS Verbals, TLAPS

\* A verbal is inserted when it was sent, and commands about it begin when it has
\* a row: while it is still inserted, an attempt was carried out in vain.
Ordered ==
  /\ \A w \in Warnings : pc[w] = "insert" => dm[w] # "none"
  /\ \A x \in Commands : pc[x] = "idle" <=> target[x] = None
  /\ \A x \in Commands, w \in Warnings : target[x] = w => pc[w] = "ended" \/ w \in lost
  /\ \A w \in Warnings : row[w] # None => pc[w] = "ended" \/ w \in lost
  /\ \A w \in Warnings : w \in lost => pc[w] \in {"insert", "ended"}

\* A note is inserted once for each attempt that was carried out.
Numbered ==
  \A n \in Notes :
    /\ pc[n] = "idle" => tries[n] = 0 /\ records[n] = 0
    /\ pc[n] = "insert" => records[n] <= tries[n] /\ (n \notin lost => records[n] = 0)
    /\ n \in told => pc[n] = "ended"

\* No command about the verbal has failed, and no edit has overtaken another.
Clean(w) ==
  w \notin crossed \cup hurt \cup lost /\ \A x \in Commands : target[x] = w => x \notin hurt

\* x has changed the message of w and not yet its row.
Between(x, w) == target[x] = w /\ pc[x] = "row"

\* How far the row of a verbal is behind its message.
Track(w) ==
  /\ pc[w] \in {"idle", "send"} => dm[w] = "none"
  /\ pc[w] = "insert" => dm[w] = w /\ row[w] = None
  /\ pc[w] = "ended" =>
       /\ dm[w] = "gone" => row[w] = None \/ \E x \in Deletes : Between(x, w)
       /\ dm[w] # "gone" =>
            /\ row[w] # None
            /\ row[w].text = dm[w] \/ (dm[w] \in Edits /\ Between(dm[w], w))
            /\ \A e \in Edits : Between(e, w) => dm[w] = e
            /\ \A x \in Deletes : ~Between(x, w)

Tracked == \A w \in Warnings : Clean(w) => Track(w)

IInv == TypeOK /\ Ordered /\ Numbered /\ RowDelivered /\ NoteSaved /\ Tracked
-----------------------------------------------------------------------------
LEMMA StepType ==
  ASSUME IInv, [Next]_vars
  PROVE  TypeOK'
<1> USE VerbalsAssumption DEF IInv, TypeOK, Tasks, Commands, Labels, command, data, faults, Goto, Proceeds, Outcomes, Numbered
<1>1. ASSUME NEW w \in Warnings, NEW m \in Mods, Warn(w, m) PROVE TypeOK'
  BY <1>1 DEF Warn, MayBegin, FirstStep
<1>2. ASSUME NEW w \in Warnings, Send(w) PROVE TypeOK'
  BY <1>2 DEF Send
<1>3. ASSUME NEW w \in Warnings, AddVerbal(w) PROVE TypeOK'
  BY <1>3 DEF AddVerbal, Executed, Rejected, Answered, Raises, Stops
<1>4. ASSUME NEW n \in Notes, Note(n) PROVE TypeOK'
  BY <1>4 DEF Note, MayBegin
<1>5. ASSUME NEW n \in Notes, AddNote(n) PROVE TypeOK'
  BY <1>5 DEF AddNote, Executed, Rejected, Answered, Raises, Stops
<1>6. ASSUME NEW x \in Commands, NEW w \in Warnings, NEW m \in Mods, Command(x, w, m) PROVE TypeOK'
  BY <1>6 DEF Command, MayBegin
<1>7. ASSUME NEW x \in Commands, Look(x) PROVE TypeOK'
  <2>1. target[x] \in Warnings
    BY <1>7 DEF Look, Ordered
  <2>2. row[target[x]] # None => row[target[x]].author \in Mods
    BY <2>1
  <2>3. QED
    BY <1>7, <2>1, <2>2 DEF Look, Owner
<1>8. ASSUME NEW x \in Commands, Fetch(x) PROVE TypeOK'
  BY <1>8 DEF Fetch
<1>9. ASSUME NEW x \in Commands, ChangeDM(x) PROVE TypeOK'
  <2>1. target[x] \in Warnings
    BY <1>9 DEF ChangeDM, Ordered
  <2>2. QED
    BY <1>9, <2>1 DEF ChangeDM, AfterDM
<1>10. ASSUME NEW x \in Commands, ChangeRow(x) PROVE TypeOK'
  BY <1>10 DEF ChangeRow, NewRow, Executed, Rejected, Answered, Raises, Stops
<1>11. CASE Restart
  BY <1>11 DEF Restart, Running
<1>12. CASE UNCHANGED vars
  BY <1>12 DEF vars
<1>13. QED
  BY <1>1, <1>2, <1>3, <1>4, <1>5, <1>6, <1>7, <1>8, <1>9, <1>10, <1>11, <1>12 DEF Next, Step

LEMMA StepOrdered ==
  ASSUME IInv, [Next]_vars
  PROVE  Ordered'
<1> USE VerbalsAssumption DEF IInv, TypeOK, Tasks, Commands, Labels, command, data, faults, Goto, Proceeds, Outcomes, Ordered
<1>1. ASSUME NEW w \in Warnings, NEW m \in Mods, Warn(w, m) PROVE Ordered'
  BY <1>1 DEF Warn, MayBegin, FirstStep
<1>2. ASSUME NEW w \in Warnings, Send(w) PROVE Ordered'
  BY <1>2 DEF Send
<1>3. ASSUME NEW w \in Warnings, AddVerbal(w) PROVE Ordered'
  BY <1>3 DEF AddVerbal, Executed, Rejected, Answered, Raises, Stops
<1>4. ASSUME NEW n \in Notes, Note(n) PROVE Ordered'
  BY <1>4 DEF Note, MayBegin
<1>5. ASSUME NEW n \in Notes, AddNote(n) PROVE Ordered'
  BY <1>5 DEF AddNote, Executed, Rejected, Answered, Raises, Stops
<1>6. ASSUME NEW x \in Commands, NEW w \in Warnings, NEW m \in Mods, Command(x, w, m) PROVE Ordered'
  BY <1>6 DEF Command, MayBegin
<1>7. ASSUME NEW x \in Commands, Look(x) PROVE Ordered'
  BY <1>7 DEF Look, Owner
<1>8. ASSUME NEW x \in Commands, Fetch(x) PROVE Ordered'
  BY <1>8 DEF Fetch
<1>9. ASSUME NEW x \in Commands, ChangeDM(x) PROVE Ordered'
  BY <1>9 DEF ChangeDM, AfterDM
<1>10. ASSUME NEW x \in Commands, ChangeRow(x) PROVE Ordered'
  BY <1>10 DEF ChangeRow, NewRow, Executed, Rejected, Answered, Raises, Stops
<1>11. CASE Restart
  BY <1>11 DEF Restart, Running
<1>12. CASE UNCHANGED vars
  BY <1>12 DEF vars
<1>13. QED
  BY <1>1, <1>2, <1>3, <1>4, <1>5, <1>6, <1>7, <1>8, <1>9, <1>10, <1>11, <1>12 DEF Next, Step

LEMMA StepNumbered ==
  ASSUME IInv, [Next]_vars
  PROVE  Numbered'
<1> USE VerbalsAssumption DEF IInv, TypeOK, Tasks, Commands, Labels, command, data, faults, Goto, Proceeds, Outcomes, Numbered
<1>1. ASSUME NEW w \in Warnings, NEW m \in Mods, Warn(w, m) PROVE Numbered'
  BY <1>1 DEF Warn, MayBegin, FirstStep
<1>2. ASSUME NEW w \in Warnings, Send(w) PROVE Numbered'
  BY <1>2 DEF Send
<1>3. ASSUME NEW w \in Warnings, AddVerbal(w) PROVE Numbered'
  BY <1>3 DEF AddVerbal, Executed, Rejected, Answered, Raises, Stops
<1>4. ASSUME NEW n \in Notes, Note(n) PROVE Numbered'
  BY <1>4 DEF Note, MayBegin
<1>5. ASSUME NEW n \in Notes, AddNote(n) PROVE Numbered'
  BY <1>5 DEF AddNote, Executed, Rejected, Answered, Raises, Stops
<1>6. ASSUME NEW x \in Commands, NEW w \in Warnings, NEW m \in Mods, Command(x, w, m) PROVE Numbered'
  BY <1>6 DEF Command, MayBegin
<1>7. ASSUME NEW x \in Commands, Look(x) PROVE Numbered'
  BY <1>7 DEF Look, Owner
<1>8. ASSUME NEW x \in Commands, Fetch(x) PROVE Numbered'
  BY <1>8 DEF Fetch
<1>9. ASSUME NEW x \in Commands, ChangeDM(x) PROVE Numbered'
  BY <1>9 DEF ChangeDM, AfterDM
<1>10. ASSUME NEW x \in Commands, ChangeRow(x) PROVE Numbered'
  BY <1>10 DEF ChangeRow, NewRow, Executed, Rejected, Answered, Raises, Stops
<1>11. CASE Restart
  BY <1>11 DEF Restart, Running
<1>12. CASE UNCHANGED vars
  BY <1>12 DEF vars
<1>13. QED
  BY <1>1, <1>2, <1>3, <1>4, <1>5, <1>6, <1>7, <1>8, <1>9, <1>10, <1>11, <1>12 DEF Next, Step

LEMMA StepDelivered ==
  ASSUME IInv, [Next]_vars
  PROVE  RowDelivered'
<1> USE VerbalsAssumption DEF IInv, TypeOK, Tasks, Commands, Labels, command, data, faults, Goto, Proceeds, Outcomes, Ordered, RowDelivered
<1>1. ASSUME NEW w \in Warnings, NEW m \in Mods, Warn(w, m) PROVE RowDelivered'
  BY <1>1 DEF Warn, MayBegin, FirstStep
<1>2. ASSUME NEW w \in Warnings, Send(w) PROVE RowDelivered'
  BY <1>2 DEF Send
<1>3. ASSUME NEW w \in Warnings, AddVerbal(w) PROVE RowDelivered'
  BY <1>3 DEF AddVerbal, Executed, Rejected, Answered, Raises, Stops
<1>4. ASSUME NEW n \in Notes, Note(n) PROVE RowDelivered'
  BY <1>4 DEF Note, MayBegin
<1>5. ASSUME NEW n \in Notes, AddNote(n) PROVE RowDelivered'
  BY <1>5 DEF AddNote, Executed, Rejected, Answered, Raises, Stops
<1>6. ASSUME NEW x \in Commands, NEW w \in Warnings, NEW m \in Mods, Command(x, w, m) PROVE RowDelivered'
  BY <1>6 DEF Command, MayBegin
<1>7. ASSUME NEW x \in Commands, Look(x) PROVE RowDelivered'
  BY <1>7 DEF Look, Owner
<1>8. ASSUME NEW x \in Commands, Fetch(x) PROVE RowDelivered'
  BY <1>8 DEF Fetch
<1>9. ASSUME NEW x \in Commands, ChangeDM(x) PROVE RowDelivered'
  BY <1>9 DEF ChangeDM, AfterDM
<1>10. ASSUME NEW x \in Commands, ChangeRow(x) PROVE RowDelivered'
  BY <1>10 DEF ChangeRow, NewRow, Executed, Rejected, Answered, Raises, Stops
<1>11. CASE Restart
  BY <1>11 DEF Restart, Running
<1>12. CASE UNCHANGED vars
  BY <1>12 DEF vars
<1>13. QED
  BY <1>1, <1>2, <1>3, <1>4, <1>5, <1>6, <1>7, <1>8, <1>9, <1>10, <1>11, <1>12 DEF Next, Step

LEMMA StepSaved ==
  ASSUME IInv, [Next]_vars
  PROVE  NoteSaved'
<1> USE VerbalsAssumption DEF IInv, TypeOK, Tasks, Commands, Labels, command, data, faults, Goto, Proceeds, Outcomes, Numbered, NoteSaved
<1>1. ASSUME NEW w \in Warnings, NEW m \in Mods, Warn(w, m) PROVE NoteSaved'
  BY <1>1 DEF Warn, MayBegin, FirstStep
<1>2. ASSUME NEW w \in Warnings, Send(w) PROVE NoteSaved'
  BY <1>2 DEF Send
<1>3. ASSUME NEW w \in Warnings, AddVerbal(w) PROVE NoteSaved'
  BY <1>3 DEF AddVerbal, Executed, Rejected, Answered, Raises, Stops
<1>4. ASSUME NEW n \in Notes, Note(n) PROVE NoteSaved'
  BY <1>4 DEF Note, MayBegin
<1>5. ASSUME NEW n \in Notes, AddNote(n) PROVE NoteSaved'
  BY <1>5 DEF AddNote, Executed, Rejected, Answered, Raises, Stops
<1>6. ASSUME NEW x \in Commands, NEW w \in Warnings, NEW m \in Mods, Command(x, w, m) PROVE NoteSaved'
  BY <1>6 DEF Command, MayBegin
<1>7. ASSUME NEW x \in Commands, Look(x) PROVE NoteSaved'
  BY <1>7 DEF Look, Owner
<1>8. ASSUME NEW x \in Commands, Fetch(x) PROVE NoteSaved'
  BY <1>8 DEF Fetch
<1>9. ASSUME NEW x \in Commands, ChangeDM(x) PROVE NoteSaved'
  BY <1>9 DEF ChangeDM, AfterDM
<1>10. ASSUME NEW x \in Commands, ChangeRow(x) PROVE NoteSaved'
  BY <1>10 DEF ChangeRow, NewRow, Executed, Rejected, Answered, Raises, Stops
<1>11. CASE Restart
  BY <1>11 DEF Restart, Running
<1>12. CASE UNCHANGED vars
  BY <1>12 DEF vars
<1>13. QED
  BY <1>1, <1>2, <1>3, <1>4, <1>5, <1>6, <1>7, <1>8, <1>9, <1>10, <1>11, <1>12 DEF Next, Step

\* A verbal that is clean has been so from the beginning.
LEMMA CleanBefore ==
  ASSUME IInv, [Next]_vars,
         NEW v \in Warnings, Clean(v)'
  PROVE  Clean(v)
<1> USE VerbalsAssumption DEF IInv, TypeOK, Tasks, Commands, Labels, command, data, faults, Goto, Proceeds, Outcomes, Clean, Ordered
<1>1. ASSUME NEW w \in Warnings, NEW m \in Mods, Warn(w, m) PROVE Clean(v)
  BY <1>1 DEF Warn, MayBegin, FirstStep
<1>2. ASSUME NEW w \in Warnings, Send(w) PROVE Clean(v)
  BY <1>2 DEF Send
<1>3. ASSUME NEW w \in Warnings, AddVerbal(w) PROVE Clean(v)
  BY <1>3 DEF AddVerbal, Executed, Rejected, Answered, Raises, Stops
<1>4. ASSUME NEW n \in Notes, Note(n) PROVE Clean(v)
  BY <1>4 DEF Note, MayBegin
<1>5. ASSUME NEW n \in Notes, AddNote(n) PROVE Clean(v)
  BY <1>5 DEF AddNote, Executed, Rejected, Answered, Raises, Stops
<1>6. ASSUME NEW x \in Commands, NEW w \in Warnings, NEW m \in Mods, Command(x, w, m) PROVE Clean(v)
  BY <1>6 DEF Command, MayBegin
<1>7. ASSUME NEW x \in Commands, Look(x) PROVE Clean(v)
  BY <1>7 DEF Look
<1>8. ASSUME NEW x \in Commands, Fetch(x) PROVE Clean(v)
  BY <1>8 DEF Fetch
<1>9. ASSUME NEW x \in Commands, ChangeDM(x) PROVE Clean(v)
  BY <1>9 DEF ChangeDM
<1>10. ASSUME NEW x \in Commands, ChangeRow(x) PROVE Clean(v)
  BY <1>10 DEF ChangeRow, NewRow, Executed, Rejected, Answered, Raises, Stops
<1>11. CASE Restart
  BY <1>11 DEF Restart, Running
<1>12. CASE UNCHANGED vars
  BY <1>12 DEF vars
<1>13. QED
  BY <1>1, <1>2, <1>3, <1>4, <1>5, <1>6, <1>7, <1>8, <1>9, <1>10, <1>11, <1>12 DEF Next, Step

LEMMA StepTrack ==
  ASSUME IInv, [Next]_vars,
         NEW v \in Warnings, Clean(v)', Clean(v), Track(v)
  PROVE  Track(v)'
<1> USE VerbalsAssumption DEF IInv, TypeOK, Tasks, Commands, Labels, command, data, faults, Goto, Proceeds, Outcomes, Clean, Ordered, Track, Between
<1>1. ASSUME NEW w \in Warnings, NEW m \in Mods, Warn(w, m) PROVE Track(v)'
  BY <1>1 DEF Warn, MayBegin, FirstStep
<1>2. ASSUME NEW w \in Warnings, Send(w) PROVE Track(v)'
  BY <1>2 DEF Send
<1>3. ASSUME NEW w \in Warnings, AddVerbal(w) PROVE Track(v)'
  BY <1>3 DEF AddVerbal, Executed, Rejected, Answered, Raises, Stops
<1>4. ASSUME NEW n \in Notes, Note(n) PROVE Track(v)'
  BY <1>4 DEF Note, MayBegin
<1>5. ASSUME NEW n \in Notes, AddNote(n) PROVE Track(v)'
  BY <1>5 DEF AddNote, Executed, Rejected, Answered, Raises, Stops
<1>6. ASSUME NEW x \in Commands, NEW w \in Warnings, NEW m \in Mods, Command(x, w, m) PROVE Track(v)'
  BY <1>6 DEF Command, MayBegin
<1>7. ASSUME NEW x \in Commands, Look(x) PROVE Track(v)'
  BY <1>7 DEF Look
<1>8. ASSUME NEW x \in Commands, Fetch(x) PROVE Track(v)'
  BY <1>8 DEF Fetch
<1>9. ASSUME NEW x \in Commands, ChangeDM(x) PROVE Track(v)'
  BY <1>9 DEF ChangeDM, AfterDM, Overlaps
<1>10. ASSUME NEW x \in Commands, ChangeRow(x) PROVE Track(v)'
  BY <1>10 DEF ChangeRow, NewRow, Executed, Rejected, Answered, Raises, Stops
<1>11. CASE Restart
  BY <1>11 DEF Restart, Running
<1>12. CASE UNCHANGED vars
  BY <1>12 DEF vars
<1>13. QED
  BY <1>1, <1>2, <1>3, <1>4, <1>5, <1>6, <1>7, <1>8, <1>9, <1>10, <1>11, <1>12 DEF Next, Step

LEMMA InitIInv ==
  ASSUME Init
  PROVE  IInv
<1> USE VerbalsAssumption DEF Init, Tasks, Commands, Labels
<1>1. TypeOK
  BY DEF TypeOK
<1>2. Ordered /\ Numbered /\ RowDelivered /\ NoteSaved
  BY DEF Ordered, Numbered, RowDelivered, NoteSaved
<1>3. Tracked
  BY DEF Tracked, Track
<1>4. QED
  BY <1>1, <1>2, <1>3 DEF IInv

LEMMA StepIInv ==
  ASSUME IInv, [Next]_vars
  PROVE  IInv'
<1>1. Tracked'
  <2>1. SUFFICES ASSUME NEW v \in Warnings, Clean(v)' PROVE Track(v)'
    BY DEF Tracked
  <2>2. Clean(v)
    BY <2>1, CleanBefore
  <2>3. Track(v)
    BY <2>2 DEF IInv, Tracked
  <2>4. QED
    BY <2>1, <2>2, <2>3, StepTrack
<1>2. QED
  BY <1>1, StepType, StepOrdered, StepNumbered, StepDelivered, StepSaved DEF IInv

LEMMA Invariance == Spec => []IInv
<1>1. QED
  BY InitIInv, StepIInv, PTL DEF Spec

-----------------------------------------------------------------------------
\* The types of the state of the verbals and notes.
THEOREM TypeCorrect == Spec => []TypeOK
BY Invariance, PTL DEF IInv

\* A verbal has a row only if its message was delivered, however sending,
\* retries, edits, deletes and restarts interleave.
THEOREM DeliveredCorrect == Spec => []RowDelivered
BY Invariance, PTL DEF IInv

LEMMA IInvAgrees == IInv => RowAgrees
<1>1. SUFFICES ASSUME IInv, NEW w \in Warnings \ (crossed \cup hurt \cup lost), pc[w] = "ended",
                      \A x \in Commands : target[x] = w => pc[x] = "ended" /\ x \notin hurt
               PROVE  IF row[w] = None THEN dm[w] = "gone" ELSE row[w].text = dm[w]
  BY DEF RowAgrees
<1>2. Track(w)
  BY <1>1 DEF IInv, Tracked, Clean
<1>3. \A x \in Commands : ~Between(x, w)
  BY <1>1 DEF Between
<1>4. QED
  BY <1>1, <1>2, <1>3 DEF Track, Commands

\* When all commands about a verbal have ended without a failure, its row says
\* what the user sees.
THEOREM AgreeCorrect == Spec => []RowAgrees
BY Invariance, IInvAgrees, PTL

\* A note that was reported as saved has a row, just one unless an attempt was
\* carried out in vain.
THEOREM NoteCorrect == Spec => []NoteSaved
BY Invariance, PTL DEF IInv
=============================================================================
