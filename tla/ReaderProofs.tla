------------------------------ MODULE ReaderProofs -----------------------------
(*******************************************************************************)
(* Module Reader implements its contract, module Stream, drops the slot only   *)
(* for a cause, is well typed, and guards the shape of the rows a watcher is   *)
(* sent: for any shapes, bounds, attempts and budget.                          *)
(*******************************************************************************)
EXTENDS Reader, TLAPS

Txs == [published : BOOLEAN, rows : Seq(Nat), bad : BadRows \cup {"none"}]

\* The types the arguments below need.
StreamTyped ==
    /\ versions \in Seq(Shapes) /\ log \in Seq(Txs)
    /\ sending \in Nat /\ taken \in Nat /\ inTx \in BOOLEAN

\* Position p is one of the log's, and the sink has all that is published before it.
Safe(p) == p \in 0..Len(log) /\ Contract!Covered(p)

\* Every position Run, the walsender and the slot can resume from or acknowledge is
\* safe; the transaction on the wire is the next published one after the walsender's
\* position; and the decoder knows when it is inside one.
PositionsSafe ==
    /\ Safe(confirmed) /\ Safe(status) /\ Safe(safeLSN) /\ Safe(sent)
    /\ inTx <=> sending # 0
    /\ sending # 0 =>
          /\ sending \in Published /\ sending > sent
          /\ \A m \in Published : m > sent => sending <= m

\* Nothing is on the wire without a connection.
NothingWithoutStream == pc # "receive" => sending = 0

StreamInv == StreamTyped /\ PositionsSafe /\ NothingWithoutStream

\* Run gives the slot up only when its stream's context is done, which the policy
\* ends only in its terminal state.
DropInv ==
    /\ pc = "drop" => streamDone
    /\ stopped => retention = retentionTerminal
    /\ slot = "dropped" => pc = "failed" /\ (retention = retentionTerminal \/ cancelled)
--------------------------------------------------------------------------------
(* What a commit and the sink do to positions *)

\* A commit adds its transaction to the published ones or leaves them as they are.
LEMMA PublishedAppend ==
    ASSUME NEW t \in Txs, log \in Seq(Txs), log' = Append(log, t)
    PROVE  /\ Len(log) \in Nat /\ Len(log') = Len(log) + 1 /\ log' \in Seq(Txs)
           /\ Published \subseteq 1..Len(log)
           /\ Published' = IF t.published THEN Published \cup {Len(log) + 1} ELSE Published
<1>1. Len(log) \in Nat /\ Len(log') = Len(log) + 1 /\ log' \in Seq(Txs)
  OBVIOUS
<1>2. \A n \in 1..Len(log) : log'[n] = log[n]
  OBVIOUS
<1>3. log'[Len(log) + 1] = t
  OBVIOUS
<1>4. t.published \in BOOLEAN
  BY DEF Txs
<1>5. 1..Len(log') = 1..Len(log) \cup {Len(log) + 1}
  BY <1>1
<1>6. Published \subseteq 1..Len(log)
  BY Zenon DEF Published
<1>7. Published' = {n \in 1..Len(log') : log'[n].published}
  BY Zenon DEF Published
<1>8. CASE t.published
  <2>1. \A n : n \in Published' <=> n \in Published \cup {Len(log) + 1}
    BY <1>2, <1>3, <1>5, <1>7, <1>8, Zenon DEF Published
  <2> QED
    BY <1>1, <1>6, <1>8, <2>1, Zenon
<1>9. CASE ~t.published
  <2>1. \A n : n \in Published' <=> n \in Published
    BY <1>2, <1>3, <1>5, <1>7, <1>9, Zenon DEF Published
  <2> QED
    BY <1>1, <1>6, <1>9, <2>1, Zenon
<1> QED
  BY <1>4, <1>8, <1>9, Zenon

\* A commit leaves every safe position safe.
LEMMA SafeAfterCommit ==
    ASSUME NEW t \in Txs, log \in Seq(Txs), log' = Append(log, t), taken' = taken,
           NEW p, Safe(p)
    PROVE  p \in 0..Len(log') /\ \A n \in Published' : n <= p => n <= taken'
<1>1. Len(log) \in Nat /\ Len(log') = Len(log) + 1
  BY PublishedAppend
<1>2. p \in 0..Len(log) /\ \A n \in Published : n <= p => n <= taken
  BY Zenon DEF Safe, Contract!Covered
<1>3. Published' \subseteq Published \cup {Len(log) + 1}
  BY PublishedAppend, Zenon
<1>4. ~(Len(log) + 1 <= p)
  BY <1>1, <1>2
<1>5. p \in 0..Len(log')
  BY <1>1, <1>2
<1> QED
  BY <1>2, <1>3, <1>4, <1>5, Zenon

\* ... and a step that neither commits nor delivers leaves them as they are.
LEMMA PublishedSame == log' = log => Published' = Published /\ Len(log') = Len(log)
  BY Zenon DEF Published

\* The start of the log is a safe position.
LEMMA ZeroSafe == log \in Seq(Txs) => Safe(0)
<1> SUFFICES ASSUME log \in Seq(Txs) PROVE Safe(0)
  BY Zenon
<1>1. Len(log) \in Nat /\ 0 \in 0..Len(log)
  OBVIOUS
<1>2. \A n \in Published : ~(n <= 0)
  BY <1>1 DEF Published
<1> QED
  BY <1>1, <1>2, Zenon DEF Safe, Contract!Covered

\* A step that leaves the log and what was taken keeps every safe position safe.
LEMMA SafeSame ==
    ASSUME UNCHANGED <<log, taken>>, NEW p, Safe(p)
    PROVE  p \in 0..Len(log') /\ \A n \in Published' : n <= p => n <= taken'
  BY PublishedSame, Zenon DEF Safe, Contract!Covered

\* A call of read that returns, whatever the error, leaves safe positions.
LEMMA ReadEndsSafe ==
    ASSUME NEW e, StreamInv, ReadEnds(e), UNCHANGED <<log, versions, taken>>,
           Safe(confirmed'), Safe(status')
    PROVE  StreamInv'
<1>1. Safe(0)
  BY ZeroSafe, Zenon DEF StreamInv, StreamTyped
<1>2. safeLSN' = 0 /\ sent' = 0 /\ sending' = 0 /\ inTx' = FALSE
  BY Zenon DEF ReadEnds
<1>3. Safe(safeLSN)' /\ Safe(sent)' /\ Safe(confirmed)' /\ Safe(status)'
  BY <1>1, <1>2, SafeSame, Zenon DEF Safe, Contract!Covered
<1>4. StreamTyped'
  BY <1>2 DEF StreamInv, StreamTyped
<1> QED
  BY <1>2, <1>3, <1>4, Zenon DEF StreamInv, PositionsSafe, NothingWithoutStream

\* A stream that begins at the slot's position leaves safe positions.
LEMMA StreamFromSafe ==
    ASSUME StreamInv, StreamFrom(confirmed), UNCHANGED <<log, versions, taken, confirmed>>,
           pc = "connect"
    PROVE  StreamInv'
<1>1. Safe(0) /\ Safe(confirmed)
  BY ZeroSafe, Zenon DEF StreamInv, StreamTyped, PositionsSafe
<1>2. /\ sent' = confirmed /\ safeLSN' = confirmed /\ status' = 0
      /\ sending = 0 /\ sending' = 0 /\ inTx' = inTx /\ pc' = "receive"
  BY DEF StreamFrom, decoderVars, StreamInv, NothingWithoutStream
<1>3. Safe(safeLSN)' /\ Safe(sent)' /\ Safe(confirmed)' /\ Safe(status)'
  BY <1>1, <1>2, SafeSame, Zenon DEF Safe, Contract!Covered
<1>4. StreamTyped'
  BY <1>2, Zenon DEF StreamInv, StreamTyped
<1> QED
  BY <1>2, <1>3, <1>4, Zenon DEF StreamInv, PositionsSafe, NothingWithoutStream

--------------------------------------------------------------------------------
(* Every step keeps StreamInv *)

\* What the positions depend on.
streamView == <<log, versions, taken, confirmed, status, safeLSN, sent, sending, inTx>>

\* A step that changes none of it and does not leave a stream.
LEMMA ViewSame == StreamInv /\ UNCHANGED streamView /\ (pc' = pc \/ pc # "receive") => StreamInv'
<1> SUFFICES ASSUME StreamInv, UNCHANGED streamView, pc' = pc \/ pc # "receive" PROVE StreamInv'
  BY Zenon
<1>1. /\ log' = log /\ versions' = versions /\ taken' = taken /\ confirmed' = confirmed
      /\ status' = status /\ safeLSN' = safeLSN /\ sent' = sent /\ sending' = sending
      /\ inTx' = inTx
  BY DEF streamView
<1>2. Published' = Published
  BY <1>1, PublishedSame, Zenon
<1> QED
  BY <1>1, <1>2, Zenon
     DEF StreamInv, StreamTyped, PositionsSafe, NothingWithoutStream, Safe, Contract!Covered

\* A transaction commits.
LEMMA CommitStep == StreamInv /\ Commit => StreamInv' /\ Contract!Commit
<1> SUFFICES ASSUME StreamInv, Commit PROVE StreamInv' /\ Contract!Commit
  BY Zenon
<1>1. Len(versions) \in Nat /\ log \in Seq(Txs) /\ Len(log) \in Nat
  BY DEF StreamInv, StreamTyped
<1>2. PICK t \in Txs : log' = Append(log, t)
  <2>1. Tx(FALSE, <<>>, "none") \in Txs
    BY DEF Tx, Txs
  <2>2. ASSUME NEW bad \in BadRows \cup {"none"} PROVE Tx(TRUE, <<Len(versions)>>, bad) \in Txs
    BY <1>1 DEF Tx, Txs
  <2>3. Tx(TRUE, <<Len(versions), Len(versions) + 1>>, "none") \in Txs
    BY <1>1 DEF Tx, Txs
  <2> QED
    BY <2>1, <2>2, <2>3, Zenon DEF Commit
<1>3. versions' \in Seq(Shapes)
  <2>1. CASE UNCHANGED versions
    BY <2>1, Zenon DEF StreamInv, StreamTyped
  <2>2. CASE AlterTable
    BY <2>2 DEF AlterTable, StreamInv, StreamTyped
  <2> QED
    BY <2>1, <2>2, Zenon DEF Commit
<1>4. /\ taken' = taken /\ confirmed' = confirmed /\ status' = status /\ safeLSN' = safeLSN
      /\ sent' = sent /\ sending' = sending /\ inTx' = inTx /\ pc' = pc
  BY DEF Commit, sinkVars, walsenderVars, decoderVars, runVars
<1>5. Safe(safeLSN)' /\ Safe(sent)' /\ Safe(confirmed)' /\ Safe(status)'
  BY <1>1, <1>2, <1>4, SafeAfterCommit, Zenon
     DEF Safe, Contract!Covered, StreamInv, PositionsSafe
<1>6. /\ Len(log') = Len(log) + 1 /\ log' \in Seq(Txs)
      /\ Published' \in {Published, Published \cup {Len(log) + 1}}
  BY <1>1, <1>2, PublishedAppend, Zenon
<1>7. sending # 0 => /\ sending \in Published' /\ sending > sent
                     /\ \A m \in Published' : m > sent => sending <= m
  <2>1. sending # 0 => /\ sending \in Published /\ sending > sent
                       /\ \A m \in Published : m > sent => sending <= m
    BY Zenon DEF StreamInv, PositionsSafe
  <2>2. Published \subseteq 1..Len(log)
    BY Zenon DEF Published
  <2>3. sending # 0 => sending <= Len(log) + 1
    <3>1. sending # 0 => sending \in 1..Len(log)
      BY <2>1, <2>2, Zenon
    <3> QED
      BY <1>1, <3>1
  <2> QED
    BY <1>6, <2>1, <2>3, Zenon
<1>8. StreamInv'
  BY <1>3, <1>4, <1>5, <1>6, <1>7, Zenon
     DEF StreamInv, StreamTyped, PositionsSafe, NothingWithoutStream
<1>9. Contract!Commit
  BY <1>4, <1>6, Zenon DEF Contract!Commit
<1> QED
  BY <1>8, <1>9, Zenon

\* The walsender reads a status update.
LEMMA ConfirmStep == StreamInv /\ Confirm => StreamInv' /\ Contract!Release
<1> SUFFICES ASSUME StreamInv, Confirm PROVE StreamInv' /\ Contract!Release
  BY Zenon
<1>1. /\ log' = log /\ versions' = versions /\ taken' = taken /\ confirmed' = status
      /\ status' = status /\ safeLSN' = safeLSN /\ sent' = sent /\ sending' = sending
      /\ inTx' = inTx /\ pc' = pc
  BY DEF Confirm, sinkVars, walsenderVars, decoderVars, runVars
<1>2. Published' = Published /\ Len(log') = Len(log)
  BY <1>1, PublishedSame, Zenon
<1>3. StreamInv'
  BY <1>1, <1>2, Zenon
     DEF StreamInv, StreamTyped, PositionsSafe, NothingWithoutStream, Safe, Contract!Covered
<1>4. status \in (confirmed + 1)..Len(log)
  <2>1. Len(log) \in Nat /\ confirmed \in 0..Len(log) /\ status \in 0..Len(log)
    BY DEF StreamInv, StreamTyped, PositionsSafe, Safe
  <2> QED
    BY <2>1 DEF Confirm
<1>5. Contract!Covered(status)
  BY Zenon DEF StreamInv, PositionsSafe, Safe
<1>6. Contract!Release
  BY <1>1, <1>2, <1>4, <1>5, Zenon DEF Contract!Release
<1> QED
  BY <1>3, <1>6, Zenon

\* The next transaction begins.
LEMMA BeginStep == StreamInv /\ BeginMessage => StreamInv' /\ UNCHANGED Contract!vars
<1> SUFFICES ASSUME StreamInv, BeginMessage PROVE StreamInv' /\ UNCHANGED Contract!vars
  BY Zenon
<1>1. /\ log' = log /\ versions' = versions /\ taken' = taken /\ confirmed' = confirmed
      /\ status' = status /\ safeLSN' = safeLSN /\ sent' = sent /\ inTx' = TRUE /\ pc' = pc
      /\ pc = "receive"
  BY DEF BeginMessage, sinkVars, postgresVars, runVars
<1>2. Published' = Published /\ Len(log') = Len(log)
  BY <1>1, PublishedSame, Zenon
<1>3. PICK n \in Published : n > sent /\ (\A m \in Published : m > sent => n <= m) /\ sending' = n
  BY Zenon DEF BeginMessage
<1>4. sending' \in Nat /\ sending' # 0
  BY <1>3 DEF Published
<1>5. StreamInv'
  BY <1>1, <1>2, <1>3, <1>4, Zenon
     DEF StreamInv, StreamTyped, PositionsSafe, NothingWithoutStream, Safe, Contract!Covered
<1> QED
  BY <1>1, <1>2, <1>5, Zenon DEF Contract!vars

\* A keepalive moves the safe position only where nothing published lies between.
LEMMA KeepaliveStep == StreamInv /\ KeepaliveMessage => StreamInv' /\ UNCHANGED Contract!vars
<1> SUFFICES ASSUME StreamInv, KeepaliveMessage PROVE StreamInv' /\ UNCHANGED Contract!vars
  BY Zenon
<1>1. /\ log' = log /\ versions' = versions /\ taken' = taken /\ confirmed' = confirmed
      /\ sending' = sending /\ inTx' = inTx /\ pc' = pc
  BY DEF KeepaliveMessage, sinkVars, postgresVars, runVars, decoderVars
<1>2. Published' = Published /\ Len(log') = Len(log)
  BY <1>1, PublishedSame, Zenon
<1>3. PICK p \in sent..Len(log) :
          /\ \A n \in Published : sent < n /\ n <= p => n = sending
          /\ sent' = IF sending = 0 THEN p ELSE sent
          /\ safeLSN' = SafeAfterKeepalive(p)
          /\ status' = safeLSN' \/ status' = status
  BY Zenon DEF KeepaliveMessage
<1>4. Safe(safeLSN) /\ Safe(sent) /\ Safe(status) /\ Safe(confirmed)
  BY Zenon DEF StreamInv, PositionsSafe
<1>5. sending = 0 => Safe(p)
  <2> SUFFICES ASSUME sending = 0 PROVE Safe(p)
    BY Zenon
  <2>1. Len(log) \in Nat /\ sent \in 0..Len(log) /\ p \in 0..Len(log)
    BY <1>3, <1>4 DEF Safe, StreamInv, StreamTyped
  <2>2. \A n \in Published : n \in 1..Len(log) /\ (n <= sent => n <= taken)
    BY <1>4, Zenon DEF Safe, Contract!Covered, Published
  <2>3. ASSUME NEW n \in Published, n <= p PROVE n <= taken
    BY <1>3, <2>1, <2>2, <2>3
  <2> QED
    BY <2>1, <2>3, Zenon DEF Safe, Contract!Covered
<1>6. Safe(sent') /\ Safe(safeLSN')
  <2>1. CASE sending = 0
    BY <1>3, <1>4, <1>5, <2>1, Zenon DEF SafeAfterKeepalive
  <2>2. CASE sending # 0
    BY <1>3, <1>4, <2>2, Zenon DEF SafeAfterKeepalive, StreamInv, PositionsSafe
  <2> QED
    BY <2>1, <2>2, Zenon
<1>7. Safe(status')
  BY <1>3, <1>4, <1>6, Zenon
<1>8. Safe(safeLSN)' /\ Safe(sent)' /\ Safe(confirmed)' /\ Safe(status)'
  BY <1>1, <1>4, <1>6, <1>7, SafeSame, Zenon DEF Safe, Contract!Covered
<1>9. sending # 0 => sent' = sent
  BY <1>3, Zenon
<1>10. StreamInv'
  BY <1>1, <1>2, <1>8, <1>9, Zenon
     DEF StreamInv, StreamTyped, PositionsSafe, NothingWithoutStream
<1> QED
  BY <1>1, <1>2, <1>10, Zenon DEF Contract!vars

\* COMMIT: the sink takes the next published transaction, or knows it already, and
\* its end is a safe position.
LEMMA CommitMessageStep ==
    StreamInv /\ CommitMessage => StreamInv' /\ (Contract!Take \/ UNCHANGED Contract!vars)
<1> SUFFICES ASSUME StreamInv, CommitMessage
             PROVE  StreamInv' /\ (Contract!Take \/ UNCHANGED Contract!vars)
  BY Zenon
<1>1. /\ log' = log /\ versions' = versions /\ confirmed' = confirmed /\ inTx' = FALSE
      /\ sending # 0 /\ sending' = 0 /\ safeLSN' = sending /\ status' = sending
      /\ sent' = sending
  BY DEF CommitMessage, postgresVars
<1>2. Published' = Published /\ Len(log') = Len(log)
  BY <1>1, PublishedSame, Zenon
<1>3. /\ sending \in Published /\ sending > sent
      /\ \A m \in Published : m > sent => sending <= m
  BY <1>1, Zenon DEF StreamInv, PositionsSafe
<1>4. Safe(confirmed) /\ Safe(sent)
  BY Zenon DEF StreamInv, PositionsSafe
<1>5. Len(log) \in Nat /\ taken \in Nat /\ sent \in 0..Len(log) /\ sending \in 1..Len(log)
  BY <1>3, <1>4 DEF Safe, Published, StreamInv, StreamTyped
<1>6. \A m \in Published : m \in 1..Len(log) /\ (m <= sent => m <= taken)
  BY <1>4, Zenon DEF Safe, Contract!Covered, Published
<1>7. Contract!Covered(sending - 1)
  <2>1. ASSUME NEW m \in Published, m <= sending - 1 PROVE m <= taken
    BY <1>3, <1>5, <1>6, <2>1
  <2> QED
    BY <2>1, Zenon DEF Contract!Covered
<1>8. \/ sending <= taken /\ taken' = taken
      \/ sending > taken /\ taken' = sending
  BY DEF CommitMessage, Accept, sinkVars
<1>9. taken' \in Nat /\ taken <= taken' /\ sending <= taken'
  BY <1>5, <1>8
<1>10. Safe(safeLSN)' /\ Safe(sent)' /\ Safe(status)'
  <2>1. ASSUME NEW m \in Published, m <= sending PROVE m <= taken'
    BY <1>5, <1>6, <1>9, <2>1
  <2>2. sending \in 0..Len(log)
    BY <1>5
  <2> QED
    BY <1>1, <1>2, <2>1, <2>2, Zenon DEF Safe, Contract!Covered
<1>11. Safe(confirmed)'
  <2>1. ASSUME NEW m \in Published, m <= confirmed PROVE m <= taken'
    <3>1. m <= taken
      BY <1>4, <2>1, Zenon DEF Safe, Contract!Covered
    <3> QED
      BY <1>5, <1>6, <1>9, <3>1
  <2> QED
    BY <1>1, <1>2, <1>4, <2>1, Zenon DEF Safe, Contract!Covered
<1>12. StreamInv'
  <2>1. StreamTyped'
    BY <1>1, <1>9 DEF StreamInv, StreamTyped
  <2> QED
    BY <1>1, <1>10, <1>11, <2>1, Zenon DEF StreamInv, PositionsSafe, NothingWithoutStream
<1>13. CASE taken' = taken
  BY <1>1, <1>2, <1>12, <1>13, Zenon DEF Contract!vars
<1>14. CASE sending > taken /\ taken' = sending
  BY <1>1, <1>2, <1>3, <1>7, <1>12, <1>14, Zenon DEF Contract!Take
<1> QED
  BY <1>8, <1>13, <1>14, Zenon

\* A status update that nothing but the interval asked for.
LEMMA StatusStep == StreamInv /\ StatusInterval => StreamInv' /\ UNCHANGED Contract!vars
<1> SUFFICES ASSUME StreamInv, StatusInterval PROVE StreamInv' /\ UNCHANGED Contract!vars
  BY Zenon
<1>1. /\ log' = log /\ versions' = versions /\ taken' = taken /\ confirmed' = confirmed
      /\ status' = safeLSN /\ safeLSN' = safeLSN /\ sent' = sent /\ sending' = sending
      /\ inTx' = inTx /\ pc' = pc
  BY DEF StatusInterval, sinkVars, postgresVars, runVars, decoderVars
<1>2. Published' = Published /\ Len(log') = Len(log)
  BY <1>1, PublishedSame, Zenon
<1>3. StreamInv'
  BY <1>1, <1>2, Zenon
     DEF StreamInv, StreamTyped, PositionsSafe, NothingWithoutStream, Safe, Contract!Covered
<1> QED
  BY <1>1, <1>2, <1>3, Zenon DEF Contract!vars

\* PostgreSQL restarts with an earlier position of the slot, which is as safe.
LEMMA RestartStep == StreamInv /\ PostgresRestarts => StreamInv' /\ Contract!Forget
<1> SUFFICES ASSUME StreamInv, PostgresRestarts PROVE StreamInv' /\ Contract!Forget
  BY Zenon
<1>1. /\ log' = log /\ versions' = versions /\ taken' = taken /\ status' = 0
      /\ ReadEnds("SourceUnavailable")
  BY DEF PostgresRestarts, sinkVars
<1>2. PICK p \in 0..(confirmed - 1) : confirmed' = p
  BY Zenon DEF PostgresRestarts
<1>3. Safe(confirmed)
  BY Zenon DEF StreamInv, PositionsSafe
<1>4. Len(log) \in Nat /\ confirmed \in 0..Len(log) /\ p \in 0..Len(log) /\ p <= confirmed
  BY <1>2, <1>3 DEF Safe, StreamInv, StreamTyped
<1>5. Safe(p)
  <2>1. ASSUME NEW m \in Published, m <= p PROVE m <= confirmed
    <3>1. m \in 1..Len(log)
      BY Zenon DEF Published
    <3> QED
      BY <1>4, <2>1, <3>1
  <2> QED
    BY <1>3, <1>4, <2>1, Zenon DEF Safe, Contract!Covered
<1>6. Safe(0)
  BY ZeroSafe, Zenon DEF StreamInv, StreamTyped
<1>7. Safe(confirmed') /\ Safe(status')
  BY <1>1, <1>2, <1>5, <1>6, Zenon
<1>8. StreamInv'
  BY <1>1, <1>7, ReadEndsSafe, Zenon
<1>9. Published' = Published /\ Len(log') = Len(log)
  BY <1>1, PublishedSame, Zenon
<1> QED
  BY <1>1, <1>2, <1>8, <1>9, Zenon DEF Contract!Forget

\* What a step that leaves the contract's variables shares.
LEMMA ContractSame ==
    log' = log /\ taken' = taken /\ confirmed' = confirmed => UNCHANGED Contract!vars
  BY PublishedSame, Zenon DEF Contract!vars

\* The table is altered and nothing else happens.
LEMMA AlterStep == StreamInv /\ Alter => StreamInv' /\ UNCHANGED Contract!vars
<1> SUFFICES ASSUME StreamInv, Alter PROVE StreamInv' /\ UNCHANGED Contract!vars
  BY Zenon
<1>1. /\ log' = log /\ taken' = taken /\ confirmed' = confirmed
      /\ status' = status /\ safeLSN' = safeLSN /\ sent' = sent /\ sending' = sending
      /\ inTx' = inTx /\ pc' = pc
  BY DEF Alter, sinkVars, walsenderVars, decoderVars, runVars
<1>2. Published' = Published /\ Len(log') = Len(log)
  BY <1>1, PublishedSame, Zenon
<1>3. versions' \in Seq(Shapes)
  BY DEF Alter, AlterTable, StreamInv, StreamTyped
<1>4. StreamInv'
  BY <1>1, <1>2, <1>3, Zenon
     DEF StreamInv, StreamTyped, PositionsSafe, NothingWithoutStream, Safe, Contract!Covered
<1> QED
  BY <1>1, <1>4, ContractSame, Zenon

\* The steps that leave the log, what was taken and every position as they are.
Aside == \/ RelationMessage \/ SlotIsLost \/ CheckCaller \/ CheckStream \/ Backoff
         \/ budgetExceeded \/ Cancel \/ RetentionSample
         \/ projectionShape \/ Validate \/ ReadRows \/ OtherValidates \/ Leave

\* They keep the invariant.
LEMMA AsideStep == StreamInv /\ Aside => StreamInv' /\ UNCHANGED Contract!vars
<1> SUFFICES ASSUME StreamInv, Aside PROVE StreamInv' /\ UNCHANGED Contract!vars
  BY Zenon
<1> DEFINE Same == UNCHANGED streamView /\ (pc' = pc \/ pc # "receive")
<1>1. ASSUME RelationMessage PROVE Same
  BY <1>1 DEF RelationMessage, streamView, postgresVars, walsenderVars, sinkVars, runVars, decoderVars
<1>2. ASSUME SlotIsLost PROVE Same
  BY <1>2 DEF SlotIsLost, streamView, postgresVars, walsenderVars, sinkVars, runVars, decoderVars
<1>3. ASSUME CheckCaller PROVE Same
  BY <1>3 DEF CheckCaller, streamView, postgresVars, walsenderVars, sinkVars, runVars, decoderVars
<1>4. ASSUME CheckStream PROVE Same
  BY <1>4 DEF CheckStream, streamView, postgresVars, walsenderVars, sinkVars, runVars, decoderVars
<1>5. ASSUME Backoff PROVE Same
  BY <1>5 DEF Backoff, streamView, postgresVars, walsenderVars, sinkVars, runVars, decoderVars
<1>6. ASSUME budgetExceeded PROVE Same
  BY <1>6 DEF budgetExceeded, dropSlotForBudget, streamView, postgresVars, walsenderVars, sinkVars, runVars, decoderVars
<1>7. ASSUME Cancel PROVE Same
  BY <1>7 DEF Cancel, streamView, postgresVars, walsenderVars, sinkVars, runVars, decoderVars
<1>8. ASSUME RetentionSample PROVE Same
  BY <1>8 DEF RetentionSample, applyRetentionPolicy, streamView, postgresVars, walsenderVars, sinkVars, runVars, decoderVars
<1>9. ASSUME Validate PROVE Same
  BY <1>9 DEF Validate, streamView, postgresVars, walsenderVars, sinkVars, runVars, decoderVars
<1>10. ASSUME ReadRows PROVE Same
  BY <1>10 DEF ReadRows, streamView, postgresVars, walsenderVars, sinkVars, runVars, decoderVars
<1>11. ASSUME OtherValidates PROVE Same
  BY <1>11 DEF OtherValidates, streamView, postgresVars, walsenderVars, sinkVars, runVars, decoderVars
<1>12. ASSUME Leave PROVE Same
  BY <1>12 DEF Leave, streamView, postgresVars, walsenderVars, sinkVars, runVars, decoderVars
<1>16. ASSUME projectionShape PROVE Same
  BY <1>16 DEF projectionShape, streamView, postgresVars, walsenderVars, sinkVars, runVars, decoderVars
<1>13. Same
  BY <1>1, <1>2, <1>3, <1>4, <1>5, <1>6, <1>7, <1>8, <1>9, <1>10, <1>11, <1>12, <1>16, Zenon DEF Aside
<1>14. StreamInv'
  BY <1>13, ViewSame, Zenon
<1>15. log' = log /\ taken' = taken /\ confirmed' = confirmed
  BY <1>13 DEF streamView
<1> QED
  BY <1>14, <1>15, ContractSame, Zenon

\* read returns, with any of its errors.
LEMMA EndsStep ==
    ASSUME NEW e, StreamInv, ReadEnds(e),
           UNCHANGED <<postgresVars, status, sinkVars>>
    PROVE  StreamInv' /\ UNCHANGED Contract!vars
<1>1. /\ log' = log /\ versions' = versions /\ taken' = taken /\ confirmed' = confirmed
      /\ status' = status
  BY DEF postgresVars, sinkVars
<1>2. Safe(confirmed') /\ Safe(status')
  BY <1>1, Zenon DEF StreamInv, PositionsSafe
<1>3. StreamInv'
  BY <1>1, <1>2, ReadEndsSafe, Zenon
<1> QED
  BY <1>1, <1>3, ContractSame, Zenon

\* Every step keeps the invariant and is a step of the contract or leaves it.
LEMMA StreamStep ==
    StreamInv /\ [Next]_vars => StreamInv' /\ [Contract!Next]_(Contract!vars)
<1>0. SUFFICES ASSUME StreamInv, [Next]_vars
               PROVE  StreamInv' /\ [Contract!Next]_(Contract!vars)
  BY Zenon
<1> DEFINE Unmoved == StreamInv' /\ UNCHANGED Contract!vars
<1>1. ASSUME Commit PROVE StreamInv' /\ Contract!Commit
  BY <1>0, <1>1, CommitStep, Zenon
<1>2. ASSUME Confirm PROVE StreamInv' /\ Contract!Release
  BY <1>0, <1>2, ConfirmStep, Zenon
<1>3. ASSUME PostgresRestarts PROVE StreamInv' /\ Contract!Forget
  BY <1>0, <1>3, RestartStep, Zenon
<1>4. ASSUME CommitMessage PROVE StreamInv' /\ (Contract!Take \/ UNCHANGED Contract!vars)
  BY <1>0, <1>4, CommitMessageStep, Zenon
<1>5. ASSUME Alter PROVE Unmoved
  BY <1>0, <1>5, AlterStep, Zenon
<1>6. ASSUME BeginMessage PROVE Unmoved
  BY <1>0, <1>6, BeginStep, Zenon
<1>7. ASSUME KeepaliveMessage PROVE Unmoved
  BY <1>0, <1>7, KeepaliveStep, Zenon
<1>8. ASSUME StatusInterval PROVE Unmoved
  BY <1>0, <1>8, StatusStep, Zenon
<1>9. ASSUME Aside PROVE Unmoved
  BY <1>0, <1>9, AsideStep, Zenon
<1>10. ASSUME takeBootstrapStream PROVE Unmoved
  <2>1. /\ log' = log /\ versions' = versions /\ taken' = taken /\ confirmed' = confirmed
        /\ pc = "connect" /\ StreamFrom(confirmed)
    BY <1>10 DEF takeBootstrapStream, postgresVars, sinkVars
  <2> QED
    BY <1>0, <2>1, StreamFromSafe, ContractSame, Zenon
<1>11. ASSUME startReplication PROVE Unmoved
  <2>1. /\ log' = log /\ versions' = versions /\ taken' = taken /\ confirmed' = confirmed
        /\ pc = "connect" /\ StreamFrom(confirmed)
    BY <1>11 DEF startReplication, postgresVars, sinkVars
  <2> QED
    BY <1>0, <2>1, StreamFromSafe, ContractSame, Zenon
<1>12. ASSUME requireSlot PROVE Unmoved
  <2>1. PICK e : ReadEnds(e) /\ UNCHANGED <<postgresVars, status, sinkVars>>
    BY <1>12 DEF requireSlot
  <2> QED
    BY <1>0, <2>1, EndsStep, Zenon
<1>13. ASSUME ConnectFails PROVE Unmoved
  <2>1. PICK e : ReadEnds(e) /\ UNCHANGED <<postgresVars, status, sinkVars>>
    BY <1>13 DEF ConnectFails
  <2> QED
    BY <1>0, <2>1, EndsStep, Zenon
<1>14. ASSUME StreamBreaks PROVE Unmoved
  <2>1. PICK e : ReadEnds(e) /\ UNCHANGED <<postgresVars, status, sinkVars>>
    BY <1>14 DEF StreamBreaks
  <2> QED
    BY <1>0, <2>1, EndsStep, Zenon
<1>15. ASSUME Disconnected PROVE Unmoved
  <2>1. PICK e : ReadEnds(e) /\ UNCHANGED <<postgresVars, status, sinkVars>>
    BY <1>15 DEF Disconnected
  <2> QED
    BY <1>0, <2>1, EndsStep, Zenon
<1>16. ASSUME Interrupted PROVE Unmoved
  <2>1. PICK e : ReadEnds(e) /\ UNCHANGED <<postgresVars, status, sinkVars>>
    BY <1>16 DEF Interrupted
  <2> QED
    BY <1>0, <2>1, EndsStep, Zenon
<1>17. ASSUME SinkRejects PROVE Unmoved
  <2>1. PICK e : ReadEnds(e) /\ UNCHANGED <<postgresVars, status, sinkVars>>
    BY <1>17 DEF SinkRejects
  <2> QED
    BY <1>0, <2>1, EndsStep, Zenon
<1>18. ASSUME RowMessage PROVE Unmoved
  <2>1. CASE UNCHANGED streamView /\ pc' = pc
    <3>1. log' = log /\ taken' = taken /\ confirmed' = confirmed
      BY <2>1 DEF streamView
    <3> QED
      BY <1>0, <2>1, <3>1, ViewSame, ContractSame, Zenon
  <2>2. CASE \E e : ReadEnds(e) /\ UNCHANGED <<postgresVars, status, sinkVars>>
    BY <1>0, <2>2, EndsStep, Zenon
  <2>3. UNCHANGED <<postgresVars, status, sinkVars>>
    BY <1>18 DEF RowMessage
  <2>4. (UNCHANGED <<sending, sent, pc, err, safeLSN, inTx>>) \/ (\E e : ReadEnds(e))
    BY <1>18, Zenon DEF RowMessage
  <2>5. (UNCHANGED <<sending, sent, pc, err, safeLSN, inTx>>) => UNCHANGED streamView /\ pc' = pc
    BY <2>3 DEF streamView, postgresVars, sinkVars
  <2> QED
    BY <2>1, <2>2, <2>3, <2>4, <2>5, Zenon
<1>19. ASSUME UNCHANGED vars PROVE Unmoved
  <2>1. UNCHANGED streamView /\ pc' = pc
    BY <1>19 DEF vars, streamView, postgresVars, walsenderVars, sinkVars, runVars, decoderVars
  <2>2. log' = log /\ taken' = taken /\ confirmed' = confirmed
    BY <2>1 DEF streamView
  <2> QED
    BY <1>0, <2>1, <2>2, ViewSame, ContractSame, Zenon
<1> QED
  BY <1>0, <1>1, <1>2, <1>3, <1>4, <1>5, <1>6, <1>7, <1>8, <1>9, <1>10, <1>11, <1>12, <1>13, <1>14, <1>15, <1>16, <1>17, <1>18, <1>19, Zenon
     DEF Next, Faulting, Connecting, Receiving, Controlling, Aside, Contract!Next

\* It holds at first, in a state the contract starts from.
LEMMA StreamInit == Init => StreamInv /\ Contract!Init
<1> SUFFICES ASSUME Init PROVE StreamInv /\ Contract!Init
  BY Zenon
<1>1. log = <<>> /\ log \in Seq(Txs) /\ Len(log) = 0
  BY DEF Init
<1>2. Published = {}
  BY <1>1 DEF Published
<1>3. versions \in Seq(Shapes)
  BY ReaderAssumption DEF Init
<1>4. Safe(0)
  BY <1>1, ZeroSafe, Zenon
<1>5. 0 \in Nat /\ FALSE \in BOOLEAN
  OBVIOUS
<1>6. StreamInv
  BY <1>1, <1>3, <1>4, <1>5, Zenon
     DEF Init, StreamInv, StreamTyped, PositionsSafe, NothingWithoutStream
<1> QED
  BY <1>1, <1>2, <1>6, Zenon DEF Init, Contract!Init

\* Whatever breaks, restarts or is sent again, and for any table history, retry
\* limit and retention budget: the stream takes every published transaction in
\* commit order with none left out, and the position it acknowledges never passes
\* one the sink has not taken (Run, read and consumeCopyData).
THEOREM ReaderImplementsStream == Spec => ImplementsStream
<1>1. Init => StreamInv /\ Contract!Init
  BY StreamInit
<1>2. StreamInv /\ [Next]_vars => StreamInv' /\ [Contract!Next]_(Contract!vars)
  BY StreamStep
<1> QED
  BY <1>1, <1>2, PTL DEF Spec, ImplementsStream, Contract!Spec

--------------------------------------------------------------------------------
(* The slot is dropped for a cause *)

\* A step that leaves the slot, the contexts and the policy, and neither reaches
\* budgetExceeded nor leaves a Run that has failed.
Quiet ==
    /\ UNCHANGED <<slot, cancelled, stopped, retention>>
    /\ \/ pc' = pc
       \/ pc \in {"connect", "receive"} /\ pc' \in {"receive", "ended"}
       \/ pc = "ended" /\ pc' = IF cancelled THEN "stopped" ELSE "checked"

\* It keeps the invariant, ...
LEMMA DropSame == DropInv /\ Quiet => DropInv'
<1>0. SUFFICES ASSUME DropInv, Quiet PROVE DropInv'
  BY Zenon
<1>1. slot' = slot /\ cancelled' = cancelled /\ stopped' = stopped /\ retention' = retention
  BY <1>0 DEF Quiet
<1>2. (pc' = "drop" => pc = "drop") /\ (pc = "failed" => pc' = "failed")
  BY <1>0 DEF Quiet
<1>3. streamDone => streamDone'
  BY <1>1, Zenon DEF streamDone
<1> QED
  BY <1>0, <1>1, <1>2, <1>3, Zenon DEF DropInv

\* ... and a stop that has come in time.
LEMMA LeavingSame == Leaving /\ Quiet => Leaving'
<1>0. SUFFICES ASSUME Leaving, Quiet PROVE Leaving'
  BY Zenon
<1>1. cancelled /\ cancelled' = cancelled /\ stopped' = stopped /\ ~stopped
  BY <1>0 DEF Leaving, Quiet
<1>2. pc' \notin {"checked", "drop", "failed"}
  BY <1>0, <1>1 DEF Leaving, Quiet
<1> QED
  BY <1>1, <1>2, Zenon DEF Leaving

\* The steps that do so.
Dropless ==
    \/ Commit \/ Alter \/ Confirm \/ ConnectFails \/ StreamBreaks \/ PostgresRestarts
    \/ SinkRejects \/ takeBootstrapStream \/ startReplication \/ requireSlot
    \/ Receiving \/ Disconnected \/ Interrupted \/ CheckCaller
    \/ KeepaliveMessage \/ StatusInterval
    \/ projectionShape \/ Validate \/ ReadRows \/ OtherValidates \/ Leave
    \/ UNCHANGED vars

\* They are such steps.
LEMMA DroplessQuiet == Dropless => Quiet
<1> SUFFICES ASSUME Dropless PROVE Quiet
  BY Zenon
<1>1. ASSUME Commit PROVE Quiet
  BY <1>1 DEF Quiet, Commit, postgresVars, runVars
<1>2. ASSUME Alter PROVE Quiet
  BY <1>2 DEF Quiet, Alter, postgresVars, runVars
<1>3. ASSUME Confirm PROVE Quiet
  BY <1>3 DEF Quiet, Confirm, postgresVars, runVars
<1>4. ASSUME ConnectFails PROVE Quiet
  BY <1>4 DEF Quiet, ConnectFails, postgresVars, runVars, ReadEnds
<1>5. ASSUME StreamBreaks PROVE Quiet
  BY <1>5 DEF Quiet, StreamBreaks, postgresVars, runVars, ReadEnds
<1>6. ASSUME PostgresRestarts PROVE Quiet
  BY <1>6 DEF Quiet, PostgresRestarts, postgresVars, runVars, ReadEnds
<1>7. ASSUME SinkRejects PROVE Quiet
  BY <1>7 DEF Quiet, SinkRejects, postgresVars, runVars, ReadEnds
<1>8. ASSUME takeBootstrapStream PROVE Quiet
  BY <1>8 DEF Quiet, takeBootstrapStream, postgresVars, runVars, StreamFrom
<1>9. ASSUME startReplication PROVE Quiet
  BY <1>9 DEF Quiet, startReplication, postgresVars, runVars, StreamFrom
<1>10. ASSUME requireSlot PROVE Quiet
  BY <1>10 DEF Quiet, requireSlot, postgresVars, runVars, ReadEnds
<1>11. ASSUME BeginMessage PROVE Quiet
  BY <1>11 DEF Quiet, BeginMessage, postgresVars, runVars
<1>12. ASSUME RelationMessage PROVE Quiet
  BY <1>12 DEF Quiet, RelationMessage, postgresVars, runVars
<1>13. ASSUME RowMessage PROVE Quiet
  BY <1>13 DEF Quiet, RowMessage, postgresVars, runVars, ReadEnds
<1>14. ASSUME CommitMessage PROVE Quiet
  BY <1>14 DEF Quiet, CommitMessage, postgresVars, runVars
<1>15. ASSUME Disconnected PROVE Quiet
  BY <1>15 DEF Quiet, Disconnected, postgresVars, runVars, ReadEnds
<1>16. ASSUME Interrupted PROVE Quiet
  BY <1>16 DEF Quiet, Interrupted, postgresVars, runVars, ReadEnds
<1>17. ASSUME CheckCaller PROVE Quiet
  BY <1>17 DEF Quiet, CheckCaller, postgresVars, runVars
<1>18. ASSUME KeepaliveMessage PROVE Quiet
  BY <1>18 DEF Quiet, KeepaliveMessage, postgresVars, runVars
<1>19. ASSUME StatusInterval PROVE Quiet
  BY <1>19 DEF Quiet, StatusInterval, postgresVars, runVars
<1>20. ASSUME Validate PROVE Quiet
  BY <1>20 DEF Quiet, Validate, postgresVars, runVars
<1>21. ASSUME ReadRows PROVE Quiet
  BY <1>21 DEF Quiet, ReadRows, postgresVars, runVars
<1>22. ASSUME OtherValidates PROVE Quiet
  BY <1>22 DEF Quiet, OtherValidates, postgresVars, runVars
<1>23. ASSUME Leave PROVE Quiet
  BY <1>23 DEF Quiet, Leave, postgresVars, runVars
<1>24. ASSUME UNCHANGED vars PROVE Quiet
  BY <1>24 DEF Quiet, vars, postgresVars, runVars
<1>25. ASSUME projectionShape PROVE Quiet
  BY <1>25 DEF Quiet, projectionShape, postgresVars, runVars
<1> QED
  BY <1>1, <1>2, <1>3, <1>4, <1>5, <1>6, <1>7, <1>8, <1>9, <1>10, <1>11, <1>12, <1>13, <1>14,
     <1>15, <1>16, <1>17, <1>18, <1>19, <1>20, <1>21, <1>22, <1>23, <1>24, <1>25, Zenon
     DEF Dropless, Receiving

\* Every step keeps the invariant.
LEMMA DropStep == DropInv /\ [Next]_vars => DropInv'
<1>0. SUFFICES ASSUME DropInv, [Next]_vars PROVE DropInv'
  BY Zenon
<1>1. ASSUME Dropless PROVE DropInv'
  BY <1>0, <1>1, DroplessQuiet, DropSame, Zenon
<1>2. ASSUME CheckStream PROVE DropInv'
  <2>1. /\ slot' = slot /\ cancelled' = cancelled /\ stopped' = stopped /\ retention' = retention
        /\ pc' = "drop" => streamDone
        /\ pc # "failed"
    BY <1>2 DEF CheckStream, postgresVars
  <2> QED
    BY <1>0, <2>1, Zenon DEF DropInv, streamDone
<1>3. ASSUME Backoff PROVE DropInv'
  <2>1. /\ slot' = slot /\ cancelled' = cancelled /\ stopped' = stopped /\ retention' = retention
        /\ pc' = "drop" => stopped
        /\ pc # "failed"
    BY <1>3 DEF Backoff, postgresVars
  <2> QED
    BY <1>0, <2>1, Zenon DEF DropInv, streamDone
<1>4. ASSUME budgetExceeded PROVE DropInv'
  <2>1. /\ cancelled' = cancelled /\ stopped' = stopped /\ retention' = retention
        /\ pc = "drop" /\ pc' = "failed" /\ pc' # "drop"
    BY <1>4 DEF budgetExceeded, dropSlotForBudget
  <2> QED
    BY <1>0, <2>1, Zenon DEF DropInv, streamDone
<1>5. ASSUME Cancel PROVE DropInv'
  <2>1. /\ slot' = slot /\ cancelled' = TRUE /\ stopped' = stopped /\ retention' = retention
        /\ pc' = pc
    BY <1>5 DEF Cancel, postgresVars
  <2> QED
    BY <1>0, <2>1, Zenon DEF DropInv, streamDone
<1>6. ASSUME SlotIsLost PROVE DropInv'
  <2>1. /\ slot' # "dropped" /\ cancelled' = cancelled /\ stopped' = stopped
        /\ retention' = retention /\ pc' = pc
    BY <1>6 DEF SlotIsLost, runVars
  <2> QED
    BY <1>0, <2>1, Zenon DEF DropInv, streamDone
<1>7. ASSUME RetentionSample PROVE DropInv'
  <2>1. /\ slot' # "dropped" /\ cancelled' = cancelled /\ pc' = pc /\ ~streamDone
        /\ stopped' => retention' = retentionTerminal
    BY <1>7 DEF RetentionSample, applyRetentionPolicy, postgresVars
  <2> QED
    BY <1>0, <2>1, Zenon DEF DropInv
<1> QED
  BY <1>0, <1>1, <1>2, <1>3, <1>4, <1>5, <1>6, <1>7, Zenon
     DEF Next, Faulting, Connecting, Controlling, Dropless

\* A Run whose stop has come in time goes on to return, never to budgetExceeded: the
\* next look at the caller's context sees the stop, and the policy takes no sample
\* after it.
LEMMA LeavingStep == Leaving /\ [Next]_vars => Leaving'
<1>0. SUFFICES ASSUME Leaving, [Next]_vars PROVE Leaving'
  BY Zenon
<1>1. ASSUME Dropless PROVE Leaving'
  BY <1>0, <1>1, DroplessQuiet, LeavingSame, Zenon
<1>2. pc # "checked" /\ pc # "drop" /\ cancelled /\ ~stopped /\ streamDone
  BY <1>0 DEF Leaving, streamDone
<1>3. ~CheckStream /\ ~budgetExceeded /\ ~Cancel /\ ~RetentionSample
  BY <1>2, Zenon DEF CheckStream, budgetExceeded, Cancel, RetentionSample
<1>4. ASSUME Backoff PROVE Leaving'
  <2>1. cancelled' = cancelled /\ stopped' = stopped /\ pc' \in {"connect", "stopped"}
    BY <1>2, <1>4 DEF Backoff
  <2>2. pc' \notin {"checked", "drop", "failed"}
    BY <2>1
  <2> QED
    BY <1>2, <2>1, <2>2, Zenon DEF Leaving
<1>5. ASSUME SlotIsLost PROVE Leaving'
  <2>1. cancelled' = cancelled /\ stopped' = stopped /\ pc' = pc
    BY <1>5 DEF SlotIsLost, runVars
  <2> QED
    BY <1>0, <2>1, Zenon DEF Leaving
<1> QED
  BY <1>0, <1>1, <1>3, <1>4, <1>5, Zenon
     DEF Next, Faulting, Connecting, Controlling, Dropless

\* A slot that Run gave up was given up at the retention budget, or because a stop came
\* between the two looks Run takes at its contexts (stream.go:30 and 34): no connection
\* error, retry limit or refused row costs it, and no stop that comes at another time.
THEOREM DropAlwaysHasCause == Spec => DropHasCause
<1>1. Init => DropInv
  <2> SUFFICES ASSUME Init PROVE DropInv
    BY Zenon
  <2>1. pc # "drop" /\ ~stopped /\ slot # "dropped"
    BY DEF Init
  <2> QED
    BY <2>1, Zenon DEF DropInv
<1>2. DropInv => (slot = "dropped" => retention = retentionTerminal \/ cancelled)
  BY Zenon DEF DropInv
<1>3. DropInv /\ Leaving => slot # "dropped"
  BY DEF DropInv, Leaving
<1> QED
  BY <1>1, <1>2, <1>3, DropStep, LeavingStep, PTL DEF Spec, DropHasCause

--------------------------------------------------------------------------------
(* What the decoder, the registry and the watcher see *)

\* The state that the rows of a transaction pass through on their way to a watcher.
shapeView == <<log, versions, sending, row, pending, relation, events, baseline, gen, taken, watch>>

\* read returns e, and neither the source nor the watcher knows.
Ended(e) == ReadEnds(e) /\ UNCHANGED <<log, versions, baseline, gen, taken, watch>>

\* The steps that change that state without ending a call of read.
ShapeActions ==
    \/ Commit \/ Alter \/ BeginMessage \/ RelationMessage \/ RowMessage \/ CommitMessage
    \/ projectionShape \/ Validate \/ ReadRows \/ OtherValidates \/ Leave

\* There are no others.
LEMMA ShapeCases == [Next]_vars => ShapeActions \/ (\E e : Ended(e)) \/ UNCHANGED shapeView
<1> SUFFICES ASSUME [Next]_vars PROVE ShapeActions \/ (\E e : Ended(e)) \/ UNCHANGED shapeView
  BY Zenon
<1>1. ASSUME requireSlot PROVE \E e : Ended(e)
  BY <1>1, Zenon DEF requireSlot, Ended, postgresVars, shapeVars, sinkVars
<1>2. ASSUME ConnectFails PROVE \E e : Ended(e)
  BY <1>2, Zenon DEF ConnectFails, Ended, postgresVars, shapeVars, sinkVars
<1>3. ASSUME StreamBreaks PROVE \E e : Ended(e)
  BY <1>3, Zenon DEF StreamBreaks, Ended, postgresVars, shapeVars, sinkVars
<1>4. ASSUME PostgresRestarts PROVE \E e : Ended(e)
  BY <1>4, Zenon DEF PostgresRestarts, Ended, postgresVars, shapeVars, sinkVars
<1>5. ASSUME Disconnected PROVE \E e : Ended(e)
  BY <1>5, Zenon DEF Disconnected, Ended, postgresVars, shapeVars, sinkVars
<1>6. ASSUME Interrupted PROVE \E e : Ended(e)
  BY <1>6, Zenon DEF Interrupted, Ended, postgresVars, shapeVars, sinkVars
<1>7. ASSUME SinkRejects PROVE \E e : Ended(e)
  BY <1>7, Zenon DEF SinkRejects, Ended, postgresVars, shapeVars, sinkVars
<1>8. ASSUME Confirm PROVE UNCHANGED shapeView
  BY <1>8 DEF Confirm, shapeView, postgresVars, walsenderVars, decoderVars, shapeVars, sinkVars
<1>9. ASSUME SlotIsLost PROVE UNCHANGED shapeView
  BY <1>9 DEF SlotIsLost, shapeView, postgresVars, walsenderVars, decoderVars, shapeVars, sinkVars
<1>10. ASSUME takeBootstrapStream PROVE UNCHANGED shapeView
  BY <1>10 DEF takeBootstrapStream, StreamFrom, shapeView, postgresVars, walsenderVars, decoderVars, shapeVars, sinkVars
<1>11. ASSUME startReplication PROVE UNCHANGED shapeView
  BY <1>11 DEF startReplication, StreamFrom, shapeView, postgresVars, walsenderVars, decoderVars, shapeVars, sinkVars
<1>12. ASSUME CheckCaller PROVE UNCHANGED shapeView
  BY <1>12 DEF CheckCaller, shapeView, postgresVars, walsenderVars, decoderVars, shapeVars, sinkVars
<1>13. ASSUME CheckStream PROVE UNCHANGED shapeView
  BY <1>13 DEF CheckStream, shapeView, postgresVars, walsenderVars, decoderVars, shapeVars, sinkVars
<1>14. ASSUME Backoff PROVE UNCHANGED shapeView
  BY <1>14 DEF Backoff, shapeView, postgresVars, walsenderVars, decoderVars, shapeVars, sinkVars
<1>15. ASSUME budgetExceeded PROVE UNCHANGED shapeView
  BY <1>15 DEF budgetExceeded, dropSlotForBudget, shapeView, postgresVars, walsenderVars, decoderVars, shapeVars, sinkVars
<1>16. ASSUME Cancel PROVE UNCHANGED shapeView
  BY <1>16 DEF Cancel, shapeView, postgresVars, walsenderVars, decoderVars, shapeVars, sinkVars
<1>17. ASSUME KeepaliveMessage PROVE UNCHANGED shapeView
  BY <1>17 DEF KeepaliveMessage, shapeView, postgresVars, walsenderVars, decoderVars, shapeVars, sinkVars
<1>18. ASSUME StatusInterval PROVE UNCHANGED shapeView
  BY <1>18 DEF StatusInterval, shapeView, postgresVars, walsenderVars, decoderVars, shapeVars, sinkVars
<1>19. ASSUME RetentionSample PROVE UNCHANGED shapeView
  BY <1>19 DEF RetentionSample, applyRetentionPolicy, shapeView, postgresVars, walsenderVars, decoderVars, shapeVars, sinkVars
<1>20. ASSUME UNCHANGED vars PROVE UNCHANGED shapeView
  BY <1>20 DEF vars, shapeView, postgresVars, walsenderVars, decoderVars, shapeVars, sinkVars
<1> QED
  BY <1>1, <1>2, <1>3, <1>4, <1>5, <1>6, <1>7, <1>8, <1>9, <1>10, <1>11, <1>12, <1>13,
     <1>14, <1>15, <1>16, <1>17, <1>18, <1>19, <1>20, Zenon
     DEF Next, Faulting, Connecting, Receiving, Controlling, ShapeActions

--------------------------------------------------------------------------------
(* Every variable has its type *)

\* The transactions whose rows are of the table's first n versions.
TxsOf(n) == [published : BOOLEAN, rows : Seq(1..n), bad : BadRows \cup {"none"}]

\* The table has a version, and every row change is of one of them.
TableType ==
    /\ versions \in Seq(Shapes) /\ Len(versions) >= 1
    /\ log \in Seq(TxsOf(Len(versions)))

\* The decoder's state.
DecoderType ==
    /\ row \in Nat /\ pending \in Seq(Shapes) /\ events \in BOOLEAN
    /\ relation \in [version : 0..Len(versions), checked : Nat, incompatible : BOOLEAN]

\* The registry and the watcher.
ShapeType ==
    /\ baseline \in Shapes \cup {NoShape} /\ gen \in Nat
    /\ watch \in [phase : {"out", "validating", "validated", "live"}, at : Nat, gen : Nat,
                  shape : Shapes \cup {NoShape}, stale : BOOLEAN, fits : BOOLEAN, whole : BOOLEAN]

\* Run, its slot and its retention policy.
RunType ==
    /\ slot \in {"present", "lost", "dropped"}
    /\ pc \in {"connect", "receive", "ended", "checked", "backoff", "drop", "stopped", "failed"}
    /\ err \in Errors /\ attempts \in 0..MaxAttempts
    /\ handed \in BOOLEAN /\ cancelled \in BOOLEAN /\ stopped \in BOOLEAN
    /\ retention \in RetentionStates /\ faults \in Nat

TypeInv == StreamInv /\ TableType /\ DecoderType /\ ShapeType /\ RunType

\* The row changes of a transaction are of versions the table has.
LEMMA RowsTyped ==
    ASSUME TableType, NEW n \in 1..Len(log)
    PROVE  /\ Len(log) \in Nat /\ Len(versions) \in Nat
           /\ log[n].rows \in Seq(1..Len(versions)) /\ Len(log[n].rows) \in Nat
           /\ log[n].bad \in BadRows \cup {"none"}
           /\ \A i \in 1..Len(log[n].rows) : /\ log[n].rows[i] \in 1..Len(versions)
                                             /\ versions[log[n].rows[i]] \in Shapes
<1>1. log[n] \in TxsOf(Len(versions)) /\ Len(log) \in Nat /\ Len(versions) \in Nat
  BY DEF TableType
<1>2. log[n].rows \in Seq(1..Len(versions)) /\ log[n].bad \in BadRows \cup {"none"}
  BY <1>1 DEF TxsOf
<1>3. \A i \in 1..Len(log[n].rows) : log[n].rows[i] \in 1..Len(versions)
  BY <1>2
<1>4. \A v \in 1..Len(versions) : versions[v] \in Shapes
  BY DEF TableType
<1> QED
  BY <1>1, <1>2, <1>3, <1>4

\* A table with one more version keeps the versions it had, and a row of one of
\* those is of the same one.
LEMMA MoreVersions ==
    ASSUME TableType, AlterTable
    PROVE  /\ versions' \in Seq(Shapes) /\ Len(versions') = Len(versions) + 1
           /\ \A v \in 1..Len(versions) : versions'[v] = versions[v]
           /\ TxsOf(Len(versions)) \subseteq TxsOf(Len(versions'))
<1>1. versions \in Seq(Shapes) /\ Len(versions) \in Nat
  BY DEF TableType
<1>2. PICK shape \in Shapes : versions' = Append(versions, shape)
  BY DEF AlterTable
<1>3. versions' \in Seq(Shapes) /\ Len(versions') = Len(versions) + 1
  BY <1>1, <1>2
<1>4. \A v \in 1..Len(versions) : versions'[v] = versions[v]
  BY <1>1, <1>2
<1>5. ASSUME NEW s \in Seq(1..Len(versions)) PROVE s \in Seq(1..Len(versions'))
  <2>1. Len(s) \in Nat /\ \A i \in 1..Len(s) : s[i] \in 1..Len(versions')
    BY <1>1, <1>3
  <2>2. s = [i \in 1..Len(s) |-> s[i]]
    OBVIOUS
  <2> QED
    BY <2>1, <2>2, SMTT(15)
<1>6. TxsOf(Len(versions)) \subseteq TxsOf(Len(versions'))
  BY <1>5 DEF TxsOf
<1> QED
  BY <1>3, <1>4, <1>6

\* A commit appends a transaction whose rows are of the table's last versions.
LEMMA CommitTable ==
    ASSUME TableType, Commit
    PROVE  /\ versions' = versions \/ AlterTable
           /\ \E t \in TxsOf(Len(versions')) :
                 /\ log' = Append(log, t)
                 /\ \A i \in 1..Len(t.rows) : Len(versions) <= t.rows[i]
<1>1. Len(versions) \in Nat /\ Len(versions) >= 1
  BY DEF TableType
<1>2. ASSUME versions' = versions, log' = Append(log, Tx(FALSE, <<>>, "none"))
      PROVE  \E t \in TxsOf(Len(versions')) :
                 log' = Append(log, t) /\ \A i \in 1..Len(t.rows) : Len(versions) <= t.rows[i]
  <2> DEFINE t == Tx(FALSE, <<>>, "none")
  <2>1. t \in TxsOf(Len(versions')) /\ Len(t.rows) = 0
    BY DEF Tx, TxsOf
  <2>2. 1..Len(t.rows) = {}
    <3> HIDE DEF t
    <3> QED
      BY <2>1
  <2> QED
    BY <1>2, <2>1, <2>2, Zenon
<1>3. ASSUME NEW bad \in BadRows \cup {"none"}, versions' = versions,
             log' = Append(log, Tx(TRUE, <<Len(versions)>>, bad))
      PROVE  \E t \in TxsOf(Len(versions')) :
                 log' = Append(log, t) /\ \A i \in 1..Len(t.rows) : Len(versions) <= t.rows[i]
  <2> DEFINE t == Tx(TRUE, <<Len(versions)>>, bad)
  <2>1. t.rows = <<Len(versions)>> /\ t.published = TRUE /\ t.bad = bad
    BY DEF Tx
  <2>2. t \in TxsOf(Len(versions')) /\ \A i \in 1..Len(t.rows) : Len(versions) <= t.rows[i]
    BY <1>1, <1>3, <2>1 DEF Tx, TxsOf
  <2> QED
    BY <1>3, <2>2
<1>4. ASSUME AlterTable,
             log' = Append(log, Tx(TRUE, <<Len(versions), Len(versions) + 1>>, "none"))
      PROVE  \E t \in TxsOf(Len(versions')) :
                 log' = Append(log, t) /\ \A i \in 1..Len(t.rows) : Len(versions) <= t.rows[i]
  <2> DEFINE t == Tx(TRUE, <<Len(versions), Len(versions) + 1>>, "none")
  <2>1. Len(versions') = Len(versions) + 1
    BY <1>4, MoreVersions
  <2>2. t \in TxsOf(Len(versions')) /\ \A i \in 1..Len(t.rows) : Len(versions) <= t.rows[i]
    BY <1>1, <2>1 DEF Tx, TxsOf
  <2> QED
    BY <1>4, <2>2
<1> QED
  BY <1>2, <1>3, <1>4, Zenon DEF Commit

\* Every step leaves the table with a version, and every row of one of them.
LEMMA TableStep == TableType /\ [Next]_vars => TableType'
<1> SUFFICES ASSUME TableType, [Next]_vars PROVE TableType'
  BY Zenon
<1>1. Len(versions) \in Nat /\ Len(versions) >= 1 /\ versions \in Seq(Shapes)
  BY DEF TableType
<1>2. AlterTable => /\ Len(versions') >= 1 /\ versions' \in Seq(Shapes)
                    /\ log \in Seq(TxsOf(Len(versions')))
  <2> SUFFICES ASSUME AlterTable
               PROVE  /\ Len(versions') >= 1 /\ versions' \in Seq(Shapes)
                      /\ log \in Seq(TxsOf(Len(versions')))
    BY Zenon
  <2>1. /\ versions' \in Seq(Shapes) /\ Len(versions') = Len(versions) + 1
        /\ TxsOf(Len(versions)) \subseteq TxsOf(Len(versions'))
    BY MoreVersions, Zenon
  <2>2. log \in Seq(TxsOf(Len(versions')))
    <3> DEFINE A == TxsOf(Len(versions))
               B == TxsOf(Len(versions'))
    <3>1. A \subseteq B /\ log \in Seq(A)
      BY <2>1, Zenon DEF TableType
    <3> HIDE DEF A, B
    <3>2. log = [i \in 1..Len(log) |-> log[i]] /\ Len(log) \in Nat /\ \A i \in 1..Len(log) : log[i] \in B
      BY <3>1
    <3>3. log \in Seq(B)
      BY <3>2
    <3> QED
      BY <3>3 DEF B
  <2> QED
    BY <1>1, <2>1, <2>2
<1>3. CASE Commit
  <2>1. PICK t \in TxsOf(Len(versions')) : log' = Append(log, t)
    BY <1>3, CommitTable, Zenon
  <2>2. /\ Len(versions') >= 1 /\ versions' \in Seq(Shapes)
        /\ log \in Seq(TxsOf(Len(versions')))
    <3>1. versions' = versions \/ AlterTable
      BY <1>3, CommitTable, Zenon
    <3> QED
      BY <1>1, <1>2, <3>1, Zenon DEF TableType
  <2>3. log' \in Seq(TxsOf(Len(versions')))
    <3> DEFINE B == TxsOf(Len(versions'))
    <3>1. t \in B /\ log \in Seq(B)
      BY <2>1, <2>2, Zenon
    <3> HIDE DEF B
    <3>2. log' \in Seq(B)
      BY <2>1, <3>1
    <3> QED
      BY <3>2 DEF B
  <2> QED
    BY <2>2, <2>3, Zenon DEF TableType, TxsOf
<1>4. CASE Alter
  BY <1>2, <1>4, Zenon DEF Alter, TableType, TxsOf
<1>5. CASE UNCHANGED <<log, versions>>
  <2>1. log' = log /\ versions' = versions
    BY <1>5
  <2> QED
    BY <2>1, Zenon DEF TableType, TxsOf
<1>6. Commit \/ Alter \/ UNCHANGED <<log, versions>>
  <2>1. CASE ShapeActions
    BY <2>1 DEF ShapeActions, BeginMessage, RelationMessage, RowMessage, CommitMessage,
       projectionShape, Validate, ReadRows, OtherValidates, Leave, postgresVars
  <2>2. CASE \E e : Ended(e)
    BY <2>2 DEF Ended
  <2>3. CASE UNCHANGED shapeView
    BY <2>3 DEF shapeView
  <2> QED
    BY <2>1, <2>2, <2>3, ShapeCases, Zenon
<1> QED
  BY <1>3, <1>4, <1>5, <1>6, Zenon

\* The shape the catalog has.
LEMMA CatalogTyped == TableType => catalog \in Shapes
  BY DEF TableType, catalog

\* Every step leaves the registry and the watcher well typed.
LEMMA ShapeTypeStep == TableType /\ ShapeType /\ [Next]_vars => ShapeType'
<1> SUFFICES ASSUME TableType, ShapeType, [Next]_vars PROVE ShapeType'
  BY Zenon
<1> DEFINE Watches == [phase : {"out", "validating", "validated", "live"}, at : Nat, gen : Nat,
                       shape : Shapes \cup {NoShape}, stale : BOOLEAN, fits : BOOLEAN, whole : BOOLEAN]
<1>1. NoWatch \in Watches
  BY DEF NoWatch
<1>2. watch \in Watches /\ baseline \in Shapes \cup {NoShape} /\ gen \in Nat
  BY DEF ShapeType
<1>3. catalog \in Shapes /\ Len(log) \in Nat
  BY CatalogTyped DEF TableType
<1>4. ASSUME NEW shape \in Shapes \cup {NoShape}, record(shape)
      PROVE  baseline' \in Shapes \cup {NoShape} /\ gen' \in Nat
  BY <1>2, <1>4 DEF record
<1>5. CASE CommitMessage
  <2>1. baseline' = baseline /\ gen' = gen
    BY <1>5 DEF CommitMessage, shapeVars
  <2>2. Delivered(sending) \in Watches
    <3> DEFINE f == watch.fits /\ \A i \in 1..Len(pending) : pending[i] = watch.shape
               w == watch.whole /\ Len(pending) = Len(log[sending].rows)
    <3>1. f \in BOOLEAN /\ w \in BOOLEAN
      BY <1>2
    <3>2. \A x, y \in BOOLEAN : [watch EXCEPT !.fits = x, !.whole = y] \in Watches
      BY <1>2
    <3>3. [watch EXCEPT !.fits = f, !.whole = w] \in Watches
      BY <3>1, <3>2, Zenon
    <3>4. Delivered(sending) \in {NoWatch, watch, [watch EXCEPT !.fits = f, !.whole = w]}
      BY DEF Delivered
    <3> HIDE DEF f, w
    <3> QED
      BY <1>1, <1>2, <3>3, <3>4, Zenon
  <2>3. watch' = watch \/ watch' = Delivered(sending)
    BY <1>5 DEF CommitMessage, Accept, sinkVars
  <2>4. watch' \in Watches
    BY <1>2, <2>2, <2>3, Zenon
  <2> QED
    BY <1>2, <2>1, <2>4, Zenon DEF ShapeType
<1>6. CASE Validate
  <2>1. /\ record(watch.shape)
        /\ watch' = [watch EXCEPT !.phase = "validated", !.gen = gen', !.stale = watch.shape # catalog]
    BY <1>6 DEF Validate
  <2>2. watch.shape \in Shapes \cup {NoShape}
    BY <1>2
  <2>3. baseline' \in Shapes \cup {NoShape} /\ gen' \in Nat
    BY <1>4, <2>1, <2>2, Zenon
  <2>4. (watch.shape # catalog) \in BOOLEAN
    OBVIOUS
  <2>5. watch' \in Watches
    BY <1>2, <2>1, <2>3, <2>4
  <2> QED
    BY <2>3, <2>5, Zenon DEF ShapeType
<1>7. CASE ReadRows
  <2>1. watch' \in Watches
    BY <1>2, <1>3, <1>7 DEF ReadRows
  <2>2. baseline' = baseline /\ gen' = gen
    BY <1>7 DEF ReadRows, shapeVars
  <2> QED
    BY <1>2, <2>1, <2>2, Zenon DEF ShapeType
<1>8. CASE OtherValidates
  <2>1. PICK v \in 1..Len(versions) : record(versions[v])
    BY <1>8, Zenon DEF OtherValidates
  <2>2. versions[v] \in Shapes /\ watch' = watch
    BY <1>8 DEF OtherValidates, sinkVars, TableType
  <2> QED
    BY <1>2, <1>4, <2>1, <2>2, Zenon DEF ShapeType
<1>9. CASE Leave
  <2>1. baseline' = baseline /\ gen' = gen /\ watch' = NoWatch
    BY <1>9 DEF Leave, shapeVars
  <2> QED
    BY <1>1, <1>2, <2>1, Zenon DEF ShapeType
<1>10. CASE UNCHANGED <<baseline, gen, watch>>
  <2>1. baseline' = baseline /\ gen' = gen /\ watch' = watch
    BY <1>10
  <2> QED
    BY <1>2, <2>1, Zenon DEF ShapeType
<1>12. CASE projectionShape
  <2>1. watch' \in Watches
    BY <1>2, <1>3, <1>12 DEF projectionShape
  <2>2. baseline' = baseline /\ gen' = gen
    BY <1>12 DEF projectionShape, shapeVars
  <2> QED
    BY <1>2, <2>1, <2>2, Zenon DEF ShapeType
<1>11. \/ CommitMessage \/ projectionShape \/ Validate \/ ReadRows \/ OtherValidates \/ Leave
       \/ UNCHANGED <<baseline, gen, watch>>
  <2>1. CASE ShapeActions
    BY <2>1 DEF ShapeActions, Commit, Alter, BeginMessage, RelationMessage, RowMessage,
       shapeVars, sinkVars
  <2>2. CASE \E e : Ended(e)
    BY <2>2 DEF Ended
  <2>3. CASE UNCHANGED shapeView
    BY <2>3 DEF shapeView
  <2> QED
    BY <2>1, <2>2, <2>3, ShapeCases, Zenon
<1> QED
  BY <1>5, <1>6, <1>7, <1>8, <1>9, <1>10, <1>11, <1>12, Zenon

\* Every step leaves the decoder well typed.
LEMMA DecoderStep == StreamInv /\ TableType /\ DecoderType /\ ShapeType /\ [Next]_vars => DecoderType'
<1> SUFFICES ASSUME StreamInv, TableType, DecoderType, ShapeType, [Next]_vars PROVE DecoderType'
  BY Zenon
<1> DEFINE Relations(n) == [version : 0..n, checked : Nat, incompatible : BOOLEAN]
<1>1. /\ row \in Nat /\ pending \in Seq(Shapes) /\ events \in BOOLEAN
      /\ relation \in Relations(Len(versions)) /\ Len(versions) \in Nat /\ gen \in Nat
  BY DEF DecoderType, TableType, ShapeType
<1>2. NoRelation \in Relations(Len(versions)) /\ <<>> \in Seq(Shapes)
  BY <1>1 DEF NoRelation
<1>3. \A v \in 0..Len(versions) : Checked(v) \in Relations(Len(versions))
  BY <1>1 DEF Checked
<1>4. sending # 0 => sending \in 1..Len(log)
  BY Zenon DEF StreamInv, PositionsSafe, Published
<1>5. rowsLeft => /\ log[sending].rows[row + 1] \in 1..Len(versions)
                  /\ versions[log[sending].rows[row + 1]] \in Shapes
  <2> SUFFICES ASSUME rowsLeft
               PROVE  /\ log[sending].rows[row + 1] \in 1..Len(versions)
                      /\ versions[log[sending].rows[row + 1]] \in Shapes
    BY Zenon
  <2>1. sending \in 1..Len(log) /\ row < Len(log[sending].rows)
    BY <1>4 DEF rowsLeft
  <2>2. Len(log[sending].rows) \in Nat
    BY <2>1, RowsTyped, Zenon
  <2>3. row + 1 \in 1..Len(log[sending].rows)
    BY <1>1, <2>1, <2>2
  <2> QED
    BY <2>1, <2>3, RowsTyped, Zenon
<1>6. CASE Commit \/ Alter
  <2>1. /\ row' = row /\ pending' = pending /\ events' = events /\ relation' = relation
        /\ versions' = versions \/ AlterTable
    BY <1>6 DEF Commit, Alter, walsenderVars, decoderVars
  <2>2. Len(versions') \in Nat /\ Len(versions) <= Len(versions')
    <3>1. CASE versions' = versions
      BY <1>1, <3>1
    <3>2. CASE AlterTable
      <4>1. Len(versions') = Len(versions) + 1
        BY <3>2, MoreVersions, Zenon
      <4> QED
        BY <1>1, <4>1
    <3> QED
      BY <2>1, <3>1, <3>2, Zenon
  <2>3. 0..Len(versions) \subseteq 0..Len(versions')
    BY <1>1, <2>2
  <2>4. relation \in Relations(Len(versions'))
    BY <1>1, <2>3
  <2> QED
    BY <1>1, <2>1, <2>4, Zenon DEF DecoderType
<1>7. CASE BeginMessage
  <2>1. /\ row' = 0 /\ pending' = <<>> /\ events' = events /\ relation' = relation
        /\ versions' = versions
    BY <1>7 DEF BeginMessage, postgresVars
  <2>2. row' \in Nat
    BY <2>1
  <2> QED
    BY <1>1, <1>2, <2>1, <2>2, Zenon DEF DecoderType
<1>8. CASE RelationMessage
  <2>1. /\ rowsLeft /\ relation' = Checked(log[sending].rows[row + 1]) /\ row' = row
        /\ pending' = pending /\ versions' = versions
    BY <1>8 DEF RelationMessage, postgresVars, walsenderVars
  <2>2. log[sending].rows[row + 1] \in 0..Len(versions)
    BY <1>1, <1>5, <2>1
  <2>3. relation' \in Relations(Len(versions))
    BY <1>3, <2>1, <2>2, Zenon
  <2>4. events' \in BOOLEAN
    BY <1>8, Zenon DEF RelationMessage
  <2> QED
    BY <1>1, <2>1, <2>3, <2>4, Zenon DEF DecoderType
<1>9. ASSUME NEW e, ReadEnds(e), versions' = versions PROVE DecoderType'
  <2>1. row' \in Nat /\ events' \in BOOLEAN
    BY <1>9 DEF ReadEnds
  <2> QED
    BY <1>2, <1>9, <2>1, Zenon DEF ReadEnds, DecoderType
<1>10. CASE RowMessage
  <2>1. rowsLeft /\ relation.version = log[sending].rows[row + 1] /\ versions' = versions
    BY <1>10 DEF RowMessage, postgresVars
  <2>2. skip \in Relations(Len(versions)) /\ skip.version = relation.version
    <3>1. relation.version \in 0..Len(versions)
      BY <1>1
    <3>2. Checked(relation.version) \in Relations(Len(versions))
      BY <1>3, <3>1, Zenon
    <3>3. Checked(relation.version).version = relation.version
      BY DEF Checked
    <3> QED
      BY <1>1, <3>2, <3>3, Zenon DEF skip
  <2>3. CASE \E e : ReadEnds(e)
    BY <1>9, <2>1, <2>3, Zenon
  <2>4. CASE /\ relation' = skip
             /\ events' = (events \/ (skip # relation /\ skip.incompatible))
             /\ pending' = IF skip.incompatible THEN pending
                           ELSE Append(pending, versions[relation.version])
             /\ row' = row + 1
    <3>1. versions[relation.version] \in Shapes
      BY <1>5, <2>1, Zenon
    <3>2. Append(pending, versions[relation.version]) \in Seq(Shapes)
      BY <1>1, <3>1
    <3>3. pending' \in Seq(Shapes)
      BY <1>1, <2>4, <3>2, Zenon
    <3>4. row' \in Nat
      BY <1>1, <2>4
    <3>5. events' \in BOOLEAN
      BY <2>4, Zenon
    <3> QED
      BY <2>1, <2>2, <2>4, <3>3, <3>4, <3>5, Zenon DEF DecoderType
  <2> QED
    BY <1>10, <2>3, <2>4, Zenon DEF RowMessage
<1>11. CASE CommitMessage
  <2>1. /\ row' = 0 /\ pending' = <<>> /\ relation' = relation /\ versions' = versions
    BY <1>11 DEF CommitMessage, postgresVars
  <2>2. row' \in Nat
    BY <2>1
  <2>3. events' \in BOOLEAN
    BY <1>11, Zenon DEF CommitMessage
  <2> QED
    BY <1>1, <1>2, <2>1, <2>2, <2>3, Zenon DEF DecoderType
<1>12. CASE UNCHANGED <<row, pending, events, relation, versions>>
  <2>1. /\ row' = row /\ pending' = pending /\ events' = events /\ relation' = relation
        /\ versions' = versions
    BY <1>12
  <2> QED
    BY <1>1, <2>1, Zenon DEF DecoderType
<1>13. \/ Commit \/ Alter \/ BeginMessage \/ RelationMessage \/ RowMessage \/ CommitMessage
       \/ (\E e : Ended(e)) \/ UNCHANGED <<row, pending, events, relation, versions>>
  <2>1. CASE ShapeActions
    BY <2>1 DEF ShapeActions, projectionShape, Validate, ReadRows, OtherValidates, Leave,
       postgresVars, walsenderVars, decoderVars
  <2>2. CASE UNCHANGED shapeView
    BY <2>2 DEF shapeView
  <2> QED
    BY <2>1, <2>2, ShapeCases, Zenon
<1>14. CASE \E e : Ended(e)
  <2>1. PICK e : ReadEnds(e) /\ versions' = versions
    BY <1>14 DEF Ended
  <2> QED
    BY <1>9, <2>1, Zenon
<1> QED
  BY <1>6, <1>7, <1>8, <1>10, <1>11, <1>12, <1>13, <1>14, Zenon

\* The policy's next state is one of its states.
LEMMA RetentionTyped ==
    ASSUME NEW current \in RetentionStates, NEW retained \in Int, NEW budget \in Nat,
           NEW warn \in Nat, NEW degrade \in Nat
    PROVE  nextRetentionState(current, retained, budget, warn, degrade) \in RetentionStates
<1> DEFINE target == TargetState(retained, budget, warn, degrade)
           Stays(s) == s <= target \/ Kept(s, retained, budget, warn, degrade)
           Held == {s \in RetentionStates : s <= current /\ Stays(s)}
           Highest(s) == /\ s <= current /\ Stays(s)
                         /\ \A t \in RetentionStates : t <= current /\ Stays(t) => t <= s
           fallen == CHOOSE s \in RetentionStates : Highest(s)
<1>1. /\ target \in RetentionStates /\ retentionTerminal \in RetentionStates
      /\ RetentionStates = {0, 1, 2, 3}
  BY DEF TargetState, RetentionStates, retentionOK, retentionWarn, retentionDegrade, retentionTerminal
<1>2. fallen \in RetentionStates
  <2> HIDE DEF target
  <2>1. 0 \in Held /\ Held \subseteq {0, 1, 2, 3}
    <3>1. 0 <= target /\ 0 <= current /\ 0 \in RetentionStates
      BY <1>1
    <3> QED
      BY <1>1, <3>1, Zenon
  <2>2. \E s \in Held : \A t \in Held : t <= s
    <3> HIDE DEF Held
    <3> QED
      BY <2>1
  <2>3. \E s \in RetentionStates : Highest(s)
    BY <2>2, Zenon
  <2> QED
    BY <2>3, Zenon
<1> HIDE DEF target, fallen
<1> QED
  BY <1>1, <1>2, Zenon DEF nextRetentionState, Ignored, target, fallen

\* Every step leaves Run, the slot and the policy well typed.
LEMMA RunStep == TypeInv /\ [Next]_vars => RunType'
<1> SUFFICES ASSUME TypeInv, [Next]_vars PROVE RunType'
  BY Zenon
<1> DEFINE States == {"connect", "receive", "ended", "checked", "backoff", "drop", "stopped", "failed"}
           SameRun == UNCHANGED <<slot, attempts, handed, cancelled, stopped, retention>>
<1>1. /\ slot \in {"present", "lost", "dropped"} /\ pc \in States
      /\ err \in Errors /\ attempts \in 0..MaxAttempts
      /\ handed \in BOOLEAN /\ cancelled \in BOOLEAN /\ stopped \in BOOLEAN
      /\ retention \in RetentionStates /\ faults \in Nat
  BY Zenon DEF TypeInv, RunType
<1>2. \A n \in Nat : n + 1 \in Nat
  OBVIOUS
<1>3. ASSUME NEW e \in Errors, ReadEnds(e), SameRun, faults' = faults \/ faults' = faults + 1
      PROVE  RunType'
  <2>1. /\ slot' = slot /\ attempts' = attempts /\ handed' = handed /\ cancelled' = cancelled
        /\ stopped' = stopped /\ retention' = retention /\ pc' = "ended" /\ err' = e
    BY <1>3 DEF ReadEnds
  <2>2. pc' \in States /\ faults' \in Nat
    BY <1>1, <1>2, <1>3, <2>1
  <2> QED
    BY <1>1, <2>1, <2>2, Zenon DEF RunType
<1>4. ASSUME SameRun, pc' \in States, err' = err \/ err' = "none", faults' = faults PROVE RunType'
  <2>1. /\ slot' = slot /\ attempts' = attempts /\ handed' = handed /\ cancelled' = cancelled
        /\ stopped' = stopped /\ retention' = retention
    BY <1>4
  <2>2. err' \in Errors /\ faults' \in Nat
    BY <1>1, <1>4 DEF Errors
  <2> QED
    BY <1>1, <1>4, <2>1, <2>2, Zenon DEF RunType
<1>5. CASE requireSlot
  <2>1. SameRun /\ (faults' = faults \/ faults' = faults + 1)
    BY <1>5 DEF requireSlot, postgresVars
  <2>2. \E e \in Errors : ReadEnds(e)
    BY <1>5 DEF requireSlot, Errors
  <2> QED
    BY <1>3, <2>1, <2>2, Zenon
<1>6. CASE ConnectFails
  <2>1. SameRun /\ (faults' = faults \/ faults' = faults + 1)
    BY <1>6 DEF ConnectFails, postgresVars
  <2>2. \E e \in Errors : ReadEnds(e)
    BY <1>6 DEF ConnectFails, Errors
  <2> QED
    BY <1>3, <2>1, <2>2, Zenon
<1>7. CASE StreamBreaks
  <2>1. SameRun /\ (faults' = faults \/ faults' = faults + 1)
    BY <1>7 DEF StreamBreaks, postgresVars
  <2>2. \E e \in Errors : ReadEnds(e)
    BY <1>7 DEF StreamBreaks, Errors
  <2> QED
    BY <1>3, <2>1, <2>2, Zenon
<1>8. CASE Disconnected
  <2>1. SameRun /\ (faults' = faults \/ faults' = faults + 1)
    BY <1>8 DEF Disconnected, postgresVars
  <2>2. \E e \in Errors : ReadEnds(e)
    BY <1>8 DEF Disconnected, Errors
  <2> QED
    BY <1>3, <2>1, <2>2, Zenon
<1>9. CASE Interrupted
  <2>1. SameRun /\ (faults' = faults \/ faults' = faults + 1)
    BY <1>9 DEF Interrupted, postgresVars
  <2>2. \E e \in Errors : ReadEnds(e)
    BY <1>9 DEF Interrupted, Errors
  <2> QED
    BY <1>3, <2>1, <2>2, Zenon
<1>10. CASE SinkRejects
  <2>1. SameRun /\ (faults' = faults \/ faults' = faults + 1)
    BY <1>10 DEF SinkRejects, postgresVars
  <2>2. \E e \in Errors : ReadEnds(e)
    BY <1>10 DEF SinkRejects, Errors
  <2> QED
    BY <1>3, <2>1, <2>2, Zenon
<1>11. CASE PostgresRestarts
  <2>1. SameRun /\ (faults' = faults \/ faults' = faults + 1)
    BY <1>11 DEF PostgresRestarts, postgresVars
  <2>2. \E e \in Errors : ReadEnds(e)
    BY <1>11 DEF PostgresRestarts, Errors
  <2> QED
    BY <1>3, <2>1, <2>2, Zenon
<1>12. CASE Commit
  <2>1. SameRun /\ err' = err /\ faults' = faults /\ pc' \in States
    BY <1>1, <1>12 DEF Commit, postgresVars, runVars
  <2> QED
    BY <1>4, <2>1, Zenon
<1>13. CASE Alter
  <2>1. SameRun /\ err' = err /\ faults' = faults /\ pc' \in States
    BY <1>1, <1>13 DEF Alter, postgresVars, runVars
  <2> QED
    BY <1>4, <2>1, Zenon
<1>14. CASE Confirm
  <2>1. SameRun /\ err' = err /\ faults' = faults /\ pc' \in States
    BY <1>1, <1>14 DEF Confirm, postgresVars, runVars
  <2> QED
    BY <1>4, <2>1, Zenon
<1>15. CASE BeginMessage
  <2>1. SameRun /\ err' = err /\ faults' = faults /\ pc' \in States
    BY <1>1, <1>15 DEF BeginMessage, postgresVars, runVars
  <2> QED
    BY <1>4, <2>1, Zenon
<1>16. CASE RelationMessage
  <2>1. SameRun /\ err' = err /\ faults' = faults /\ pc' \in States
    BY <1>1, <1>16 DEF RelationMessage, postgresVars, runVars
  <2> QED
    BY <1>4, <2>1, Zenon
<1>17. CASE CommitMessage
  <2>1. SameRun /\ err' = err /\ faults' = faults /\ pc' \in States
    BY <1>1, <1>17 DEF CommitMessage, postgresVars, runVars
  <2> QED
    BY <1>4, <2>1, Zenon
<1>18. CASE KeepaliveMessage
  <2>1. SameRun /\ err' = err /\ faults' = faults /\ pc' \in States
    BY <1>1, <1>18 DEF KeepaliveMessage, postgresVars, runVars
  <2> QED
    BY <1>4, <2>1, Zenon
<1>19. CASE StatusInterval
  <2>1. SameRun /\ err' = err /\ faults' = faults /\ pc' \in States
    BY <1>1, <1>19 DEF StatusInterval, postgresVars, runVars
  <2> QED
    BY <1>4, <2>1, Zenon
<1>20. CASE Validate
  <2>1. SameRun /\ err' = err /\ faults' = faults /\ pc' \in States
    BY <1>1, <1>20 DEF Validate, postgresVars, runVars
  <2> QED
    BY <1>4, <2>1, Zenon
<1>21. CASE ReadRows
  <2>1. SameRun /\ err' = err /\ faults' = faults /\ pc' \in States
    BY <1>1, <1>21 DEF ReadRows, postgresVars, runVars
  <2> QED
    BY <1>4, <2>1, Zenon
<1>22. CASE OtherValidates
  <2>1. SameRun /\ err' = err /\ faults' = faults /\ pc' \in States
    BY <1>1, <1>22 DEF OtherValidates, postgresVars, runVars
  <2> QED
    BY <1>4, <2>1, Zenon
<1>23. CASE Leave
  <2>1. SameRun /\ err' = err /\ faults' = faults /\ pc' \in States
    BY <1>1, <1>23 DEF Leave, postgresVars, runVars
  <2> QED
    BY <1>4, <2>1, Zenon
<1>24. CASE startReplication
  <2>1. SameRun /\ err' = err /\ faults' = faults /\ pc' \in States
    BY <1>1, <1>24 DEF startReplication, StreamFrom, postgresVars, runVars
  <2> QED
    BY <1>4, <2>1, Zenon
<1>25. CASE CheckCaller
  <2>1. SameRun /\ err' = err /\ faults' = faults /\ pc' \in States
    BY <1>1, <1>25 DEF CheckCaller, postgresVars, runVars
  <2> QED
    BY <1>4, <2>1, Zenon
<1>26. CASE Backoff
  <2>1. SameRun /\ err' = err /\ faults' = faults /\ pc' \in States
    BY <1>1, <1>26 DEF Backoff, postgresVars, runVars
  <2> QED
    BY <1>4, <2>1, Zenon
<1>27. CASE UNCHANGED vars
  <2>1. SameRun /\ err' = err /\ faults' = faults /\ pc' \in States
    BY <1>1, <1>27 DEF vars, postgresVars, runVars
  <2> QED
    BY <1>4, <2>1, Zenon
<1>28. CASE RowMessage
  <2>1. SameRun /\ faults' = faults /\ rowsLeft
    BY <1>28 DEF RowMessage, postgresVars
  <2>2. (pc' = pc /\ err' = err) \/ ReadEnds(log[sending].bad)
    BY <1>28 DEF RowMessage
  <2>3. log[sending].bad \in Errors
    <3>1. sending \in 1..Len(log)
      BY <2>1, Zenon DEF rowsLeft, TypeInv, StreamInv, PositionsSafe, Published
    <3>2. log[sending].bad \in BadRows \cup {"none"}
      BY <3>1, RowsTyped, Zenon DEF TypeInv
    <3> QED
      BY <3>2 DEF Errors
  <2> QED
    BY <1>1, <1>3, <1>4, <2>1, <2>2, <2>3, Zenon
<1>29. CASE takeBootstrapStream
  <2>1. /\ slot' = slot /\ attempts' = attempts /\ cancelled' = cancelled /\ stopped' = stopped
        /\ retention' = retention /\ err' = err /\ faults' = faults /\ pc' \in States
    BY <1>29 DEF takeBootstrapStream, StreamFrom, postgresVars
  <2>2. handed' \in BOOLEAN
    BY <1>29, Zenon DEF takeBootstrapStream
  <2> QED
    BY <1>1, <2>1, <2>2, Zenon DEF RunType
<1>30. CASE CheckStream
  <2>1. /\ slot' = slot /\ handed' = handed /\ cancelled' = cancelled /\ stopped' = stopped
        /\ retention' = retention /\ faults' = faults
    BY <1>30 DEF CheckStream, postgresVars
  <2>2. pc' \in States /\ err' \in Errors
    BY <1>1, <1>30 DEF CheckStream, Errors
  <2>3. attempts' = attempts \/ (attempts < MaxAttempts /\ attempts' = attempts + 1)
    BY <1>30, Zenon DEF CheckStream
  <2>4. attempts' \in 0..MaxAttempts
    BY <1>1, <2>3, ReaderAssumption
  <2> QED
    BY <1>1, <2>1, <2>2, <2>4, Zenon DEF RunType
<1>31. CASE budgetExceeded
  <2>1. /\ attempts' = attempts /\ handed' = handed /\ cancelled' = cancelled
        /\ stopped' = stopped /\ retention' = retention /\ faults' = faults /\ err' = err
        /\ pc' \in States /\ slot' \in {slot, "dropped"}
    BY <1>31 DEF budgetExceeded, dropSlotForBudget
  <2>2. slot' \in {"present", "lost", "dropped"}
    BY <1>1, <2>1
  <2> QED
    BY <1>1, <2>1, <2>2, Zenon DEF RunType
<1>32. CASE SlotIsLost
  <2>1. /\ attempts' = attempts /\ handed' = handed /\ cancelled' = cancelled
        /\ stopped' = stopped /\ retention' = retention /\ err' = err /\ pc' = pc
        /\ faults' = faults + 1 /\ slot' \in {"present", "lost", "dropped"}
    BY <1>32 DEF SlotIsLost, runVars
  <2> QED
    BY <1>1, <1>2, <2>1, Zenon DEF RunType
<1>33. CASE Cancel
  <2>1. /\ slot' = slot /\ attempts' = attempts /\ handed' = handed /\ stopped' = stopped
        /\ retention' = retention /\ err' = err /\ pc' = pc /\ faults' = faults
    BY <1>33 DEF Cancel, postgresVars
  <2>2. cancelled' \in BOOLEAN
    BY <1>33, Zenon DEF Cancel
  <2> QED
    BY <1>1, <2>1, <2>2, Zenon DEF RunType
<1>34. CASE RetentionSample
  <2>1. /\ slot' = slot /\ attempts' = attempts /\ handed' = handed /\ cancelled' = cancelled
        /\ err' = err /\ pc' = pc /\ faults' = faults
    BY <1>34 DEF RetentionSample, postgresVars
  <2>2. retention' \in RetentionStates
    <3>1. Len(log) - confirmed \in Int
      BY DEF TypeInv, StreamInv, StreamTyped, PositionsSafe, Safe
    <3> QED
      BY <1>1, <1>34, <3>1, RetentionTyped, ReaderAssumption, Zenon
         DEF RetentionSample, applyRetentionPolicy
  <2>3. stopped' \in BOOLEAN
    BY <1>34, Zenon DEF RetentionSample, applyRetentionPolicy
  <2> QED
    BY <1>1, <2>1, <2>2, <2>3, Zenon DEF RunType
<1>35. CASE projectionShape
  <2>1. SameRun /\ err' = err /\ faults' = faults /\ pc' \in States
    BY <1>1, <1>35 DEF projectionShape, postgresVars, runVars
  <2> QED
    BY <1>4, <2>1, Zenon
<1> QED
  BY <1>5, <1>6, <1>7, <1>8, <1>9, <1>10, <1>11, <1>12, <1>13, <1>14, <1>15, <1>16,
     <1>17, <1>18, <1>19, <1>20, <1>21, <1>22, <1>23, <1>24, <1>25, <1>26, <1>27, <1>28,
     <1>29, <1>30, <1>31, <1>32, <1>33, <1>34, <1>35, Zenon
     DEF Next, Faulting, Connecting, Receiving, Controlling

\* The state starts well typed.
LEMMA TypeInit == Init => TypeInv
<1> SUFFICES ASSUME Init PROVE TypeInv
  BY Zenon
<1>1. TableType
  <2>1. versions \in Seq(Shapes) /\ Len(versions) = 1
    BY ReaderAssumption DEF Init
  <2>2. log \in Seq(TxsOf(Len(versions)))
    BY DEF Init
  <2> QED
    BY <2>1, <2>2 DEF TableType
<1>2. DecoderType
  <2>1. events \in BOOLEAN
    BY Zenon DEF Init
  <2>2. relation \in [version : 0..1, checked : Nat, incompatible : BOOLEAN]
    BY DEF Init, NoRelation
  <2>3. row \in Nat /\ pending \in Seq(Shapes) /\ Len(versions) = 1
    BY DEF Init
  <2> QED
    BY <2>1, <2>2, <2>3, Zenon DEF DecoderType
<1>3. ShapeType
  BY DEF Init, ShapeType, NoWatch
<1>4. RunType
  <2>1. handed \in BOOLEAN /\ cancelled \in BOOLEAN /\ stopped \in BOOLEAN
    BY Zenon DEF Init
  <2>2. slot = "present" /\ pc = "connect" /\ err \in Errors
    BY DEF Init, Errors
  <2>3. attempts \in 0..MaxAttempts /\ faults \in Nat /\ retention \in RetentionStates
    BY ReaderAssumption DEF Init, retentionOK, retentionTerminal, RetentionStates
  <2> QED
    BY <2>1, <2>2, <2>3 DEF RunType
<1> QED
  BY <1>1, <1>2, <1>3, <1>4, StreamInit, Zenon DEF TypeInv

\* Every step keeps it so.
LEMMA TypeStep == TypeInv /\ [Next]_vars => TypeInv'
  BY StreamStep, TableStep, DecoderStep, ShapeTypeStep, RunStep, Zenon DEF TypeInv

\* Every variable keeps its type, whatever the table's history, the retry limit and
\* the retention budget: no row change is of a version the table never had, read
\* returns none but its own errors, and Run makes no more attempts than it may.
THEOREM TypeOKAlways == Spec => []TypeOK
<1>1. TypeInv => TypeOK
  <2> SUFFICES ASSUME TypeInv PROVE TypeOK
    BY Zenon
  <2>1. /\ versions \in Seq(Shapes) /\ DOMAIN versions = 1..Len(versions)
        /\ log \in Seq(TxsOf(Len(versions))) /\ Len(log) \in Nat
    BY DEF TypeInv, TableType
  <2>2. confirmed \in Nat /\ sent \in Nat /\ status \in Nat /\ safeLSN \in Nat
    BY <2>1 DEF TypeInv, StreamInv, PositionsSafe, Safe
  <2>3. sending \in 0..Len(log)
    BY <2>1 DEF TypeInv, StreamInv, PositionsSafe, Published
  <2>4. taken \in Nat /\ inTx \in BOOLEAN
    BY Zenon DEF TypeInv, StreamInv, StreamTyped
  <2> QED
    BY <2>1, <2>2, <2>3, <2>4, Zenon
       DEF TypeInv, DecoderType, ShapeType, RunType, TypeOK, TxsOf
<1> QED
  BY <1>1, TypeInit, TypeStep, PTL DEF Spec

--------------------------------------------------------------------------------
(* A watcher is sent the rows it needs, in the shape it validated *)

\* The decoder's relation was judged against the baseline it names, and an event
\* waits only inside a transaction.
DecoderInv ==
    /\ taken <= Len(log)
    /\ sending = 0 => ~events
    /\ sending # 0 => row <= Len(log[sending].rows)
    /\ relation.checked <= gen
    /\ relation.version = 0 => ~relation.incompatible
    /\ relation.checked = gen /\ relation.version # 0 =>
          (relation.incompatible <=> baseline \notin {NoShape, versions[relation.version]})

\* A watcher before its snapshot has missed nothing.
WatchInv ==
    /\ watch.gen <= gen
    /\ watch.phase = "out" => watch = NoWatch
    /\ watch.phase \in {"validating", "validated"} => watch.whole /\ watch.fits

\* A row of version w is no surprise to a watcher that validated version v.
Within(v, w) == w <= v \/ versions[w] = baseline

\* ... and so is no row the hub has received,
TakenWithin(v) ==
    \A n \in Published : n <= taken =>
        \A i \in 1..Len(log[n].rows) : Within(v, log[n].rows[i])

\* no row of the transaction on the wire for which no event waits,
SentWithin(v) ==
    sending # 0 /\ ~events => \A i \in 1..row : Within(v, log[sending].rows[i])

\* and no row of a relation already found incompatible, unless its event waits.
FlagWithin(v) ==
    relation.incompatible /\ relation.checked = gen =>
        \/ relation.version <= v
        \/ /\ events /\ sending # 0
           /\ \E i \in 1..Len(log[sending].rows) : log[sending].rows[i] = relation.version

\* What commits after the snapshot is of version v or a later one,
LaterRows(v) ==
    watch.phase = "live" =>
        \A n \in 1..Len(log) : n > watch.at =>
            \A i \in 1..Len(log[n].rows) : v <= log[n].rows[i]

\* and the decoder keeps each row of it, in the baseline's shape, or has an event.
LaterKept ==
    watch.phase = "live" /\ sending > watch.at /\ ~events =>
        Len(pending) = row /\ \A i \in 1..row : pending[i] = baseline

\* Version v is the one the watcher's snapshot validated.
Validated(v) ==
    /\ versions[v] = baseline
    /\ TakenWithin(v) /\ SentWithin(v) /\ FlagWithin(v) /\ LaterRows(v) /\ LaterKept

\* The watcher recorded the catalog's shape, or has rows of the shape it recorded, and
\* no other snapshot has recorded a new one since.
Promised ==
    /\ watch.gen = gen
    /\ \/ watch.phase \in {"validated", "live"} /\ ~watch.stale
       \/ watch.phase = "live" /\ watch.shape = baseline

\* Then there is such a version.
GuardInv ==
    /\ ShapeGuard
    /\ Promised => \E v \in 1..Len(versions) : Validated(v)

ShapeInv == DecoderInv /\ WatchInv /\ GuardInv

\* What the steps below need to know of the types.
LEMMA ShapeFacts ==
    ASSUME TypeInv
    PROVE  /\ Len(log) \in Nat /\ Len(versions) \in Nat /\ Len(versions) >= 1
           /\ gen \in Nat /\ row \in Nat /\ taken \in Nat /\ sending \in Nat
           /\ watch.at \in Nat /\ watch.gen \in Nat
           /\ watch.phase \in {"out", "validating", "validated", "live"}
           /\ relation.version \in 0..Len(versions) /\ relation.checked \in Nat
           /\ events \in BOOLEAN /\ relation.incompatible \in BOOLEAN
           /\ pending \in Seq(Shapes) /\ Len(pending) \in Nat
           /\ sending # 0 => sending \in Published
           /\ Published \subseteq 1..Len(log)
<1>1. /\ Len(log) \in Nat /\ Len(versions) \in Nat /\ Len(versions) >= 1
      /\ gen \in Nat /\ row \in Nat /\ taken \in Nat /\ sending \in Nat
  BY DEF TypeInv, TableType, StreamInv, StreamTyped, ShapeType, DecoderType
<1>2. watch.at \in Nat /\ watch.gen \in Nat /\ watch.phase \in {"out", "validating", "validated", "live"}
  BY DEF TypeInv, ShapeType
<1>3. /\ relation.version \in 0..Len(versions) /\ relation.checked \in Nat
      /\ relation.incompatible \in BOOLEAN
  BY DEF TypeInv, DecoderType
<1>4. events \in BOOLEAN /\ pending \in Seq(Shapes) /\ Len(pending) \in Nat
  BY DEF TypeInv, DecoderType
<1>5. (sending # 0 => sending \in Published) /\ Published \subseteq 1..Len(log)
  BY Zenon DEF TypeInv, StreamInv, PositionsSafe, Published
<1> QED
  BY <1>1, <1>2, <1>3, <1>4, <1>5, Zenon

\* read returns: the decoder forgets what it has seen.
LEMMA EndedShape == ASSUME TypeInv, ShapeInv, NEW e, Ended(e) PROVE ShapeInv'
<1>1. /\ sending' = 0 /\ row' = 0 /\ pending' = <<>> /\ relation' = NoRelation
      /\ events' = FALSE /\ log' = log /\ versions' = versions /\ baseline' = baseline
      /\ gen' = gen /\ taken' = taken /\ watch' = watch
  BY DEF Ended, ReadEnds
<1>2. /\ NoRelation.version = 0 /\ NoRelation.checked = 0 /\ ~NoRelation.incompatible
      /\ gen \in Nat /\ 0 <= gen /\ watch.at \in Nat
  BY ShapeFacts DEF NoRelation
<1>3. Published' = Published
  BY <1>1, PublishedSame, Zenon
<1>4. DecoderInv'
  BY <1>1, <1>2, Zenon DEF ShapeInv, DecoderInv
<1>5. WatchInv'
  BY <1>1, Zenon DEF ShapeInv, WatchInv, NoWatch
<1>6. ASSUME NEW v, Validated(v) PROVE Validated(v)'
  <2>1. ~(0 > watch.at)
    BY <1>2
  <2> QED
    BY <1>1, <1>2, <1>3, <1>6, <2>1, Zenon
       DEF Validated, TakenWithin, SentWithin, FlagWithin, LaterRows, LaterKept, Within
<1> QED
  BY <1>1, <1>4, <1>5, <1>6, Zenon DEF ShapeInv, GuardInv, Promised, ShapeGuard

\* A step that changes none of it.
LEMMA SameShape == ShapeInv /\ UNCHANGED shapeView => ShapeInv'
<1> SUFFICES ASSUME ShapeInv, UNCHANGED shapeView PROVE ShapeInv'
  BY Zenon
<1>1. /\ sending' = sending /\ row' = row /\ pending' = pending /\ relation' = relation
      /\ events' = events /\ log' = log /\ versions' = versions /\ baseline' = baseline
      /\ gen' = gen /\ taken' = taken /\ watch' = watch
  BY DEF shapeView
<1>2. Published' = Published
  BY <1>1, PublishedSame, Zenon
<1>3. ASSUME NEW v, Validated(v) PROVE Validated(v)'
  BY <1>1, <1>2, <1>3, Zenon
     DEF Validated, TakenWithin, SentWithin, FlagWithin, LaterRows, LaterKept, Within
<1> QED
  BY <1>1, <1>3, Zenon DEF ShapeInv, DecoderInv, WatchInv, NoWatch, GuardInv, Promised, ShapeGuard

\* A commit or an ALTER TABLE: what is in the log and the versions stays there, and
\* what is added is of the last version or a newer one.
LEMMA GrowShape == TypeInv /\ ShapeInv /\ (Commit \/ Alter) => ShapeInv'
<1> SUFFICES ASSUME TypeInv, ShapeInv, Commit \/ Alter PROVE ShapeInv'
  BY Zenon
<1>1. /\ sending' = sending /\ row' = row /\ pending' = pending /\ relation' = relation
      /\ events' = events /\ baseline' = baseline /\ gen' = gen /\ taken' = taken
      /\ watch' = watch
  BY DEF Commit, Alter, walsenderVars, decoderVars, shapeVars, sinkVars
<1>2. TableType
  BY Zenon DEF TypeInv
<1>3. /\ Len(versions') \in Nat /\ Len(versions) <= Len(versions')
      /\ \A v \in 1..Len(versions) : versions'[v] = versions[v]
  <2>1. versions' = versions \/ AlterTable
    BY <1>2, CommitTable, Zenon DEF Alter
  <2>2. CASE versions' = versions
    BY <2>2, ShapeFacts
  <2>3. CASE AlterTable
    BY <1>2, <2>3, MoreVersions, ShapeFacts
  <2> QED
    BY <2>1, <2>2, <2>3, Zenon
<1>4. /\ Len(log') \in Nat /\ Len(log) <= Len(log')
      /\ \A n \in 1..Len(log) : log'[n] = log[n]
      /\ \A n \in 1..Len(log') : n \notin 1..Len(log) =>
            \A i \in 1..Len(log'[n].rows) : Len(versions) <= log'[n].rows[i]
  <2>1. CASE log' = log
    <3>1. Len(log) \in Nat /\ Len(log) <= Len(log)
      BY ShapeFacts
    <3> QED
      BY <2>1, <3>1, Zenon
  <2>2. CASE \E t \in TxsOf(Len(versions')) :
                 /\ log' = Append(log, t)
                 /\ \A i \in 1..Len(t.rows) : Len(versions) <= t.rows[i]
    <3>1. PICK t \in TxsOf(Len(versions')) :
                 /\ log' = Append(log, t)
                 /\ \A i \in 1..Len(t.rows) : Len(versions) <= t.rows[i]
      BY <2>2
    <3>2. log \in Seq(TxsOf(Len(versions))) /\ Len(log) \in Nat
      BY <1>2 DEF TableType
    <3>3. Len(log') = Len(log) + 1 /\ log'[Len(log) + 1] = t
      BY <3>1, <3>2
    <3>4. \A n \in 1..Len(log) : log'[n] = log[n]
      BY <3>1, <3>2
    <3>5. \A n \in 1..Len(log') : n \notin 1..Len(log) => n = Len(log) + 1
      BY <3>2, <3>3
    <3>6. Len(log') \in Nat /\ Len(log) <= Len(log')
      BY <3>2, <3>3
    <3> QED
      BY <3>1, <3>3, <3>4, <3>5, <3>6, Zenon
  <2> QED
    BY <1>2, <2>1, <2>2, CommitTable, Zenon DEF Alter
<1>5. Published \subseteq 1..Len(log) /\ (sending # 0 => sending \in 1..Len(log))
  BY ShapeFacts, Zenon
<1>6. \A n \in 1..Len(log) : \A i \in 1..Len(log[n].rows) : log[n].rows[i] \in 1..Len(versions)
  BY <1>2, RowsTyped, Zenon
<1>7. DecoderInv'
  <2>1. taken <= Len(log')
    BY <1>3, <1>4, ShapeFacts DEF ShapeInv, DecoderInv
  <2>2. relation.version # 0 => versions'[relation.version] = versions[relation.version]
    BY <1>3, ShapeFacts
  <2>3. sending # 0 => log'[sending] = log[sending]
    BY <1>4, <1>5, Zenon
  <2> QED
    BY <1>1, <2>1, <2>2, <2>3, Zenon DEF ShapeInv, DecoderInv
<1>8. WatchInv'
  BY <1>1, Zenon DEF ShapeInv, WatchInv, NoWatch
<1>9. ASSUME NEW v \in 1..Len(versions), Validated(v) PROVE Validated(v)'
  <2>1. versions'[v] = baseline
    BY <1>3, <1>9, Zenon DEF Validated
  <2>2. \A w \in 1..Len(versions) : Within(v, w) => Within(v, w)'
    BY <1>1, <1>3, Zenon DEF Within
  <2>3. TakenWithin(v)'
    <3>1. ASSUME NEW n \in Published', n <= taken PROVE n \in Published
      <4>1. n \in 1..Len(log') /\ log'[n].published
        BY <3>1, Zenon DEF Published
      <4>2. n \in 1..Len(log)
        BY <1>4, <3>1, <4>1, ShapeFacts DEF ShapeInv, DecoderInv
      <4> QED
        BY <1>4, <4>1, <4>2, Zenon DEF Published
    <3>2. ASSUME NEW n \in Published, n <= taken, NEW i \in 1..Len(log[n].rows)
          PROVE  log'[n] = log[n] /\ Within(v, log[n].rows[i])'
      BY <1>4, <1>5, <1>6, <1>9, <2>2, <3>2, Zenon DEF Validated, TakenWithin
    <3>3. \A n \in Published : log'[n] = log[n]
      BY <1>4, <1>5, Zenon
    <3> QED
      BY <1>1, <3>1, <3>2, <3>3, Zenon DEF TakenWithin, Within
  <2>4. SentWithin(v)'
    <3> SUFFICES ASSUME sending # 0, ~events, NEW i \in 1..row
                 PROVE  log'[sending] = log[sending] /\ Within(v, log[sending].rows[i])'
      BY <1>1, <1>4, <1>5, Zenon DEF SentWithin, Within
    <3>1. i \in 1..Len(log[sending].rows)
      <4>1. row <= Len(log[sending].rows) /\ Len(log[sending].rows) \in Nat
        BY <1>2, <1>5, RowsTyped, Zenon DEF ShapeInv, DecoderInv
      <4> QED
        BY <4>1, ShapeFacts
    <3> QED
      BY <1>1, <1>4, <1>5, <1>6, <1>9, <2>2, <3>1, Zenon DEF Validated, SentWithin
  <2>5. FlagWithin(v)'
    <3>1. sending # 0 => log'[sending] = log[sending]
      BY <1>4, <1>5, Zenon
    <3> QED
      BY <1>1, <1>9, <3>1, Zenon DEF Validated, FlagWithin
  <2>6. LaterRows(v)'
    <3>1. ASSUME NEW n \in 1..Len(log'), n \notin 1..Len(log), NEW i \in 1..Len(log'[n].rows)
          PROVE  v <= log'[n].rows[i]
      <4>1. Len(versions) <= log'[n].rows[i]
        BY <1>4, <3>1, Zenon
      <4>2. log'[n].rows[i] \in Int
        <5>1. TableType'
          BY <1>2, TableStep, Zenon DEF Next
        <5>2. log' \in Seq(TxsOf(Len(versions')))
          BY <5>1, Zenon DEF TableType, TxsOf
        <5>3. log'[n].rows \in Seq(1..Len(versions'))
          <6>1. log'[n] \in TxsOf(Len(versions'))
            BY <1>4, <3>1, <5>2
          <6> QED
            BY <6>1 DEF TxsOf
        <5> QED
          BY <1>3, <3>1, <5>3
      <4>3. v \in Int /\ v <= Len(versions) /\ Len(versions) \in Int
        BY ShapeFacts
      <4> QED
        BY <4>1, <4>2, <4>3
    <3> QED
      BY <1>1, <1>4, <1>9, <3>1, Zenon DEF Validated, LaterRows
  <2>7. LaterKept'
    BY <1>1, <1>9, Zenon DEF Validated, LaterKept
  <2> QED
    BY <1>1, <2>1, <2>3, <2>4, <2>5, <2>6, <2>7, Zenon DEF Validated
<1>10. 1..Len(versions) \subseteq 1..Len(versions')
  BY <1>3, ShapeFacts
<1> QED
  BY <1>1, <1>7, <1>8, <1>9, <1>10, Zenon DEF ShapeInv, GuardInv, Promised, ShapeGuard

\* The next transaction begins, with no row of it sent and no event of another.
LEMMA BeginShape == TypeInv /\ ShapeInv /\ BeginMessage => ShapeInv'
<1> SUFFICES ASSUME TypeInv, ShapeInv, BeginMessage PROVE ShapeInv'
  BY Zenon
<1>1. /\ sending = 0 /\ row' = 0 /\ pending' = <<>> /\ relation' = relation
      /\ events' = events /\ log' = log /\ versions' = versions /\ baseline' = baseline
      /\ gen' = gen /\ taken' = taken /\ watch' = watch
  BY DEF BeginMessage, postgresVars, shapeVars, sinkVars
<1>2. Published' = Published
  BY <1>1, PublishedSame, Zenon
<1>3. ~events
  BY <1>1, Zenon DEF ShapeInv, DecoderInv
<1>4. sending' # 0 /\ 0 <= Len(log[sending'].rows)
  <2>1. PICK n \in Published : sending' = n
    BY Zenon DEF BeginMessage
  <2>2. n \in 1..Len(log)
    BY ShapeFacts, Zenon
  <2>3. Len(log[n].rows) \in Nat
    BY <2>2, RowsTyped, Zenon DEF TypeInv
  <2> QED
    BY <2>1, <2>2, <2>3, ShapeFacts
<1>5. Len(pending') = 0 /\ 1..0 = {}
  BY <1>1
<1>6. DecoderInv'
  BY <1>1, <1>3, <1>4, Zenon DEF ShapeInv, DecoderInv
<1>7. WatchInv'
  BY <1>1, Zenon DEF ShapeInv, WatchInv, NoWatch
<1>8. ASSUME NEW v, Validated(v) PROVE Validated(v)'
  <2>1. TakenWithin(v)' /\ LaterRows(v)' /\ versions'[v] = baseline'
    BY <1>1, <1>2, <1>8, Zenon DEF Validated, TakenWithin, LaterRows, Within
  <2>2. SentWithin(v)' /\ LaterKept'
    BY <1>1, <1>5, Zenon DEF SentWithin, LaterKept
  <2>3. FlagWithin(v)'
    BY <1>1, <1>3, <1>8, Zenon DEF Validated, FlagWithin
  <2> QED
    BY <2>1, <2>2, <2>3, Zenon DEF Validated
<1> QED
  BY <1>1, <1>6, <1>7, <1>8, Zenon DEF ShapeInv, GuardInv, Promised, ShapeGuard

\* The relation is described: it is judged against the baseline of this moment, and
\* one that does not fit raises its event.
LEMMA RelationShape == TypeInv /\ ShapeInv /\ RelationMessage => ShapeInv'
<1> SUFFICES ASSUME TypeInv, ShapeInv, RelationMessage PROVE ShapeInv'
  BY Zenon
<1> DEFINE w == log[sending].rows[row + 1]
<1>1. /\ sending' = sending /\ row' = row /\ pending' = pending /\ log' = log
      /\ versions' = versions /\ baseline' = baseline /\ gen' = gen /\ taken' = taken
      /\ watch' = watch /\ relation' = Checked(w) /\ rowsLeft
      /\ events' = (events \/ relation'.incompatible)
  BY DEF RelationMessage, postgresVars, walsenderVars, shapeVars, sinkVars
<1>2. Published' = Published
  BY <1>1, PublishedSame, Zenon
<1>3. sending # 0 /\ row + 1 \in 1..Len(log[sending].rows) /\ w # 0
  <2>1. sending # 0 /\ row < Len(log[sending].rows) /\ sending \in 1..Len(log)
    BY <1>1, ShapeFacts, Zenon DEF rowsLeft
  <2>2. Len(log[sending].rows) \in Nat
    BY <2>1, RowsTyped, Zenon DEF TypeInv
  <2>3. row + 1 \in 1..Len(log[sending].rows)
    BY <2>1, <2>2, ShapeFacts
  <2>4. w \in 1..Len(versions)
    BY <2>1, <2>3, RowsTyped, Zenon DEF TypeInv
  <2> QED
    BY <2>1, <2>3, <2>4, ShapeFacts
<1> HIDE DEF w
<1>4. /\ relation'.version = w /\ relation'.checked = gen
      /\ relation'.incompatible <=> baseline \notin {NoShape, versions[w]}
  BY <1>1 DEF Checked
<1>5. gen <= gen
  BY ShapeFacts
<1>6. DecoderInv'
  BY <1>1, <1>3, <1>4, <1>5, Zenon DEF ShapeInv, DecoderInv
<1>7. WatchInv'
  BY <1>1, Zenon DEF ShapeInv, WatchInv, NoWatch
<1>8. ASSUME NEW v, Validated(v) PROVE Validated(v)'
  <2>1. TakenWithin(v)' /\ LaterRows(v)' /\ versions'[v] = baseline'
    BY <1>1, <1>2, <1>8, Zenon DEF Validated, TakenWithin, LaterRows, Within
  <2>2. SentWithin(v)' /\ LaterKept'
    BY <1>1, <1>8, Zenon DEF Validated, SentWithin, LaterKept, Within
  <2>3. FlagWithin(v)'
    BY <1>1, <1>3, <1>4, Zenon DEF FlagWithin, w
  <2> QED
    BY <2>1, <2>2, <2>3, Zenon DEF Validated
<1> QED
  BY <1>1, <1>6, <1>7, <1>8, Zenon DEF ShapeInv, GuardInv, Promised, ShapeGuard

\* A row: kept in the baseline's shape, or dropped with an event that waits, or
\* dropped because its relation is older than the version the watcher validated.
LEMMA RowShape == TypeInv /\ ShapeInv /\ RowMessage => ShapeInv'
<1> SUFFICES ASSUME TypeInv, ShapeInv, RowMessage PROVE ShapeInv'
  BY Zenon
<1> DEFINE w == log[sending].rows[row + 1]
<1>1. /\ log' = log /\ versions' = versions /\ baseline' = baseline /\ gen' = gen
      /\ taken' = taken /\ watch' = watch /\ rowsLeft /\ relation.version = w
  BY DEF RowMessage, postgresVars, shapeVars, sinkVars
<1>2. CASE ReadEnds(log[sending].bad)
  <2>1. Ended(log[sending].bad)
    BY <1>1, <1>2 DEF Ended
  <2> QED
    BY <2>1, EndedShape, Zenon
<1>3. CASE /\ relation' = skip
           /\ events' = (events \/ (skip # relation /\ skip.incompatible))
           /\ pending' = IF skip.incompatible THEN pending
                         ELSE Append(pending, versions[relation.version])
           /\ row' = row + 1 /\ sending' = sending
  <2>1. Published' = Published
    BY <1>1, PublishedSame, Zenon
  <2>2. /\ sending # 0 /\ row + 1 \in 1..Len(log[sending].rows) /\ w \in 1..Len(versions)
        /\ sending \in 1..Len(log)
    <3>1. sending # 0 /\ row < Len(log[sending].rows) /\ sending \in 1..Len(log)
      BY <1>1, ShapeFacts, Zenon DEF rowsLeft
    <3>2. Len(log[sending].rows) \in Nat
      BY <3>1, RowsTyped, Zenon DEF TypeInv
    <3>3. row + 1 \in 1..Len(log[sending].rows)
      BY <3>1, <3>2, ShapeFacts
    <3> QED
      BY <3>1, <3>3, RowsTyped, Zenon DEF TypeInv
  <2>3. w # 0 /\ row + 1 <= Len(log[sending].rows) /\ gen <= gen
    <3>1. Len(log[sending].rows) \in Nat
      BY <2>2, RowsTyped, Zenon DEF TypeInv
    <3> HIDE DEF w
    <3> QED
      BY <2>2, <3>1, ShapeFacts
  <2>4. /\ skip.version = w /\ skip.checked = gen
        /\ skip.incompatible <=> baseline \notin {NoShape, versions[w]}
    <3>1. CASE relation.checked # gen
      <4>1. skip = Checked(relation.version)
        BY <3>1, Zenon DEF skip
      <4> QED
        BY <1>1, <4>1 DEF Checked
    <3>2. CASE relation.checked = gen
      <4>1. skip = relation
        BY <3>2, Zenon DEF skip
      <4> QED
        BY <1>1, <2>3, <3>2, <4>1, Zenon DEF ShapeInv, DecoderInv
    <3> QED
      BY <3>1, <3>2, Zenon
  <2>5. skip = relation => relation.checked = gen
    BY <2>4, Zenon
  <2>6. DecoderInv'
    BY <1>1, <1>3, <2>2, <2>3, <2>4, Zenon DEF ShapeInv, DecoderInv
  <2>7. WatchInv'
    BY <1>1, Zenon DEF ShapeInv, WatchInv, NoWatch
  <2>8. ASSUME NEW v \in 1..Len(versions), Validated(v) PROVE Validated(v)'
    <3>1. TakenWithin(v)' /\ LaterRows(v)' /\ versions'[v] = baseline'
      BY <1>1, <2>1, <2>8, Zenon DEF Validated, TakenWithin, LaterRows, Within
    <3>2. CASE events'
      <4>1. \E i \in 1..Len(log[sending].rows) : log[sending].rows[i] = w
        BY <2>2, Zenon
      <4>2. FlagWithin(v)'
        BY <1>1, <1>3, <2>2, <2>4, <3>2, <4>1, Zenon DEF FlagWithin
      <4> QED
        BY <3>1, <3>2, <4>2, Zenon DEF Validated, SentWithin, LaterKept
    <3>3. CASE ~events'
      <4>1. ~events /\ (skip = relation \/ ~skip.incompatible)
        BY <1>3, <3>3, Zenon
      <4>2. ~skip.incompatible => versions[w] = baseline
        <5>1. baseline \in Shapes
          BY <2>8 DEF Validated, TypeInv, TableType
        <5>2. baseline # NoShape
          BY <5>1, ReaderAssumption, Zenon
        <5> QED
          BY <2>4, <5>2, Zenon
      <4>3. skip.incompatible => w <= v /\ versions[w] # baseline
        BY <1>1, <2>4, <2>5, <2>8, <4>1, Zenon DEF Validated, FlagWithin
      <4>4. Within(v, w)
        BY <4>2, <4>3, Zenon DEF Within
      <4>5. FlagWithin(v)'
        BY <1>3, <2>4, <4>3, Zenon DEF FlagWithin
      <4>6. \A i \in 1..(row + 1) : i \in 1..row \/ i = row + 1
        BY ShapeFacts
      <4>7. SentWithin(v)'
        <5>1. \A i \in 1..row : Within(v, log[sending].rows[i])
          BY <2>2, <2>8, <4>1, Zenon DEF Validated, SentWithin
        <5>2. \A i \in 1..(row + 1) : Within(v, log[sending].rows[i])
          BY <4>4, <4>6, <5>1, Zenon
        <5> QED
          BY <1>1, <1>3, <5>2, Zenon DEF SentWithin, Within
      <4>8. LaterKept'
        <5> SUFFICES ASSUME watch.phase = "live", sending > watch.at
                     PROVE  Len(pending') = row + 1 /\ \A i \in 1..(row + 1) : pending'[i] = baseline
          BY <1>1, <1>3, Zenon DEF LaterKept
        <5>1. Len(pending) = row /\ \A i \in 1..row : pending[i] = baseline
          BY <2>8, <4>1, Zenon DEF Validated, LaterKept
        <5>2. v <= w
          BY <2>2, <2>8, Zenon DEF Validated, LaterRows
        <5>3. ~skip.incompatible
          <6>1. w <= v => w = v
            <7> HIDE DEF w
            <7> QED
              BY <2>2, <5>2, ShapeFacts
          <6> QED
            BY <2>8, <4>3, <6>1, Zenon DEF Validated
        <5>4. pending' = Append(pending, baseline)
          BY <1>1, <1>3, <4>2, <5>3, Zenon
        <5>5. Len(pending') = row + 1 /\ pending'[row + 1] = baseline
              /\ \A i \in 1..row : pending'[i] = pending[i]
          BY <5>1, <5>4, ShapeFacts
        <5> QED
          BY <4>6, <5>1, <5>5, Zenon
      <4> QED
        BY <3>1, <4>5, <4>7, <4>8, Zenon DEF Validated
    <3> QED
      BY <3>2, <3>3, Zenon
  <2> QED
    BY <1>1, <2>6, <2>7, <2>8, Zenon DEF ShapeInv, GuardInv, Promised, ShapeGuard
<1> QED
  BY <1>2, <1>3, Zenon DEF RowMessage

\* COMMIT: a transaction the hub has received says nothing new of any version; a new
\* one ends the watch if an event waits, and otherwise has been kept whole.
LEMMA CommitMessageShape == TypeInv /\ ShapeInv /\ CommitMessage => ShapeInv'
<1> SUFFICES ASSUME TypeInv, ShapeInv, CommitMessage PROVE ShapeInv'
  BY Zenon
<1>1. /\ log' = log /\ versions' = versions /\ baseline' = baseline /\ gen' = gen
      /\ relation' = relation /\ sending' = 0 /\ row' = 0 /\ pending' = <<>>
      /\ events' = FALSE /\ sending # 0 /\ ~rowsLeft
  BY DEF CommitMessage, postgresVars, shapeVars
<1>2. Published' = Published
  BY <1>1, PublishedSame, Zenon
<1>3. sending \in Published /\ sending \in 1..Len(log)
  BY <1>1, ShapeFacts, Zenon
<1>4. row = Len(log[sending].rows)
  <2>1. Len(log[sending].rows) \in Nat
    BY <1>3, RowsTyped, Zenon DEF TypeInv
  <2>2. row <= Len(log[sending].rows) /\ ~(row < Len(log[sending].rows))
    BY <1>1, Zenon DEF rowsLeft, ShapeInv, DecoderInv
  <2> QED
    BY <2>1, <2>2, ShapeFacts
<1>5. ~(0 > watch.at) /\ watch.at \in Nat
  BY ShapeFacts
<1>6. \/ sending <= taken /\ taken' = taken /\ watch' = watch
      \/ sending > taken /\ taken' = sending /\ watch' = Delivered(sending)
  BY DEF CommitMessage, Accept, sinkVars
<1>7. DecoderInv'
  <2>1. taken' <= Len(log)
    BY <1>3, <1>6, ShapeFacts DEF ShapeInv, DecoderInv
  <2> QED
    BY <1>1, <2>1, Zenon DEF ShapeInv, DecoderInv
<1>8. ASSUME NEW v, FlagWithin(v), ~events PROVE FlagWithin(v)'
  BY <1>1, <1>8, Zenon DEF FlagWithin
<1>9. CASE sending <= taken /\ taken' = taken /\ watch' = watch
  <2>1. WatchInv'
    BY <1>1, <1>9, Zenon DEF ShapeInv, WatchInv, NoWatch
  <2>2. ASSUME NEW v, Validated(v) PROVE Validated(v)'
    <3>1. TakenWithin(v)' /\ LaterRows(v)' /\ versions'[v] = baseline'
      BY <1>1, <1>2, <1>9, <2>2, Zenon DEF Validated, TakenWithin, LaterRows, Within
    <3>2. SentWithin(v)' /\ LaterKept'
      BY <1>1, <1>5, <1>9, Zenon DEF SentWithin, LaterKept
    <3>3. FlagWithin(v)'
      <4> SUFFICES ASSUME relation.incompatible, relation.checked = gen
                   PROVE  relation.version <= v
        BY <1>1, Zenon DEF FlagWithin
      <4>1. CASE \E i \in 1..Len(log[sending].rows) : log[sending].rows[i] = relation.version
        <5>1. Within(v, relation.version)
          BY <1>3, <1>9, <2>2, <4>1, Zenon DEF Validated, TakenWithin
        <5>2. versions[relation.version] # baseline
          BY Zenon DEF ShapeInv, DecoderInv
        <5> QED
          BY <5>1, <5>2, Zenon DEF Within
      <4> QED
        BY <2>2, <4>1, Zenon DEF Validated, FlagWithin
    <3> QED
      BY <3>1, <3>2, <3>3, Zenon DEF Validated
  <2> QED
    BY <1>1, <1>7, <1>9, <2>1, <2>2, Zenon DEF ShapeInv, GuardInv, Promised, ShapeGuard
<1>10. CASE watch' = NoWatch
  <2>1. NoWatch.phase = "out" /\ NoWatch.gen = 0
    BY DEF NoWatch
  <2>2. 0 <= gen
    BY ShapeFacts
  <2> QED
    BY <1>1, <1>7, <1>10, <2>1, <2>2 DEF ShapeInv, WatchInv, GuardInv, Promised, ShapeGuard, NoWatch
<1>11. CASE sending > taken /\ taken' = sending /\ watch' = Delivered(sending) /\ watch' # NoWatch
  <2>1. watch.phase # "out" /\ ~events
    BY <1>11, Zenon DEF Delivered
  <2>2. \/ /\ watch.phase = "live" /\ sending > watch.at
           /\ watch'.phase = watch.phase /\ watch'.at = watch.at /\ watch'.gen = watch.gen
           /\ watch'.shape = watch.shape /\ watch'.stale = watch.stale
           /\ watch'.fits = (watch.fits /\ \A i \in 1..Len(pending) : pending[i] = watch.shape)
           /\ watch'.whole = (watch.whole /\ Len(pending) = Len(log[sending].rows))
        \/ watch' = watch
    <3>1. CASE watch.phase = "live" /\ sending > watch.at
      <4>1. watch' = [watch EXCEPT !.fits = @ /\ \A i \in 1..Len(pending) : pending[i] = watch.shape,
                                   !.whole = @ /\ Len(pending) = Len(log[sending].rows)]
        BY <1>11, <2>1, <3>1, Zenon DEF Delivered
      <4> QED
        BY <3>1, <4>1 DEF TypeInv, ShapeType
    <3>2. CASE ~(watch.phase = "live" /\ sending > watch.at)
      BY <1>11, <2>1, <3>2, Zenon DEF Delivered
    <3> QED
      BY <3>1, <3>2, Zenon
  <2>3. watch'.phase = watch.phase /\ watch'.at = watch.at /\ watch'.gen = watch.gen
        /\ watch'.shape = watch.shape /\ watch'.stale = watch.stale
    BY <2>2, Zenon
  <2>4. WatchInv'
    BY <1>1, <2>1, <2>2, Zenon DEF ShapeInv, WatchInv
  <2>5. ASSUME NEW v, Validated(v) PROVE Validated(v)'
    <3>1. TakenWithin(v)'
      <4>1. ASSUME NEW n \in Published, n <= sending
            PROVE  \A i \in 1..Len(log[n].rows) : Within(v, log[n].rows[i])
        <5>1. n <= taken \/ n = sending
          <6>1. /\ sending > sent /\ (\A m \in Published : m > sent => sending <= m)
                /\ Safe(sent)
            BY <1>1, Zenon DEF TypeInv, StreamInv, PositionsSafe
          <6>2. n <= sent => n <= taken
            BY <6>1, Zenon DEF Safe, Contract!Covered
          <6>3. sent \in 0..Len(log) /\ n \in 1..Len(log)
            BY <6>1, ShapeFacts, Zenon DEF Safe
          <6>4. n > sent => sending <= n
            BY <6>1, Zenon
          <6> QED
            BY <1>3, <4>1, <6>2, <6>3, <6>4, ShapeFacts
        <5>2. n = sending => \A i \in 1..Len(log[n].rows) : Within(v, log[n].rows[i])
          BY <1>1, <1>4, <2>1, <2>5, Zenon DEF Validated, SentWithin
        <5> QED
          BY <2>5, <5>1, <5>2, Zenon DEF Validated, TakenWithin
      <4> QED
        BY <1>1, <1>2, <1>11, <4>1, Zenon DEF TakenWithin, Within
    <3>2. LaterRows(v)' /\ versions'[v] = baseline'
      BY <1>1, <2>3, <2>5, Zenon DEF Validated, LaterRows
    <3>3. SentWithin(v)' /\ LaterKept'
      BY <1>1, <1>5, <2>3, Zenon DEF SentWithin, LaterKept
    <3>4. FlagWithin(v)'
      BY <1>8, <2>1, <2>5, Zenon DEF Validated
    <3> QED
      BY <3>1, <3>2, <3>3, <3>4, Zenon DEF Validated
  <2>6. ShapeGuard'
    <3> SUFFICES ASSUME watch.phase = "live", watch.gen = gen
                 PROVE  /\ watch.stale \/ watch'.whole
                        /\ watch.shape = baseline => watch'.whole /\ watch'.fits
      BY <1>1, <2>3, Zenon DEF ShapeGuard
    <3>1. /\ watch.stale \/ watch.whole
          /\ watch.shape = baseline => watch.whole /\ watch.fits
      BY Zenon DEF ShapeInv, GuardInv, ShapeGuard
    <3>2. ~watch.stale \/ watch.shape = baseline => Promised
      BY DEF Promised
    <3>3. Promised /\ sending > watch.at =>
            Len(pending) = row /\ \A i \in 1..row : pending[i] = baseline
      BY <2>1, Zenon DEF ShapeInv, GuardInv, Validated, LaterKept
    <3> QED
      BY <1>4, <2>2, <3>1, <3>2, <3>3, Zenon
  <2> QED
    BY <1>1, <1>7, <2>1, <2>3, <2>4, <2>5, <2>6, Zenon DEF ShapeInv, GuardInv, Promised
<1> QED
  BY <1>6, <1>9, <1>10, <1>11, Zenon

\* When the baseline is the shape of the table's last version, that is the version to
\* name: every row there is, sent or not, is of it or of an older one.
LEMMA CatalogValidated ==
    ASSUME TypeInv, ShapeInv,
           UNCHANGED <<log, versions, sending, row, pending, relation, events, taken>>,
           baseline' = catalog, watch'.phase = "live" => watch'.at = Len(log)
    PROVE  \E v \in 1..Len(versions) : Validated(v)'
<1>1. /\ log' = log /\ versions' = versions /\ sending' = sending /\ row' = row
      /\ pending' = pending /\ relation' = relation /\ events' = events /\ taken' = taken
  OBVIOUS
<1>2. PICK v \in 1..Len(versions) : v = Len(versions)
  BY ShapeFacts
<1>3. \A n \in 1..Len(log) : \A i \in 1..Len(log[n].rows) : log[n].rows[i] <= v
  <2>1. ASSUME NEW n \in 1..Len(log), NEW i \in 1..Len(log[n].rows) PROVE log[n].rows[i] <= v
    <3>1. log[n].rows[i] \in 1..Len(versions)
      BY RowsTyped, Zenon DEF TypeInv
    <3> QED
      BY <1>2, <3>1, ShapeFacts
  <2> QED
    BY <2>1, Zenon
<1>4. versions'[v] = baseline'
  BY <1>1, <1>2, Zenon DEF catalog
<1>5. TakenWithin(v)'
  BY <1>1, <1>3, PublishedSame, ShapeFacts, Zenon DEF TakenWithin, Within
<1>6. SentWithin(v)'
  <2>1. ASSUME sending # 0, NEW i \in 1..row PROVE log[sending].rows[i] <= v
    <3>1. sending \in 1..Len(log)
      BY <2>1, ShapeFacts, Zenon
    <3>2. Len(log[sending].rows) \in Nat /\ row <= Len(log[sending].rows)
      BY <2>1, <3>1, RowsTyped, Zenon DEF TypeInv, ShapeInv, DecoderInv
    <3>3. i \in 1..Len(log[sending].rows)
      BY <3>2, ShapeFacts
    <3> QED
      BY <1>3, <3>1, <3>3, Zenon
  <2> QED
    BY <1>1, <2>1, Zenon DEF SentWithin, Within
<1>7. FlagWithin(v)'
  <2>1. relation.version <= v
    BY <1>2, ShapeFacts
  <2> QED
    BY <1>1, <2>1, Zenon DEF FlagWithin
<1>8. LaterRows(v)' /\ LaterKept'
  <2>1. ~(sending > Len(log)) /\ \A n \in 1..Len(log) : ~(n > Len(log))
    BY ShapeFacts
  <2> QED
    BY <1>1, <2>1, Zenon DEF LaterRows, LaterKept
<1> QED
  BY <1>4, <1>5, <1>6, <1>7, <1>8, Zenon DEF Validated

\* A snapshot reads the shape of the table: nothing is promised yet.
LEMMA ProjectionShape == TypeInv /\ ShapeInv /\ projectionShape => ShapeInv'
<1> SUFFICES ASSUME TypeInv, ShapeInv, projectionShape PROVE ShapeInv'
  BY Zenon
<1>1. /\ log' = log /\ versions' = versions /\ sending' = sending /\ row' = row
      /\ pending' = pending /\ relation' = relation /\ events' = events /\ taken' = taken
      /\ baseline' = baseline /\ gen' = gen /\ watch.phase = "out"
      /\ watch' = [watch EXCEPT !.phase = "validating", !.shape = catalog]
  BY DEF projectionShape, postgresVars, walsenderVars, decoderVars, shapeVars
<1>2. watch = NoWatch
  BY <1>1, Zenon DEF ShapeInv, WatchInv
<1>3. watch'.phase = "validating" /\ watch'.gen = 0 /\ watch'.whole /\ watch'.fits
  BY <1>1, <1>2 DEF NoWatch
<1>4. DecoderInv'
  BY <1>1, Zenon DEF ShapeInv, DecoderInv
<1>5. WatchInv'
  BY <1>1, <1>3, ShapeFacts DEF WatchInv
<1>6. ShapeGuard' /\ ~Promised'
  BY <1>3 DEF ShapeGuard, Promised
<1> QED
  BY <1>4, <1>5, <1>6, Zenon DEF ShapeInv, GuardInv

\* ... and records it: unless the table has changed since, every row there is, is of
\* its version or an older one.
LEMMA ValidateShape == TypeInv /\ ShapeInv /\ Validate => ShapeInv'
<1> SUFFICES ASSUME TypeInv, ShapeInv, Validate PROVE ShapeInv'
  BY Zenon
<1>1. /\ log' = log /\ versions' = versions /\ sending' = sending /\ row' = row
      /\ pending' = pending /\ relation' = relation /\ events' = events /\ taken' = taken
      /\ watch.phase = "validating"
      /\ watch' = [watch EXCEPT !.phase = "validated", !.gen = gen', !.stale = watch.shape # catalog]
      /\ baseline' = watch.shape /\ gen' = IF baseline = watch.shape THEN gen ELSE gen + 1
  BY DEF Validate, record, postgresVars, walsenderVars, decoderVars
<1>2. watch.whole /\ watch.fits
  BY <1>1 DEF ShapeInv, WatchInv
<1>3. /\ watch'.phase = "validated" /\ watch'.gen = gen' /\ watch'.whole = watch.whole
      /\ watch'.fits = watch.fits /\ watch'.stale = (watch.shape # catalog)
  BY <1>1 DEF TypeInv, ShapeType
<1>4. gen' \in Nat /\ gen <= gen' /\ (gen' = gen => baseline' = baseline)
  BY <1>1, ShapeFacts
<1>5. DecoderInv'
  <2>1. relation.checked <= gen' /\ (relation.checked = gen' => gen' = gen)
    BY <1>4, ShapeFacts DEF ShapeInv, DecoderInv
  <2> QED
    BY <1>1, <1>4, <2>1, Zenon DEF ShapeInv, DecoderInv
<1>6. WatchInv'
  <2>1. gen' <= gen'
    BY <1>4
  <2>2. watch'.gen <= gen' /\ watch'.phase # "out"
    BY <1>3, <2>1
  <2> QED
    BY <1>2, <1>3, <2>2, Zenon DEF WatchInv
<1>7. ASSUME Promised' PROVE \E v \in 1..Len(versions') : Validated(v)'
  <2>1. watch'.phase # "live"
    BY <1>3
  <2>2. ~watch'.stale
    BY <1>7, <2>1, Zenon DEF Promised
  <2>3. baseline' = catalog
    BY <1>1, <1>3, <2>2, Zenon
  <2> QED
    BY <1>1, <2>1, <2>3, CatalogValidated
<1>8. ShapeGuard'
  BY <1>3 DEF ShapeGuard
<1> QED
  BY <1>5, <1>6, <1>7, <1>8, Zenon DEF ShapeInv, GuardInv

\* ... and reads its rows: what commits from now on is later than all there is.
LEMMA ReadRowsShape == TypeInv /\ ShapeInv /\ ReadRows => ShapeInv'
<1> SUFFICES ASSUME TypeInv, ShapeInv, ReadRows PROVE ShapeInv'
  BY Zenon
<1>1. /\ log' = log /\ versions' = versions /\ sending' = sending /\ row' = row
      /\ pending' = pending /\ relation' = relation /\ events' = events /\ taken' = taken
      /\ baseline' = baseline /\ gen' = gen /\ watch.phase = "validated"
      /\ watch' = [watch EXCEPT !.phase = "live", !.at = Len(log), !.shape = catalog]
  BY DEF ReadRows, postgresVars, walsenderVars, decoderVars, shapeVars
<1>2. /\ watch'.phase = "live" /\ watch'.at = Len(log) /\ watch'.gen = watch.gen
      /\ watch'.whole = watch.whole /\ watch'.fits = watch.fits
      /\ watch'.stale = watch.stale /\ watch'.shape = catalog
  BY <1>1 DEF TypeInv, ShapeType
<1>3. Published' = Published
  BY <1>1, PublishedSame, Zenon
<1>4. watch.whole /\ watch.fits
  BY <1>1 DEF ShapeInv, WatchInv
<1>5. ~(sending > Len(log)) /\ \A n \in 1..Len(log) : ~(n > Len(log))
  BY ShapeFacts
<1>6. ASSUME NEW v, Validated(v) PROVE Validated(v)'
  <2>1. TakenWithin(v)' /\ versions'[v] = baseline'
    BY <1>1, <1>3, <1>6, Zenon DEF Validated, TakenWithin, Within
  <2>2. SentWithin(v)' /\ FlagWithin(v)'
    BY <1>1, <1>6, Zenon DEF Validated, SentWithin, FlagWithin, Within
  <2>3. LaterRows(v)' /\ LaterKept'
    BY <1>1, <1>2, <1>5, Zenon DEF LaterRows, LaterKept
  <2> QED
    BY <2>1, <2>2, <2>3, Zenon DEF Validated
<1>7. DecoderInv'
  BY <1>1, Zenon DEF ShapeInv, DecoderInv
<1>8. WatchInv'
  <2>1. watch'.phase # "out" /\ watch'.phase \notin {"validating", "validated"}
    BY <1>2
  <2> QED
    BY <1>1, <1>2, <2>1, Zenon DEF ShapeInv, WatchInv
<1>9. ASSUME Promised' PROVE \E v \in 1..Len(versions') : Validated(v)'
  <2>1. CASE ~watch.stale
    <3>1. Promised
      BY <1>1, <1>2, <1>9, <2>1 DEF Promised
    <3> QED
      BY <1>1, <1>6, <3>1, Zenon DEF ShapeInv, GuardInv
  <2>2. CASE watch.stale
    <3>1. baseline' = catalog
      BY <1>2, <1>9, <2>2, Zenon DEF Promised
    <3> QED
      BY <1>1, <1>2, <3>1, CatalogValidated
  <2> QED
    BY <2>1, <2>2, Zenon
<1> QED
  BY <1>1, <1>2, <1>4, <1>7, <1>8, <1>9, Zenon DEF ShapeInv, GuardInv, ShapeGuard

\* Another snapshot records a new shape, after which the guard promises nothing to the
\* watcher, or finds the one recorded.
LEMMA OtherShape == TypeInv /\ ShapeInv /\ OtherValidates => ShapeInv'
<1> SUFFICES ASSUME TypeInv, ShapeInv, OtherValidates PROVE ShapeInv'
  BY Zenon
<1>1. /\ log' = log /\ versions' = versions /\ sending' = sending /\ row' = row
      /\ pending' = pending /\ relation' = relation /\ events' = events /\ taken' = taken
      /\ watch' = watch
  BY DEF OtherValidates, postgresVars, walsenderVars, decoderVars, sinkVars
<1>4. PICK v \in 1..Len(versions) : record(versions[v])
  BY Zenon DEF OtherValidates
<1>5. baseline' = versions[v] /\ gen' = IF baseline = versions[v] THEN gen ELSE gen + 1
  BY <1>4, Zenon DEF record
<1>2. CASE baseline = versions[v]
  <2>1. UNCHANGED shapeView
    BY <1>1, <1>2, <1>5 DEF shapeView
  <2> QED
    BY <2>1, SameShape, Zenon
<1>3. CASE baseline # versions[v]
  <2>1. /\ gen' # relation.checked /\ gen' # watch.gen
        /\ relation.checked <= gen' /\ watch.gen <= gen'
    BY <1>1, <1>3, <1>5, ShapeFacts DEF ShapeInv, DecoderInv, WatchInv
  <2> QED
    BY <1>1, <2>1, Zenon DEF ShapeInv, DecoderInv, WatchInv, NoWatch, GuardInv, Promised, ShapeGuard
<1> QED
  BY <1>2, <1>3, Zenon

\* The watcher leaves.
LEMMA LeaveShape == TypeInv /\ ShapeInv /\ Leave => ShapeInv'
<1> SUFFICES ASSUME TypeInv, ShapeInv, Leave PROVE ShapeInv'
  BY Zenon
<1>1. /\ log' = log /\ versions' = versions /\ sending' = sending /\ row' = row
      /\ pending' = pending /\ relation' = relation /\ events' = events /\ taken' = taken
      /\ baseline' = baseline /\ gen' = gen /\ watch' = NoWatch
  BY DEF Leave, postgresVars, walsenderVars, decoderVars, shapeVars
<1>2. NoWatch.phase = "out" /\ NoWatch.gen <= gen
  BY ShapeFacts DEF NoWatch
<1>3. DecoderInv'
  BY <1>1, Zenon DEF ShapeInv, DecoderInv
<1> QED
  BY <1>1, <1>2, <1>3 DEF ShapeInv, WatchInv, GuardInv, Promised, ShapeGuard, NoWatch

\* Every step keeps the invariant.
LEMMA ShapeStep == TypeInv /\ ShapeInv /\ [Next]_vars => ShapeInv'
  BY ShapeCases, EndedShape, SameShape, GrowShape, BeginShape, RelationShape, RowShape,
     CommitMessageShape, ProjectionShape, ValidateShape, ReadRowsShape, OtherShape, LeaveShape, Zenon
     DEF ShapeActions

\* It holds at first.
LEMMA ShapeInit == Init => ShapeInv
<1> SUFFICES ASSUME Init PROVE ShapeInv
  BY Zenon
<1>1. watch.phase = "out" /\ watch.gen = 0 /\ watch = NoWatch /\ gen = 0
  BY DEF Init, NoWatch
<1>2. DecoderInv
  BY DEF Init, DecoderInv, NoRelation
<1> QED
  BY <1>1, <1>2 DEF ShapeInv, WatchInv, GuardInv, Promised, ShapeGuard

\* For any history of the table, of faults, of resent transactions and of snapshots
\* of other watchers: while none of those has recorded a new shape, a live watcher
\* has been sent every row committed after its snapshot, in its snapshot's shape, if
\* that is the shape it recorded, and has lost no row without an event if the shape it
\* recorded was the table's (check, skip and record of relation.go, and the event a
\* COMMIT hands to Hub.Accept).
THEOREM ShapeGuardAlways == Spec => []ShapeGuard
<1>1. Init => TypeInv /\ ShapeInv
  BY TypeInit, ShapeInit, Zenon
<1>2. TypeInv /\ ShapeInv /\ [Next]_vars => (TypeInv /\ ShapeInv)'
  BY TypeStep, ShapeStep, Zenon
<1>3. ShapeInv => ShapeGuard
  BY Zenon DEF ShapeInv, GuardInv
<1> QED
  BY <1>1, <1>2, <1>3, PTL DEF Spec
================================================================================
