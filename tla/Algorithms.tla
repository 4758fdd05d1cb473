----------------------------- MODULE Algorithms -----------------------------
(***************************************************************************)
(* The parts of watchd that are functions of their arguments, checked over *)
(* bounded arguments against what they are for: RowPath is stepped as it   *)
(* is, and from its initial states one call of another algorithm is made   *)
(* and kept with its arguments, a sequence of calls for the retention      *)
(* policy, which has a state.                                              *)
(***************************************************************************)
EXTENDS RowPath, Positions, Relations, Settings, Failures, RetentionPolicy

CONSTANTS MaxXid,      \* bound on the 64-bit transaction IDs tried
          MaxLSN,      \* bound on the positions tried
          SampleBudget \* the WAL budget of the retention samples

VARIABLE call

vars == << rowVars, call >>

NoCall == [op |-> "none"]

\* Source IDs tried, as texts: one a prefix of another, one with the
\* separator, and the empty one.
SourceIDs == {<< >>, << 1 >>, << 2 >>, << 1, 2 >>, << 1, Separator >>}

AlgorithmsAssumption ==
  /\ MaxXid \in Nat /\ MaxLSN \in Nat /\ SampleBudget \in Nat \ {0, 1}
  /\ \A keys \in SUBSET ({1, 2} \X {1, 2}) : Failed \notin [keys -> SdkRow]
ASSUME AlgorithmsAssumption

\* Calls have nothing to do with the rows: one initial state makes them all.
Idle == call = NoCall /\ identity = "default" /\ images = << NoRows >> /\ pending = NoTransaction

Calls(c) == Idle /\ call' = c /\ UNCHANGED rowVars

-----------------------------------------------------------------------------
\* A transaction within half the ID space of the snapshot, as PostgreSQL
\* guarantees of every one the stream still delivers.
CallVisibility ==
  /\ Idle
  /\ \E xmax \in 0 .. MaxXid : \E xmin \in 0 .. xmax + 1 :
       \E xips \in UNION {[1 .. n -> 0 .. xmax + 1] : n \in 0 .. 2} :
         \E xid \in (xmax - Wrap \div 2 .. xmax + Wrap \div 2 - 1) \cap Nat :
           Calls([op |-> "visibility", xmin |-> xmin, xmax |-> xmax, xips |-> xips, xid |-> xid])

CallCursors ==
  /\ Idle
  /\ \E server \in {id \in SourceIDs : ValidSourceID(id)} :
       \E other \in {id \in SourceIDs : ValidSourceID(id)} :
         \E lsns \in UNION {[1 .. n -> 0 .. MaxLSN] : n \in 0 .. 3} :
           \E foreign \in SUBSET DOMAIN lsns :
             Calls([op |-> "cursors", server |-> server, other |-> other,
                    cursors |-> [i \in DOMAIN lsns |-> Cursor(IF i \in foreign THEN other ELSE server, lsns[i])]])

CallSnapshot ==
  /\ Idle
  /\ \E keys \in SUBSET ({1, 2} \X {1, 2}) : \E bodies \in [keys -> {NoBody, 0, 3}] :
       \E batchRows \in 1 .. 3 : \E maxBytes \in {1, 6, 9} :
         Calls([op |-> "snapshot", batchRows |-> batchRows, maxBytes |-> maxBytes,
                rows |-> {[body |-> Body(bodies[key]), scope |-> Text(key[1]), id |-> Text(key[2])] : key \in keys}])

\* A table: its oid, replica identity, columns, primary key and unique index.
Names(t) == [i \in DOMAIN t.columns |-> t.columns[i].name]

Tables ==
  {t \in [oid : 1 .. 2, replicaIdentity : {"d", "f", "i", "n"},
          columns : UNION {[1 .. n -> [name : {1, 2}, typeOID : {1, 2}]] : n \in 1 .. 2},
          primaryKey : SUBSET {1, 2} \ {{}}, indexed : {{1}, {2}}] :
     /\ t.primaryKey \cup t.indexed \subseteq Range(Names(t))
     /\ \A i, j \in DOMAIN t.columns : Names(t)[i] = Names(t)[j] => i = j}

\* What pgoutput flags of a table's columns.
Flagged(t) == CASE t.replicaIdentity = "d" -> t.primaryKey
                [] t.replicaIdentity = "f" -> Range(Names(t))
                [] t.replicaIdentity = "i" -> t.indexed
                [] t.replicaIdentity = "n" -> {}

CallRelation ==
  /\ Idle
  /\ \E was \in {t \in Tables : t.oid = 1} : \E is \in Tables :
       Calls([op |-> "relation", was |-> was, is |-> is])

Specs == [sourceID : {<< >>, << 1 >>}, schema : {"p", "Q"}, table : {"t", "Q"}, scopeColumn : {"s", "b"},
          primaryKey : {<< "s", "i" >>, << "i" >>, << "s", "s" >>}]

\* What the jitter is drawn from: the least, the middle and the greatest.
Randoms == {0, 50, 99}

\* Reader settings with two fields set, daemon configurations, and a spec
\* against the live table.
CallConfig ==
  /\ Idle
  /\ \/ \E f, g \in Fields : \E v, w \in {-1, 1, 30, 100, 120} :
          Calls([op |-> "reader",
                 config |-> [field \in Fields |-> IF field = f THEN v ELSE IF field = g THEN w ELSE 0]])
     \/ \E sourceID \in SourceIDs, warn \in {0, 40, 90}, degrade \in {0, 60, 95}, maxRetained \in {-1, 0, 10} :
          \E spec \in Specs :
            \E pprof \in BOOLEAN, rate \in {-1, 0, 1} :
              Calls([op |-> "daemon",
                     config |-> [databaseURL |-> "url", listenAddress |-> "addr", specs |-> {spec}, sourceID |-> sourceID,
                                 shutdownTimeout |-> 0, warn |-> warn, degrade |-> degrade, maxRetained |-> maxRetained,
                                 sampleInterval |-> 0,
                                 ops |-> [mutexProfileFraction |-> rate, blockProfileRate |-> 0, pprof |-> pprof,
                                          listenAddress |-> "addr"]]])
     \/ \E spec \in Specs : \E columns \in SUBSET {"s", "i", "b"} :
          \E primaryKey \in {<< "s", "i" >>, << "i", "s" >>, << "i" >>, << >>} : \E published \in BOOLEAN :
          \E operations \in SUBSET {"insert", "update", "delete"}, truncate \in BOOLEAN :
            Calls([op |-> "spec", spec |-> spec,
                   publication |-> [exists |-> operations # {} \/ truncate, operations |-> operations, truncate |-> truncate],
                   table |-> [exists |-> columns # {}, columns |-> columns \cup Range(primaryKey),
                              primaryKey |-> primaryKey, published |-> published]])

\* Errors a snapshot read can meet: opening its connection, a query, the
\* checks of the source, and the slot.
CallFailure ==
  /\ Idle
  /\ \/ \E problem \in SQLStates \cup {"InvalidDatabaseURL", "DatabaseURLRequired", "network"} :
          Calls([op |-> "failure", error |-> classifyConnectionError(problem)])
     \/ \E state \in SQLStates : Calls([op |-> "failure", error |-> classifySQLState(state)])
     \/ \E kind \in NotRetried \cup {"SlotNotFound", "SnapshotWindowClosed", "SourceNotStarted", "none"} :
          Calls([op |-> "failure", error |-> Plain(kind)])
     \/ \E slotType \in {"logical", "physical"}, resumable \in BOOLEAN, active \in BOOLEAN :
          Calls([op |-> "failure", error |-> validateSlot([slotType |-> slotType, plugin |-> "pgoutput",
                                                           resumable |-> resumable, active |-> active])])

\* The budget that counts: the server's, if it has a stricter one.
Strictest(server) == IF server \in 0 .. SampleBudget THEN server ELSE SampleBudget

\* Samples of the retained WAL, one after the other, under one policy.
SampleRetention ==
  \E retained \in -1 .. SampleBudget + 1 :
    \/ \E warn \in {4, 50, 60}, degrade \in {62, 80}, server \in {-1, SampleBudget \div 2, SampleBudget + 1} :
         LET budget == effectiveRetentionBudget(SampleBudget, server, server < 0)
         IN  Calls([op |-> "retention", warn |-> warn, degrade |-> degrade, server |-> server, budget |-> budget,
                    was |-> retentionOK, retained |-> retained, reached |-> retained >= Strictest(server),
                    state |-> nextRetentionState(retentionOK, retained, budget, warn, degrade)])
    \/ /\ call.op = "retention"
       /\ call' = [call EXCEPT !.was = call.state, !.retained = retained,
                               !.reached = @ \/ retained >= Strictest(call.server),
                               !.state = nextRetentionState(call.state, retained, call.budget, call.warn, call.degrade)]
       /\ UNCHANGED rowVars

Init == RowInit /\ call = NoCall

Next ==
  \/ call = NoCall /\ RowStep /\ UNCHANGED call
  \/ CallVisibility \/ CallCursors \/ CallSnapshot \/ CallRelation \/ CallConfig \/ CallFailure
  \/ SampleRetention

Spec == Init /\ [][Next]_vars

-----------------------------------------------------------------------------
(* Properties; StoreMirrorsTable, RefusedExactly and PendingBounded of RowPath *)
(* are checked as well.                                                         *)

\* Snapshot.Covers decides by a 32-bit ID what the 64-bit snapshot decides by
\* the whole one: a streamed transaction is skipped if and only if the
\* snapshot's rows contain it, on both sides of a wraparound.
VisibilityExact ==
  call.op = "visibility" =>
    LET v == parseVisibility(call.xmin, call.xmax, call.xips)
        xips == Range(call.xips)
    IN  IF v = Invalid THEN call.xmin > call.xmax \/ ~(xips \subseteq call.xmin .. call.xmax - 1)
        ELSE includes(v, call.xid % Wrap) <=> call.xid < call.xmax /\ call.xid \notin xips

\* A cursor survives the wire, one of another source is refused by every server
\* and never misread, CompareCursors orders what Compare orders, and MinCursor
\* is the earliest of cursors of one source.
CursorsAgree ==
  call.op = "cursors" =>
    LET cursors == Range(call.cursors)
        least == MinCursor(call.cursors)
        wire(c) == encodeCursor(c.sourceID, c)
    IN  /\ \A c \in cursors : decodeCursor(call.server, wire(c)) = IF c.sourceID = call.server THEN c ELSE Invalid
        /\ \A c, d \in cursors :
             /\ c.sourceID = call.server => CompareCursors(call.server, wire(c), wire(d)) = Compare(c, d)
             /\ BytesAfter(c, d) > 0 <=> c.sourceID = d.sourceID /\ Compare(c, d) = 1
        /\ IF least = Invalid THEN Cardinality({c.sourceID : c \in cursors}) # 1
           ELSE least \in cursors /\ \A c \in cursors : c.sourceID = least.sourceID /\ least.lsn <= c.lsn

\* A paged, packed snapshot is the single read it stands for (snapshot.go:190,
\* "no more or less than a single unbounded read"): the messages hold every row
\* once, in key order, none is empty, none is over the limit unless it is one
\* row, and the store they are put into has every row under its key.
SnapshotArrivesWhole ==
  call.op = "snapshot" =>
    LET pages == scanScopedRows(call.rows, PrimaryKey, call.batchRows)
        messages == Messages(pages, call.maxBytes)
        sent == UNION {Range(messages[m]) : m \in DOMAIN messages}
        id(row) == [i \in DOMAIN PrimaryKey |-> row[PrimaryKey[i]].text]
        bytes(message) == LET sum[i \in 0 .. Len(message)] == IF i = 0 THEN 0 ELSE sum[i - 1] + rowBytes(message[i])
                          IN  sum[Len(message)]
    IN  /\ sent = {convertRow(row) : row \in call.rows}
        /\ \A m, n \in DOMAIN messages : \A i \in DOMAIN messages[m], j \in DOMAIN messages[n] :
             m < n \/ (m = n /\ i < j) => KeyOrder(id(messages[m][i]), id(messages[n][j]))
        /\ \A p \in DOMAIN pages : Len(pages[p]) \in 1 .. call.batchRows
        /\ \A m \in DOMAIN messages : Len(messages[m]) = 1 \/ (messages[m] # << >> /\ bytes(messages[m]) <= call.maxBytes)
        /\ LET put == Installed(call.rows, PrimaryKey, call.batchRows, call.maxBytes)
           IN  DOMAIN put = {id(row) : row \in sent} /\ \A row \in sent : put[id(row)] = row

\* The stream's first Relation message of a table is compatible with the shape
\* read when a projection of it was validated exactly if nothing decoding
\* depends on has changed: the same table, replica identity, columns, types and
\* key.  No change goes unnoticed, and none is reported that is not there.
DiffFindsChange ==
  call.op = "relation" =>
    LET message(t) == [oid |-> t.oid, replicaIdentity |-> t.replicaIdentity,
                       columns |-> [i \in DOMAIN t.columns |->
                                      [name |-> t.columns[i].name, typeOID |-> t.columns[i].typeOID,
                                       flag |-> t.columns[i].name \in Flagged(t)]]]
    IN  diff(projectionShape(call.was), shapeOfRelation(message(call.is))) = "" <=>
          /\ call.was.oid = call.is.oid /\ call.was.replicaIdentity = call.is.replicaIdentity
          /\ call.was.columns = call.is.columns
          /\ newRelationInfo(Names(call.was), Flagged(call.was)) = newRelationInfo(Names(call.is), Flagged(call.is))

\* What other parts rely on follows from an accepted configuration: the policy
\* warns, then degrades, before it is terminal, at the budget; before every
\* attempt there is, a retry waits at least for the initial backoff less its
\* jitter, which is some time unless the jitter is all of it, and at most for the
\* longest backoff and its jitter; a page has rows; a daemon's cursors can be read
\* back; and a spec accepted against its table gives every published change a key
\* that routes it and that the store knows.
ConfigIsSafe ==
  LET safe(config) ==
        LET budget == config["MaxRetainedWALBytes"]
            stage(retained) == nextRetentionState(retentionOK, retained, 100 * budget,
                                 config["RetentionWarnFraction"], config["RetentionDegradeFraction"])
        IN  /\ {stage(budget * percent) : percent \in 0 .. 99} = {retentionOK, retentionWarn, retentionDegrade}
            /\ stage(100 * budget) = retentionTerminal
            /\ \A attempt \in 1 .. config["MaxAttempts"], random \in Randoms :
                 retryDelay(config, attempt, random) \in
                   100 * (100 - config["Jitter"]) * config["InitialBackoff"] ..
                   100 * (100 + config["Jitter"]) * config["MaxBackoff"]
            /\ config["SnapshotBatchRows"] > 0 /\ config["MaxValueBytes"] <= config["MaxTransactionBytes"]
  IN  /\ call.op = "reader" =>
           LET config == normalizeReaderConfig(call.config)
           IN  validateReaderConfig(config) => safe(config)
      /\ call.op = "daemon" =>
           LET config == parseConfig(call.config)
               id == config.sourceID
           IN  configValid(config) =>
                 /\ safe(normalizeReaderConfig(readerConfig(config)))
                 /\ config.shutdownTimeout > 0
                 /\ decodeCursor(id, encodeCursor(id, Cursor(id, 1))) = Cursor(id, 1)
      /\ call.op = "spec" =>
           LET spec == call.spec
               flagged == Range(call.table.primaryKey)  \* default replica identity
           IN  /\ validatePublication(call.publication) /\ validateProjectionSpecConfig(spec)
               /\ validateProjectionSpec(spec, call.table)
               => /\ spec.scopeColumn \in flagged /\ flagged = Range(spec.primaryKey)
                  /\ call.publication.operations = {"insert", "update", "delete"}

\* An error the reader would retry never makes a client give up: no status it
\* becomes is one isPermanent names; and the source's own misconfiguration is
\* reported as one.
TransientErrorsRetried ==
  call.op = "failure" =>
    /\ retried(call.error) => ~isPermanent(status(call.error))
    /\ call.error.kind \in {"InvalidReaderConfig", "InsufficientPrivileges"} => isPermanent(status(call.error))

\* The retention state is terminal exactly from the first sample at the budget on,
\* watchd's own or the server's if that is stricter, whatever is sampled later.
\* Until then it follows a rising sample at once, falls only when the sample is 5%
\* below the threshold of the state it leaves, and is back to ok once nothing is
\* retained, if the lowest threshold is above those 5%.
RetentionSettles ==
  call.op = "retention" =>
    LET percent == (100 * call.retained) \div Strictest(call.server)
        threshold(state) == IF state = retentionDegrade THEN call.degrade ELSE call.warn
    IN  /\ call.state = retentionTerminal <=> call.reached
        /\ call.retained < 0 => call.state = call.was
        /\ call.retained >= 0 /\ ~call.reached =>
             /\ percent >= call.degrade => call.state >= retentionDegrade
             /\ percent >= call.warn => call.state >= retentionWarn
             /\ \A state \in {retentionWarn, retentionDegrade} :
                  call.was >= state /\ call.state < state => percent < threshold(state) - 5
             /\ call.state > call.was => percent >= threshold(call.state)
             /\ call.retained = 0 /\ call.warn > 5 => call.state = retentionOK
=============================================================================
