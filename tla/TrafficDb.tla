----------------------------- MODULE TrafficDb -----------------------------
(***************************************************************************)
(* The traffic database: five queues that every other thread fills, and    *)
(* the one thread, TrafficDb.fillDB, that drains them one after the other  *)
(* into an sqlite3 file and then commits.  The accept loop, the TCP pumps  *)
(* and a UDP thread are here as far as they queue rows, in the order in    *)
(* which they do.  Mallory may be killed and started again at any point.   *)
(*                                                                         *)
(* A run is known by its number, and a file by the run that created it: a  *)
(* second run appends the time to the name, and no two runs start in the   *)
(* same hundredth of a second.  FirstFile is the name as it was given.     *)
(* Whoever reads the file (the database tab of the GUI) may hold a lock on *)
(* it: that, a full disk or a row that sqlite3 refuses make an insert or   *)
(* the commit raise, which ends the thread.                                *)
(***************************************************************************)
EXTENDS Naturals, Sequences, SequencesExt

CONSTANTS
    NumRuns,    \* bound: times Mallory is started
    NumConns,   \* bound: connections of a run
    Limit,      \* bound: chunks on each connection, and datagrams, in each run;
                \* a connection with none is not made
    NoFile      \* the run has not opened its file

Runs  == 1 .. NumRuns
Conns == 1 .. NumConns
Udp   == 0
Producers == Conns \cup {Udp}   \* a pump of each connection, and a UDP thread
Kinds == {"conn", "flow", "dgram", "fuzztcp", "fuzzudp"}

ASSUME BoundsAssumption ==
    NumRuns \in Nat \ {0} /\ NumConns \in Nat /\ Limit \in [Runs \X Producers -> Nat]

FirstFile == 0
Files == 0 .. NumRuns
ASSUME NoFileAssumption == NoFile \notin Files
NoRows == [k \in Kinds |-> <<>>]

VARIABLES
    run,      \* number of the current run
    queue,    \* qConn, qFlow, dgram, qfuzztcp and qfuzzudp
    put,      \* history: all rows queued in this run
    pc,       \* where fillDB is
    dir,      \* the directory of the files exists
    files,    \* the committed rows of every file there is
    file,     \* the file this run writes to
    trans,    \* rows inserted and not yet committed
    conns,    \* connections set up in this run
    next,     \* the chunk each pump, or the datagram UDP, works on
    stage,    \* and how far it is with it
    fuzzed,   \* history: the chunks and datagrams that a fuzz rule changed
    overlooked \* history: the chunks among them that have no row because the last
              \* fuzz rule left them alone

dbVars   == <<pc, dir, files, file, trans>>
prodVars == <<conns, next, stage, fuzzed, overlooked>>
vars == <<run, queue, put, dbVars, prodVars>>

\* The row a producer queues for the chunk or datagram it works on.
Item(p) == <<run, p, next[p]>>

Started ==
    /\ queue = NoRows
    /\ put = NoRows
    /\ pc = "open"
    /\ file = NoFile
    /\ trans = NoRows
    /\ conns = 0
    /\ next = [p \in Producers |-> 1]
    /\ stage = [p \in Producers |-> "rules"]

Init ==
    /\ run = 1
    /\ dir \in BOOLEAN
    /\ files \in {<<>>} \cup (IF dir THEN {[f \in {FirstFile} |-> NoRows]} ELSE {})
    /\ fuzzed = {} /\ overlooked = {}
    /\ Started

(***************************************************************************)
(* Those who queue rows.                                                   *)
(***************************************************************************)

Put(k, r) ==
    /\ queue' = [queue EXCEPT ![k] = Append(@, r)]
    /\ put'   = [put EXCEPT ![k] = Append(@, r)]

\* The accept loop: the row first, then the pumps.
Connect ==
    /\ conns + 1 \in Conns /\ Limit[run, conns + 1] > 0
    /\ Put("conn", <<run, conns + 1, 0>>)
    /\ conns' = conns + 1
    /\ UNCHANGED <<run, dbVars, next, stage, fuzzed, overlooked>>

Running(p) ==
    /\ p = Udp \/ p <= conns
    /\ next[p] <= Limit[run, p]

\* processrules: no fuzz rule changes the chunk; or one does and a row is queued;
\* or, of several fuzz rules, an earlier one changes it and the last does not, which
\* leaves TcpProtocol's was_fuzzed false.  UdpProtocol queues a row for each rule that
\* changes a datagram; one stands for them.
ProcessRules(p) ==
    /\ Running(p)
    /\ stage[p] = "rules"
    /\ stage' = [stage EXCEPT ![p] = "store"]
    /\ \/ UNCHANGED <<queue, put, fuzzed, overlooked>>
       \/ /\ Put(IF p = Udp THEN "fuzzudp" ELSE "fuzztcp", Item(p))
          /\ fuzzed' = fuzzed \cup {Item(p)}
          /\ UNCHANGED overlooked
       \/ /\ p # Udp
          /\ fuzzed' = fuzzed \cup {Item(p)}
          /\ overlooked' = overlooked \cup {Item(p)}
          /\ UNCHANGED <<queue, put>>
    /\ UNCHANGED <<run, dbVars, conns, next>>

\* The row of what was sent (TCP) or is about to be (UDP).
Store(p) ==
    /\ Running(p)
    /\ stage[p] = "store"
    /\ Put(IF p = Udp THEN "dgram" ELSE "flow", Item(p))
    /\ next' = [next EXCEPT ![p] = @ + 1]
    /\ stage' = [stage EXCEPT ![p] = "rules"]
    /\ UNCHANGED <<run, dbVars, conns, fuzzed, overlooked>>

(***************************************************************************)
(* fillDB.                                                                 *)
(***************************************************************************)

\* Faulty variant: the fuzz tables are filled first.
OrderFuzzFirst == <<"conn", "fuzztcp", "fuzzudp", "flow", "dgram">>

\* The queues in the order in which a round drains them.
Order == <<"conn", "flow", "dgram", "fuzztcp", "fuzzudp">>
After(k) == LET i == CHOOSE j \in 1 .. 5 : Order[j] = k
            IN  IF i = 5 THEN "commit" ELSE Order[i + 1]

\* The file that Open chooses: with a name that no earlier run used.
DbName == IF FirstFile \in DOMAIN files THEN run ELSE FirstFile

MakeFile(f) ==
    files' = IF f \in DOMAIN files THEN files
             ELSE [g \in DOMAIN files \cup {f} |-> IF g = f THEN NoRows ELSE files[g]]

\* Faulty variant: an existing file is used as it is.
OpenExisting ==
    /\ pc = "open"
    /\ dir' = TRUE
    /\ pc' = "sleep"
    /\ file' = FirstFile
    /\ MakeFile(FirstFile)
    /\ UNCHANGED <<run, queue, put, trans, prodVars>>

\* Create the file and its tables.
Open ==
    /\ pc = "open"
    /\ dir' = TRUE
    /\ pc' = "sleep"
    /\ file' = DbName
    /\ MakeFile(DbName)
    /\ UNCHANGED <<run, queue, put, trans, prodVars>>

\* The directory cannot be made: the thread returns, the others go on.
MkdirFails ==
    /\ pc = "open"
    /\ ~dir
    /\ pc' = "over"
    /\ UNCHANGED <<run, queue, put, dir, files, file, trans, prodVars>>

\* connect raises, or CREATE TABLE does when the file is there already; either ends
\* the thread.
OpenFails ==
    /\ pc = "open"
    /\ dir' = TRUE
    /\ pc' = "over"
    /\ files' = files \/ MakeFile(DbName)
    /\ UNCHANGED <<run, queue, put, file, trans, prodVars>>

Wake ==
    /\ pc = "sleep"
    /\ pc' = Order[1]
    /\ UNCHANGED <<run, queue, put, dir, files, file, trans, prodVars>>

\* Take one row from the queue in turn and insert it.
Insert(k) ==
    /\ pc = k
    /\ queue[k] # <<>>
    /\ queue' = [queue EXCEPT ![k] = Tail(@)]
    /\ trans' = [trans EXCEPT ![k] = Append(@, Head(queue[k]))]
    /\ UNCHANGED <<run, put, pc, dir, files, file, prodVars>>

\* execute raises; the row is in neither place, and the thread has ended.
InsertFails(k) ==
    /\ pc = k
    /\ queue[k] # <<>>
    /\ queue' = [queue EXCEPT ![k] = Tail(@)]
    /\ pc' = "over"
    /\ trans' = NoRows
    /\ UNCHANGED <<run, put, dir, files, file, prodVars>>

\* Faulty variants: rows are left for the next round; the last queue is
\* followed by no commit.
DrainedEarly(k) ==
    /\ pc = k
    /\ pc' = After(k)
    /\ UNCHANGED <<run, queue, put, dir, files, file, trans, prodVars>>

DrainedNoCommit(k) ==
    /\ pc = k
    /\ queue[k] = <<>>
    /\ pc' = IF k = "fuzzudp" THEN "sleep" ELSE After(k)
    /\ UNCHANGED <<run, queue, put, dir, files, file, trans, prodVars>>

Drained(k) ==
    /\ pc = k
    /\ queue[k] = <<>>
    /\ pc' = After(k)
    /\ UNCHANGED <<run, queue, put, dir, files, file, trans, prodVars>>

\* Faulty variant: the transaction stays open after its commit.
CommitTwice ==
    /\ pc = "commit"
    /\ files' = [files EXCEPT ![file] = [k \in Kinds |-> @[k] \o trans[k]]]
    /\ pc' = "sleep"
    /\ UNCHANGED <<run, queue, put, dir, file, trans, prodVars>>

Commit ==
    /\ pc = "commit"
    /\ files' = [files EXCEPT ![file] = [k \in Kinds |-> @[k] \o trans[k]]]
    /\ trans' = NoRows
    /\ pc' = "sleep"
    /\ UNCHANGED <<run, queue, put, dir, file, prodVars>>

\* commit raises (somebody holds a lock for longer than the time-out): the
\* transaction is rolled back and the thread has ended.
CommitFails ==
    /\ pc = "commit"
    /\ trans' = NoRows
    /\ pc' = "over"
    /\ UNCHANGED <<run, queue, put, dir, files, file, prodVars>>

\* Mallory ends (killConn is called by nobody) and is started again.
Restart ==
    /\ run < NumRuns
    /\ run' = run + 1
    /\ queue' = NoRows
    /\ put' = NoRows
    /\ pc' = "open"
    /\ file' = NoFile
    /\ trans' = NoRows
    /\ conns' = 0
    /\ next' = [p \in Producers |-> 1]
    /\ stage' = [p \in Producers |-> "rules"]
    /\ UNCHANGED <<dir, files, fuzzed, overlooked>>

-----------------------------------------------------------------------------

Produce == Connect \/ (\E p \in Producers : ProcessRules(p) \/ Store(p))

FillDB == Open \/ Wake \/ (\E k \in Kinds : Insert(k) \/ Drained(k)) \/ Commit

Fails == MkdirFails \/ OpenFails \/ (\E k \in Kinds : InsertFails(k)) \/ CommitFails

Next == Produce \/ FillDB \/ Fails \/ Restart

Spec == Init /\ [][Next]_vars

\* The thread never waits for anything but its 100 ms of sleep.
FairSpec == Spec /\ WF_vars(FillDB)

(***************************************************************************)
(* Properties.                                                             *)
(***************************************************************************)

\* The rows of this run that are in its file.
durable == IF file = NoFile THEN NoRows ELSE files[file]

\* Each table is the log of what was queued for it (see DurableLog).
Log == INSTANCE DurableLog WITH queued <- put

LogSpec == Log!Spec

\* The connection a flow row belongs to.
ConnRow(r) == <<r[1], r[2], 0>>

\* trafficdb.py:117-123: a flow row can be committed before the row of its
\* connection, which was queued first, because qConn was drained just before it
\* came.  The next commit, if there is one, always brings it.
OrphansJoinedNextCommit ==
    [][pc = "commit" /\ pc' = "sleep" =>
         \A r \in ToSet(durable["flow"]) : ConnRow(r) \in ToSet(durable'["conn"])]_vars

\* mallory.py:480, base.py:646-663 and 573: in every file, a chunk that the last of
\* its fuzz rules changed is explained by its row in fuzztcp, and a datagram that any
\* of them changed by its row in fuzzudp: the queues are drained in the opposite
\* order to that in which such a pair is queued, and both rows are committed together
\* or not at all.  A chunk that only an earlier fuzz rule changed has no row.
FuzzExplained ==
    \A f \in DOMAIN files :
        /\ (ToSet(files[f]["flow"]) \cap fuzzed) \ overlooked
              \subseteq ToSet(files[f]["fuzztcp"])
        /\ ToSet(files[f]["dgram"]) \cap fuzzed \subseteq ToSet(files[f]["fuzzudp"])

\* trafficdb.py:88 "Avoid overwriting existing traffic databases": no file ever
\* loses or changes a row, and one that an earlier run made gets none of this
\* run's rows.  Connections are numbered from 0 in every run: flows would be
\* joined to another run's connections.
FilesKept ==
    [][\A f \in DOMAIN files :
         /\ f \in DOMAIN files'
         /\ \A k \in Kinds : IsPrefix(files[f][k], files'[f][k])
         /\ files'[f] # files[f] =>
              \A k \in Kinds : \A r \in ToSet(files'[f][k]) : r[1] = run]_vars

\* As long as no insert and no commit raises, everything queued is in the file
\* whenever the others have been quiet for a while.
CatchesUp == []<>(durable = put \/ pc = "over")

=============================================================================
