---------------------------- MODULE HttpDb_proofs ----------------------------
(***************************************************************************)
(* Theorems about HttpExchange, for any requests and responses, with any   *)
(* number of pieces, and about TrafficDb, which takes the rows of such     *)
(* exchanges and of every other connection, for any number of runs,        *)
(* connections and chunks.  The two do not share a variable: each theorem  *)
(* is about the specification it names.                                    *)
(***************************************************************************)
EXTENDS HttpExchange, TrafficDb, TLAPS

-----------------------------------------------------------------------------
(* The invariant of the HTTP exchange. *)

\* A response as the assumption has it; one whose head was cut short is one, too.
Meaningful(r) ==
    r \in ResponseSet /\ r.lower \subseteq r.headers /\ (r.bodiless # "no" => r.pieces = 0)

\* Where the response has been read, and where its head, and all of it, is sent.
BodyIn   == s2c \in {"send", "content", "store", "shut"} \/ ended
HeadOut  == s2c \in {"content", "store", "shut"} \/ ended
WholeOut == s2c \in {"store", "shut"} \/ ended

\* What has been read is the body the server announced, if it announced one.
BodyWhole ==
    BodyIn => \/ BodyOf(got) = resp.pieces
              \/ resp.headers \cap {"chunked", "length"} = {}

\* What is sent is what was read, under the headers that are passed on.
AnswerMade ==
    /\ HeadOut => /\ answer.headers = Forwarded
                  /\ answer.coded = ("gzip" \in resp.headers /\ ~Zipped)
    /\ s2c = "content" => answer = Answer
    /\ WholeOut => answer.pieces = BodyOf(got)

\* The stream is ended last.
EndsLast == ended => s2c = "over"

\* No more is read than was sent, and the body after the head: a server that has yet
\* to send its head has not been answered for.
HeadFirst ==
    /\ server \in Nat /\ got \in Nat
    /\ got <= server
    /\ s2c = "body" \/ BodyIn => got > resp.interim

\* The inductive invariant.
HttpInv ==
    /\ Meaningful(resp)
    /\ HeadFirst
    /\ BodyWhole
    /\ AnswerMade
    /\ EndsLast

-----------------------------------------------------------------------------
(* The invariant of the traffic database. *)

\* A row: the run, the producer (or the connection), the number of the chunk.
Rows == Nat \X Nat \X Nat

\* The types of what the invariants below speak of.
DbTypes ==
    /\ run \in Runs
    /\ queue \in [Kinds -> Seq(Rows)]
    /\ put \in [Kinds -> Seq(Rows)]
    /\ trans \in [Kinds -> Seq(Rows)]
    /\ pc \in Kinds \cup {"open", "sleep", "commit", "over"}
    /\ \A f \in DOMAIN files : files[f] \in [Kinds -> Seq(Rows)]
    /\ conns \in Nat
    /\ next \in [Producers -> Nat]
    /\ stage \in [Producers -> {"rules", "store"}]
    /\ fuzzed \in SUBSET Rows

\* Files carry the numbers of the runs up to this one, and the file of this run is
\* one that was not there before.
OwnFile ==
    /\ \A f \in DOMAIN files : f \in Files /\ f <= run
    /\ pc = "open" => \A f \in DOMAIN files : f < run
    /\ file # NoFile => file \in DOMAIN files
    /\ pc = "open" => file = NoFile
    /\ pc \notin {"open", "over"} => file # NoFile

\* A row is in the file, in the transaction or in the queue, in the order in which it
\* was queued, until the thread ends; what is in the file is a prefix for ever.
Accounted ==
    \A k \in Kinds :
        /\ IsPrefix(durable[k], put[k])
        /\ pc # "over" => put[k] = durable[k] \o trans[k] \o queue[k]

\* Rows bear the number of the run that queued them; no file but this run's own has
\* rows of this run, and nothing of a run to come was fuzzed.
OwnRows ==
    /\ \A k \in Kinds : \A r \in ToSet(put[k]) : r[1] = run
    /\ \A f \in DOMAIN files \ {file} : \A k \in Kinds : \A r \in ToSet(files[f][k]) : r[1] < run
    /\ \A r \in fuzzed : r[1] <= run

\* A chunk has its row in fuzztcp, or fuzzudp, before its own, unless TcpProtocol
\* overlooked it; its connection has one before any of its chunks; no chunk has a row
\* before it is worked on.
QueuedInOrder ==
    /\ \A c \in Conns : c <= conns => <<run, c, 0>> \in ToSet(put["conn"])
    /\ \A r \in ToSet(put["flow"]) :
          r[2] \in Conns /\ r[3] < next[r[2]] /\ ConnRow(r) \in ToSet(put["conn"])
    /\ \A r \in ToSet(put["dgram"]) : r[2] = Udp /\ r[3] < next[Udp]
    /\ \A r \in fuzzed : r[1] = run =>
          \/ r \in overlooked /\ r[2] # Udp
          \/ r \in ToSet(put[IF r[2] = Udp THEN "fuzzudp" ELSE "fuzztcp"])

\* The rows of this run that the next commit leaves in the file.
Kept(k) == ToSet(durable[k]) \cup ToSet(trans[k])

\* In a round, what has been drained holds all that what was drained before refers to.
DrainedInOrder ==
    /\ pc \in {"flow", "dgram", "fuzztcp", "fuzzudp", "commit"} =>
          \A r \in ToSet(durable["flow"]) : ConnRow(r) \in Kept("conn")
    /\ pc \in {"fuzzudp", "commit"} =>
          (Kept("flow") \cap fuzzed) \ overlooked \subseteq Kept("fuzztcp")
    /\ pc = "commit" => Kept("dgram") \cap fuzzed \subseteq Kept("fuzzudp")

\* The inductive invariant.
DbInv ==
    /\ DbTypes
    /\ OwnFile
    /\ Accounted
    /\ OwnRows
    /\ QueuedInOrder
    /\ DrainedInOrder
    /\ FuzzExplained

-----------------------------------------------------------------------------
(* The HTTP exchange. *)

\* When the end of a body has been found, all of it has been read, unless the server
\* had not said where it ends.
LEMMA BodyEndsWhole ==
    ASSUME Meaningful(resp), got \in Nat, BodyEnds
    PROVE  BodyOf(got) = resp.pieces \/ resp.headers \cap {"chunked", "length"} = {}
<1>1. /\ resp.interim \in Nat /\ resp.pieces \in Nat
      /\ resp.bodiless \in {"no", "status", "head"}
      /\ resp.bodiless # "no" => resp.pieces = 0
      BY DEF Meaningful, ResponseSet
<1>2. CASE resp.pieces = 0
      BY <1>1, <1>2 DEF BodyOf
<1>3. CASE resp.pieces # 0 /\ (Chunked \/ Length)
  <2>1. resp.bodiless = "no"
        BY <1>1, <1>3
  <2>2. got = AllUnits
        BY <2>1, <1>3 DEF BodyEnds
  <2> QED BY <2>2, <1>1 DEF AllUnits, BodyOf
<1>4. CASE ~Chunked /\ ~Length
      BY <1>4 DEF Chunked, Length
<1>5. QED
      BY <1>2, <1>3, <1>4

\* The c2s thread and the peers leave the response alone, unless the server cuts it
\* short; at most, more of it has been sent.
LEMMA OthersLeaveResponse ==
    ASSUME HeadFirst,
           \/ C2sThread \/ ClientSends \/ ClientCloses \/ ClientCutsHead
           \/ ServerSends \/ ServerCloses \/ UNCHANGED httpVars
    PROVE  UNCHANGED <<resp, s2cVars>> /\ server' \in {server, server + 1}
BY DEF HeadFirst, C2sThread, ReadRequest, ReadPiece, BodyRead, StoreRequest, SendRequest, C2s,
   ClientSends, ClientCloses, ClientCutsHead, ServerSends, ServerCloses, httpVars, netVars

\* Every step keeps the invariant.
LEMMA HttpStep ==
    ASSUME HttpInv, [HttpNext]_httpVars
    PROVE  HttpInv'
<1> USE DEF HttpInv
<1>1. ASSUME UNCHANGED <<resp, s2cVars>>, server' \in {server, server + 1}
      PROVE  HttpInv'
      BY <1>1 DEF s2cVars, HeadFirst, BodyWhole, AnswerMade, EndsLast, BodyIn,
         HeadOut, WholeOut, BodyOf, Forwarded, Zipped, Answer
<1>2. ASSUME ReadStatus
      PROVE  HttpInv'
  <2>1. resp.interim \in Nat
        BY DEF Meaningful, ResponseSet
  <2>2. HeadFirst'
        BY <1>2, <2>1 DEF ReadStatus, S2c, netVars, HeadFirst, BodyIn, EndsLast
  <2> QED BY <1>2, <2>2 DEF ReadStatus, S2c, netVars, BodyWhole, AnswerMade, EndsLast,
         BodyIn, HeadOut, WholeOut
<1>3. ASSUME ReadBody
      PROVE  HttpInv'
  <2>1. resp.interim \in Nat
        BY DEF Meaningful, ResponseSet
  <2>2. HeadFirst'
        BY <1>3, <2>1 DEF ReadBody, S2c, netVars, HeadFirst, BodyIn, EndsLast
  <2> QED BY <1>3, <2>2 DEF ReadBody, S2c, netVars, BodyWhole, AnswerMade, EndsLast,
         BodyIn, HeadOut, WholeOut
<1>4. ASSUME Process
      PROVE  HttpInv'
      BY <1>4, BodyEndsWhole DEF Process, S2c, netVars, HeadFirst, BodyIn, BodyWhole,
         AnswerMade, EndsLast, HeadOut, WholeOut, BodyOf
<1>5. ASSUME S2cRaises \/ RemoveRaises
      PROVE  HttpInv'
      BY <1>5 DEF S2cRaises, RemoveRaises, S2c, netVars, HeadFirst, BodyWhole,
         AnswerMade, EndsLast, BodyIn, HeadOut, WholeOut
<1>6. ASSUME UnlistedStatus
      PROVE  HttpInv'
      BY <1>6 DEF UnlistedStatus, S2c, netVars, HeadFirst, BodyWhole, AnswerMade,
         EndsLast, BodyIn, HeadOut, WholeOut
<1>7. ASSUME SendHead
      PROVE  HttpInv'
      BY <1>7 DEF SendHead, S2c, netVars, HeadFirst, BodyWhole, AnswerMade,
         EndsLast, BodyIn, WholeOut, BodyOf, Forwarded, Zipped, Answer
<1>8. ASSUME SendContent
      PROVE  HttpInv'
      BY <1>8 DEF SendContent, S2c, netVars, HeadFirst, BodyWhole, AnswerMade,
         EndsLast, BodyIn, HeadOut, BodyOf, Forwarded, Zipped
<1>9. ASSUME SendRaises
      PROVE  HttpInv'
      BY <1>9 DEF SendRaises, S2c, netVars, HeadFirst, BodyWhole, AnswerMade,
         EndsLast, BodyIn, HeadOut, WholeOut
<1>10. ASSUME StoreResponse
      PROVE  HttpInv'
      BY <1>10 DEF StoreResponse, S2c, netVars, HeadFirst, BodyWhole, AnswerMade,
         EndsLast, BodyIn, HeadOut, WholeOut, BodyOf, Forwarded, Zipped
<1>11. ASSUME Shutdown
      PROVE  HttpInv'
      BY <1>11 DEF Shutdown, S2c, netVars, HeadFirst, BodyWhole, AnswerMade,
         EndsLast, BodyIn, HeadOut, WholeOut, BodyOf, Forwarded, Zipped
<1>12. ASSUME ServerCutsHead
       PROVE  HttpInv'
  <2>1. /\ server = resp.interim /\ server' = server + 1 /\ UNCHANGED s2cVars
        /\ resp'.interim = resp.interim
        BY <1>12 DEF ServerCutsHead, Meaningful, ResponseSet
  <2>2. ~BodyIn /\ s2c # "body" /\ ~HeadOut /\ ~WholeOut /\ s2c # "content" /\ ~ended
        BY <2>1 DEF HeadFirst, Meaningful, ResponseSet, BodyIn, HeadOut, WholeOut
  <2>3. Meaningful(resp')
    <3>1. PICK came \in SUBSET resp.headers, twice \in {FALSE, resp.twice} :
             resp' = [resp EXCEPT !.headers = came, !.lower = @ \cap came, !.twice = twice]
          BY <1>12 DEF ServerCutsHead
    <3>2. /\ resp \in ResponseSet /\ twice \in BOOLEAN /\ came \in SUBSET Headers
          /\ resp.lower \cap came \in SUBSET Headers
          /\ resp.bodiless # "no" => resp.pieces = 0
          BY DEF Meaningful, ResponseSet
    <3>3. resp' \in ResponseSet
          BY <3>1, <3>2 DEF ResponseSet
    <3>4. /\ resp'.lower = resp.lower \cap came /\ resp'.headers = came
          /\ resp'.bodiless = resp.bodiless /\ resp'.pieces = resp.pieces
          BY <3>1, <3>2 DEF ResponseSet
    <3> QED BY <3>2, <3>3, <3>4 DEF Meaningful
  <2>4. HeadFirst'
        BY <2>1, <2>2 DEF s2cVars, HeadFirst, BodyIn
  <2>5. BodyWhole' /\ AnswerMade' /\ EndsLast'
        BY <2>1, <2>2 DEF s2cVars, BodyWhole, AnswerMade, EndsLast, BodyIn, HeadOut, WholeOut
  <2> QED BY <2>3, <2>4, <2>5
<1>13. QED
      BY <1>1, <1>2, <1>3, <1>4, <1>5, <1>6, <1>7, <1>8, <1>9, <1>10, <1>11, <1>12,
         OthersLeaveResponse DEF HttpNext, S2cThread

\* Every step of the s2c thread keeps it, and nobody else touches the response.
THEOREM HttpInvariant == HttpSpec => []HttpInv
<1>1. HttpInit => HttpInv
      BY ExchangeAssumption DEF HttpInit, HttpInv, Meaningful, HeadFirst, BodyWhole,
         AnswerMade, EndsLast, BodyIn, HeadOut, WholeOut
<1>2. QED
      BY <1>1, HttpStep, PTL DEF HttpSpec

\* http.py:219-252: a client that sees the end of the answer of a server that spells
\* its headers as usual can make out the body, and has all of it.
THEOREM AnswerUnderstood == HttpSpec => []ClientUnderstands
<1>1. HttpInv => ClientUnderstands
  <2> SUFFICES ASSUME HttpInv, ended, resp.lower = {}
               PROVE  /\ ~Garbled
                      /\ answer.pieces < resp.pieces =>
                             resp.headers \cap {"chunked", "length"} = {}
      BY DEF ClientUnderstands
  <2>1. resp.headers \subseteq Headers /\ resp.pieces \in Nat
        BY DEF HttpInv, Meaningful, ResponseSet
  <2>2. answer.headers = {} /\ answer.coded = FALSE
        BY <2>1 DEF HttpInv, AnswerMade, HeadOut, Forwarded, Zipped
  <2>3. ~Garbled
        BY <2>2 DEF Garbled
  <2>4. answer.pieces < resp.pieces => resp.headers \cap {"chunked", "length"} = {}
        BY <2>1 DEF HttpInv, BodyWhole, AnswerMade, BodyIn, WholeOut
  <2> QED BY <2>3, <2>4
<1>2. QED
      BY <1>1, HttpInvariant, PTL

-----------------------------------------------------------------------------
(* Sequences. *)

\* The elements of a concatenation are those of its parts: what is inserted, and what
\* is committed, is what was queued.
LEMMA SetOfConcat ==
    ASSUME NEW S, NEW s \in Seq(S), NEW t \in Seq(S)
    PROVE  ToSet(s \o t) = ToSet(s) \cup ToSet(t)
<1>1. /\ DOMAIN (s \o t) = 1 .. Len(s) + Len(t)
      /\ DOMAIN s = 1 .. Len(s) /\ DOMAIN t = 1 .. Len(t)
      /\ Len(s) \in Nat /\ Len(t) \in Nat
  OBVIOUS
<1>2. ASSUME NEW x \in ToSet(s \o t)  PROVE x \in ToSet(s) \cup ToSet(t)
  <2>1. PICK i \in 1 .. Len(s) + Len(t) : x = (s \o t)[i]
    BY <1>1, <1>2 DEF ToSet
  <2>2. CASE i <= Len(s)
    <3>1. i \in 1 .. Len(s) /\ x = s[i]  BY <1>1, <2>1, <2>2
    <3> QED BY <1>1, <3>1 DEF ToSet
  <2>3. CASE i > Len(s)
    <3>1. i - Len(s) \in 1 .. Len(t) /\ x = t[i - Len(s)]  BY <1>1, <2>1, <2>3
    <3> QED BY <1>1, <3>1 DEF ToSet
  <2> QED BY <1>1, <2>2, <2>3
<1>3. ASSUME NEW x \in ToSet(s)  PROVE x \in ToSet(s \o t)
  <2>1. PICK i \in 1 .. Len(s) : x = s[i]  BY <1>1, <1>3 DEF ToSet
  <2>2. i \in 1 .. Len(s) + Len(t) /\ x = (s \o t)[i]  BY <1>1, <2>1
  <2> QED BY <1>1, <2>2 DEF ToSet
<1>4. ASSUME NEW x \in ToSet(t)  PROVE x \in ToSet(s \o t)
  <2>1. PICK i \in 1 .. Len(t) : x = t[i]  BY <1>1, <1>4 DEF ToSet
  <2>2. i + Len(s) \in 1 .. Len(s) + Len(t) /\ x = (s \o t)[i + Len(s)]  BY <1>1, <2>1
  <2> QED BY <1>1, <2>2 DEF ToSet
<1> QED BY <1>2, <1>3, <1>4

\* Those of a sequence to which one element was appended are the old ones and it.
LEMMA SetOfAppend ==
    ASSUME NEW S, NEW s \in Seq(S), NEW e \in S
    PROVE  ToSet(Append(s, e)) = ToSet(s) \cup {e}
<1> DEFINE u == <<e>>
<1>1. Append(s, e) = s \o u /\ u \in Seq(S)
  OBVIOUS
<1>2. DOMAIN u = {1} /\ u[1] = e
  OBVIOUS
<1> HIDE DEF u
<1>3. ToSet(u) = {e}
  <2>1. \A i \in DOMAIN u : u[i] = e
    BY <1>2
  <2> QED BY <1>2, <2>1 DEF ToSet
<1>4. ToSet(s \o u) = ToSet(s) \cup ToSet(u)
  BY <1>1, SetOfConcat
<1> QED BY <1>1, <1>3, <1>4

\* A new table, and an empty queue, holds nothing.
LEMMA SetOfNone == ToSet(<<>>) = {}
  BY DEF ToSet

\* What is in a table stays at its beginning when rows are added.
LEMMA PrefixOfConcat ==
    ASSUME NEW S, NEW s \in Seq(S), NEW t \in Seq(S)
    PROVE  IsPrefix(s, s \o t)
  BY DEF IsPrefix

\* A prefix of what was queued is one of what was queued later.
LEMMA PrefixOfAppend ==
    ASSUME NEW S, NEW s \in Seq(S), NEW t \in Seq(S), NEW e \in S, IsPrefix(s, t)
    PROVE  IsPrefix(s, Append(t, e))
  BY DEF IsPrefix

\* The rows of a prefix are rows of the whole.
LEMMA SetOfPrefix ==
    ASSUME NEW S, NEW s \in Seq(S), NEW t \in Seq(S), IsPrefix(s, t)
    PROVE  ToSet(s) \subseteq ToSet(t)
<1>1. SUFFICES ASSUME NEW i \in 1 .. Len(s)  PROVE s[i] \in ToSet(t)
  BY DEF ToSet
<1>2. Len(s) \in Nat /\ Len(t) \in Nat /\ Len(s) <= Len(t)
  BY DEF IsPrefix
<1>3. SubSeq(s, 1, Len(s))[i] = s[i] /\ SubSeq(t, 1, Len(s))[i] = t[i]
  BY <1>2
<1>4. s[i] = t[i] /\ i \in DOMAIN t
  BY <1>2, <1>3 DEF IsPrefix
<1> QED BY <1>4 DEF ToSet

-----------------------------------------------------------------------------
(* The traffic database: the rows of a step. *)

\* The file of this run, as far as it has one, holds rows of each kind.
LEMMA DurableRows ==
    ASSUME DbTypes, OwnFile
    PROVE  durable \in [Kinds -> Seq(Rows)]
<1>1. NoRows \in [Kinds -> Seq(Rows)]
  BY DEF NoRows
<1> QED BY <1>1 DEF durable, DbTypes, OwnFile

\* All that is in the file was queued, and until the thread ends all that was queued is
\* in the file, in the transaction or in the queue.
LEMMA WhereRowsAre ==
    ASSUME DbInv, NEW k \in Kinds
    PROVE  /\ ToSet(durable[k]) \subseteq ToSet(put[k])
           /\ pc # "over" => ToSet(put[k]) = Kept(k) \cup ToSet(queue[k])
<1>1. /\ durable[k] \in Seq(Rows) /\ trans[k] \in Seq(Rows) /\ queue[k] \in Seq(Rows)
      /\ put[k] \in Seq(Rows) /\ durable[k] \o trans[k] \in Seq(Rows)
  <2>1. durable[k] \in Seq(Rows)  BY DurableRows DEF DbInv
  <2>2. trans[k] \in Seq(Rows) /\ queue[k] \in Seq(Rows) /\ put[k] \in Seq(Rows)
    BY DEF DbInv, DbTypes
  <2> QED BY <2>1, <2>2
<1>2. ToSet(durable[k]) \subseteq ToSet(put[k])
  BY <1>1, SetOfPrefix DEF DbInv, Accounted
<1>3. ASSUME pc # "over"  PROVE ToSet(put[k]) = Kept(k) \cup ToSet(queue[k])
  <2> DEFINE x == durable[k] \o trans[k]
  <2> DEFINE y == queue[k]
  <2>1. x \in Seq(Rows) /\ y \in Seq(Rows)
    BY <1>1
  <2>2. put[k] = x \o y
    BY <1>3 DEF DbInv, Accounted
  <2>3. ToSet(x) = ToSet(durable[k]) \cup ToSet(trans[k])
    BY <1>1, SetOfConcat
  <2> HIDE DEF x, y
  <2>4. ToSet(x \o y) = ToSet(x) \cup ToSet(y)
    BY <2>1, SetOfConcat
  <2> QED BY <2>2, <2>3, <2>4 DEF Kept, y
<1> QED BY <1>2, <1>3

\* A row that is queued joins those of its kind and goes nowhere else: what was said of
\* the files, the transaction and the order of the rows remains true.
LEMMA Queued ==
    ASSUME DbInv, NEW k \in Kinds, NEW r \in Rows, r[1] = run,
           Put(k, r), UNCHANGED <<run, dbVars>>
    PROVE  /\ queue' \in [Kinds -> Seq(Rows)] /\ put' \in [Kinds -> Seq(Rows)]
           /\ durable' = durable
           /\ OwnFile'
           /\ Accounted'
           /\ ToSet(put'[k]) = ToSet(put[k]) \cup {r}
           /\ \A l \in Kinds \ {k} : put'[l] = put[l]
           /\ \A l \in Kinds : \A s \in ToSet(put'[l]) : s[1] = run
<1>1. /\ queue \in [Kinds -> Seq(Rows)] /\ put \in [Kinds -> Seq(Rows)]
      /\ trans \in [Kinds -> Seq(Rows)]
  BY DEF DbInv, DbTypes
<1>2. /\ queue' = [queue EXCEPT ![k] = Append(@, r)] /\ put' = [put EXCEPT ![k] = Append(@, r)]
      /\ run' = run /\ pc' = pc /\ file' = file /\ files' = files /\ trans' = trans
  BY DEF Put, dbVars
<1>3. /\ queue' \in [Kinds -> Seq(Rows)] /\ put' \in [Kinds -> Seq(Rows)]
  BY <1>1, <1>2
<1>4. durable' = durable
  BY <1>2 DEF durable
<1>5. OwnFile'
  BY <1>2 DEF DbInv, OwnFile
<1>6. \A l \in Kinds \ {k} : put'[l] = put[l] /\ queue'[l] = queue[l]
  BY <1>1, <1>2
<1>7. put'[k] = Append(put[k], r) /\ queue'[k] = Append(queue[k], r)
  BY <1>1, <1>2
<1>8. ToSet(put'[k]) = ToSet(put[k]) \cup {r}
  BY <1>1, <1>7, SetOfAppend
<1>9. \A l \in Kinds : \A s \in ToSet(put'[l]) : s[1] = run
  BY <1>6, <1>8 DEF DbInv, OwnRows
<1>10. Accounted'
  <2> SUFFICES ASSUME NEW l \in Kinds
               PROVE  /\ IsPrefix(durable[l], put'[l])
                      /\ pc # "over" => put'[l] = durable[l] \o trans[l] \o queue'[l]
    BY <1>2, <1>4 DEF Accounted
  <2>1. durable[l] \in Seq(Rows) /\ trans[l] \in Seq(Rows) /\ queue[l] \in Seq(Rows)
        /\ put[l] \in Seq(Rows)
    BY <1>1, DurableRows DEF DbInv
  <2>2. /\ IsPrefix(durable[l], put[l])
        /\ pc # "over" => put[l] = durable[l] \o trans[l] \o queue[l]
    BY DEF DbInv, Accounted
  <2>3. CASE l # k
    BY <1>6, <2>2, <2>3
  <2>4. CASE l = k
    <3>1. IsPrefix(durable[l], put'[l])
      BY <1>7, <2>1, <2>2, <2>4, PrefixOfAppend
    <3>2. ASSUME pc # "over"  PROVE put'[l] = durable[l] \o trans[l] \o queue'[l]
      <4> DEFINE d == durable[l] \o trans[l]
      <4> DEFINE q == queue[l]
      <4>1. d \in Seq(Rows) /\ q \in Seq(Rows)
        BY <2>1
      <4>2. put[l] = d \o q
        BY <2>2, <3>2
      <4>3. put'[l] = Append(put[l], r) /\ queue'[l] = Append(q, r)
        BY <1>7, <2>4
      <4> HIDE DEF d, q
      <4>4. Append(d \o q, r) = d \o Append(q, r)
        BY <4>1
      <4>5. put'[l] = d \o queue'[l]
        BY <4>2, <4>3, <4>4
      <4> QED BY <4>5 DEF d
    <3> QED BY <3>1, <3>2
  <2> QED BY <2>3, <2>4
<1> QED BY <1>3, <1>4, <1>5, <1>6, <1>8, <1>9, <1>10

\* The accept loop queues the row of a connection.
LEMMA ConnectKeeps ==
    ASSUME DbInv, Connect
    PROVE  DbInv'
<1> DEFINE r == <<run, conns + 1, 0>>
<1>1. conns \in Nat /\ run \in Nat
  BY DEF DbInv, DbTypes, Runs
<1>2. r \in Rows /\ r[1] = run /\ "conn" \in Kinds
  BY <1>1 DEF Rows, Kinds
<1>3. /\ Put("conn", r) /\ UNCHANGED <<run, dbVars>> /\ conns' = conns + 1
      /\ pc' = pc /\ files' = files /\ file' = file /\ trans' = trans /\ run' = run
      /\ next' = next /\ stage' = stage /\ UNCHANGED <<fuzzed, overlooked>>
  BY DEF Connect, dbVars
<1> HIDE DEF r
<1>4. /\ queue' \in [Kinds -> Seq(Rows)] /\ put' \in [Kinds -> Seq(Rows)]
      /\ durable' = durable /\ OwnFile' /\ Accounted'
      /\ ToSet(put'["conn"]) = ToSet(put["conn"]) \cup {r}
      /\ \A l \in Kinds \ {"conn"} : put'[l] = put[l]
      /\ \A l \in Kinds : \A s \in ToSet(put'[l]) : s[1] = run
  BY <1>2, <1>3, Queued
<1>5. DbTypes'
  BY <1>1, <1>3, <1>4 DEF DbInv, DbTypes
<1>6. OwnRows'
  BY <1>3, <1>4 DEF DbInv, OwnRows
<1>7. QueuedInOrder'
  <2>1. /\ put'["flow"] = put["flow"] /\ put'["dgram"] = put["dgram"]
        /\ put'["fuzztcp"] = put["fuzztcp"] /\ put'["fuzzudp"] = put["fuzzudp"]
    BY <1>4 DEF Kinds
  <2>2. ASSUME NEW c \in Conns, c <= conns + 1  PROVE <<run, c, 0>> \in ToSet(put'["conn"])
    <3>1. c <= conns \/ c = conns + 1
      BY <1>1, <2>2 DEF Conns
    <3> QED BY <1>4, <3>1 DEF DbInv, QueuedInOrder, r
  <2>3. \A s : ConnRow(s)' = ConnRow(s)
    BY DEF ConnRow
  <2> QED BY <1>3, <1>4, <2>1, <2>2, <2>3 DEF DbInv, QueuedInOrder
<1>8. DrainedInOrder'
  BY <1>3, <1>4 DEF DbInv, DrainedInOrder, Kept, ConnRow
<1>9. FuzzExplained'
  BY <1>3 DEF DbInv, FuzzExplained
<1> QED BY <1>4, <1>5, <1>6, <1>7, <1>8, <1>9 DEF DbInv

\* A chunk or datagram that a producer works on has no row of its own yet, in any file,
\* in the transaction or in a queue.
LEMMA NotYetStored ==
    ASSUME DbInv, NEW p \in Producers, NEW k \in {"flow", "dgram"}
    PROVE  /\ Item(p) \notin ToSet(put[k])
           /\ \A f \in DOMAIN files : Item(p) \notin ToSet(files[f][k])
           /\ pc # "over" => Item(p) \notin Kept(k)
<1>1. /\ Item(p)[1] = run /\ Item(p)[2] = p /\ Item(p)[3] = next[p]
      /\ next[p] \in Nat /\ run \in Nat /\ k \in Kinds
  BY DEF Item, DbInv, DbTypes, Kinds, Runs
<1>2. Item(p) \notin ToSet(put[k])
  <2>1. CASE k = "flow"
    <3>1. \A r \in ToSet(put["flow"]) : r[3] < next[r[2]]
      BY DEF DbInv, QueuedInOrder
    <3> QED BY <1>1, <2>1, <3>1
  <2>2. CASE k = "dgram"
    <3>1. \A r \in ToSet(put["dgram"]) : r[2] = Udp /\ r[3] < next[Udp]
      BY DEF DbInv, QueuedInOrder
    <3> QED BY <1>1, <2>2, <3>1
  <2> QED BY <2>1, <2>2
<1>3. ASSUME NEW f \in DOMAIN files  PROVE Item(p) \notin ToSet(files[f][k])
  <2>1. CASE f # file
    <3>1. \A r \in ToSet(files[f][k]) : r[1] < run
      BY <1>1, <2>1 DEF DbInv, OwnRows
    <3> QED BY <1>1, <3>1
  <2>2. CASE f = file
    <3>1. durable = files[f]
      BY <2>2, NoFileAssumption DEF durable, DbInv, OwnFile
    <3> QED BY <1>1, <1>2, <3>1, WhereRowsAre
  <2> QED BY <2>1, <2>2
<1>4. pc # "over" => Item(p) \notin Kept(k)
  BY <1>1, <1>2, WhereRowsAre
<1> QED BY <1>2, <1>3, <1>4

\* processrules queues the row of a chunk that it fuzzed before the chunk is stored, or
\* remembers nothing of it.
LEMMA ProcessRulesKeeps ==
    ASSUME DbInv, NEW p \in Producers, ProcessRules(p)
    PROVE  DbInv'
<1> DEFINE r == Item(p)
<1> DEFINE k == IF p = Udp THEN "fuzzudp" ELSE "fuzztcp"
<1>1. /\ conns \in Nat /\ run \in Nat /\ next \in [Producers -> Nat] /\ next[p] \in Nat
      /\ stage \in [Producers -> {"rules", "store"}]
  BY DEF DbInv, DbTypes, Runs
<1>2. r \in Rows /\ r[1] = run /\ r[2] = p /\ k \in Kinds
  <2>1. p \in Nat
    BY BoundsAssumption DEF Producers, Conns, Udp
  <2> QED BY <1>1, <2>1 DEF Item, Rows, Kinds
<1>3. /\ UNCHANGED <<run, dbVars>>
      /\ pc' = pc /\ files' = files /\ file' = file /\ trans' = trans /\ run' = run
      /\ conns' = conns /\ next' = next
      /\ stage' = [stage EXCEPT ![p] = "store"]
  BY DEF ProcessRules, dbVars
<1>4. stage' \in [Producers -> {"rules", "store"}]
  BY <1>1, <1>3
<1>5. CASE UNCHANGED <<queue, put, fuzzed, overlooked>>
  <2>1. queue' = queue /\ put' = put /\ UNCHANGED <<fuzzed, overlooked>>
    BY <1>5
  <2>2. durable' = durable
    BY <1>3 DEF durable
  <2>3. DbTypes'
    BY <1>3, <1>4, <2>1 DEF DbInv, DbTypes
  <2>4. OwnFile' /\ FuzzExplained'
    BY <1>3, <2>1 DEF DbInv, OwnFile, FuzzExplained
  <2>5. Accounted'
    BY <1>3, <2>1, <2>2 DEF DbInv, Accounted
  <2>6. OwnRows'
    BY <1>3, <2>1 DEF DbInv, OwnRows
  <2>7. QueuedInOrder'
    BY <1>3, <2>1 DEF DbInv, QueuedInOrder, ConnRow
  <2>8. DrainedInOrder'
    BY <1>3, <2>1, <2>2 DEF DbInv, DrainedInOrder, Kept, ConnRow
  <2> QED BY <2>3, <2>4, <2>5, <2>6, <2>7, <2>8 DEF DbInv
<1>6. CASE Put(k, r) /\ fuzzed' = fuzzed \cup {r} /\ UNCHANGED overlooked
  <2>1. Put(k, r) /\ fuzzed' = fuzzed \cup {r} /\ overlooked' = overlooked
    BY <1>6
  <2>2. k = IF p = Udp THEN "fuzzudp" ELSE "fuzztcp"
    OBVIOUS
  <2>3. \A l \in {"flow", "dgram"} :
           /\ r \notin ToSet(put[l])
           /\ \A f \in DOMAIN files : r \notin ToSet(files[f][l])
           /\ pc # "over" => r \notin Kept(l)
    BY NotYetStored
  <2> HIDE DEF k, r
  <2>4. /\ queue' \in [Kinds -> Seq(Rows)] /\ put' \in [Kinds -> Seq(Rows)]
        /\ durable' = durable /\ OwnFile' /\ Accounted'
        /\ ToSet(put'[k]) = ToSet(put[k]) \cup {r}
        /\ \A l \in Kinds \ {k} : put'[l] = put[l]
        /\ \A l \in Kinds : \A s \in ToSet(put'[l]) : s[1] = run
    BY <1>2, <1>3, <2>1, Queued
  <2>5. DbTypes'
    BY <1>2, <1>3, <1>4, <2>1, <2>4 DEF DbInv, DbTypes
  <2>6. OwnRows'
    BY <1>1, <1>2, <1>3, <2>1, <2>4 DEF DbInv, OwnRows
  <2>7. QueuedInOrder'
    <3>1. put'["conn"] = put["conn"] /\ put'["flow"] = put["flow"] /\ put'["dgram"] = put["dgram"]
      BY <2>4, <2>2 DEF Kinds
    <3>2. ASSUME NEW s \in fuzzed', s[1] = run
          PROVE  \/ s \in overlooked /\ s[2] # Udp
                 \/ s \in ToSet(put'[IF s[2] = Udp THEN "fuzzudp" ELSE "fuzztcp"])
      <4>1. \A l \in Kinds : ToSet(put[l]) \subseteq ToSet(put'[l])
        BY <2>4
      <4>2. CASE s \in fuzzed
        <5>1. \/ s \in overlooked /\ s[2] # Udp
              \/ s \in ToSet(put[IF s[2] = Udp THEN "fuzzudp" ELSE "fuzztcp"])
          BY <3>2, <4>2 DEF DbInv, QueuedInOrder
        <5> QED BY <4>1, <5>1 DEF Kinds
      <4>3. CASE s = r
        BY <1>2, <2>4, <2>2, <4>3
      <4> QED BY <2>1, <4>2, <4>3
    <3>3. \A s : ConnRow(s)' = ConnRow(s)
      BY DEF ConnRow
    <3> QED BY <1>3, <2>1, <3>1, <3>2, <3>3 DEF DbInv, QueuedInOrder
  <2>8. DrainedInOrder'
    <3>1. \A l \in Kinds : Kept(l)' = Kept(l)
      BY <1>3, <2>4 DEF Kept
    <3>2. pc \in {"flow", "dgram", "fuzztcp", "fuzzudp", "commit"} =>
             \A s \in ToSet(durable["flow"]) : ConnRow(s) \in Kept("conn")
      BY DEF DbInv, DrainedInOrder
    <3>3. pc \in {"fuzzudp", "commit"} =>
             (Kept("flow") \cap (fuzzed \cup {r})) \ overlooked \subseteq Kept("fuzztcp")
      BY <2>3 DEF DbInv, DrainedInOrder
    <3>4. pc = "commit" => Kept("dgram") \cap (fuzzed \cup {r}) \subseteq Kept("fuzzudp")
      BY <2>3 DEF DbInv, DrainedInOrder
    <3> QED BY <1>3, <2>1, <2>4, <3>1, <3>2, <3>3, <3>4 DEF DrainedInOrder, Kinds, ConnRow
  <2>9. FuzzExplained'
    BY <1>3, <2>1, <2>3 DEF DbInv, FuzzExplained
  <2> QED BY <2>4, <2>5, <2>6, <2>7, <2>8, <2>9 DEF DbInv
<1>7. CASE /\ p # Udp /\ fuzzed' = fuzzed \cup {r} /\ overlooked' = overlooked \cup {r}
           /\ UNCHANGED <<queue, put>>
  <2>1. /\ p # Udp /\ fuzzed' = fuzzed \cup {r} /\ overlooked' = overlooked \cup {r}
        /\ queue' = queue /\ put' = put
    BY <1>7
  <2>2. \A l \in {"flow", "dgram"} :
           /\ \A f \in DOMAIN files : r \notin ToSet(files[f][l])
           /\ pc # "over" => r \notin Kept(l)
    BY NotYetStored
  <2> HIDE DEF k, r
  <2>3. durable' = durable
    BY <1>3 DEF durable
  <2>4. DbTypes'
    BY <1>2, <1>3, <1>4, <2>1 DEF DbInv, DbTypes
  <2>5. OwnFile' /\ Accounted'
    BY <1>3, <2>1, <2>3 DEF DbInv, OwnFile, Accounted
  <2>6. OwnRows'
    BY <1>1, <1>2, <1>3, <2>1 DEF DbInv, OwnRows
  <2>7. QueuedInOrder'
    BY <1>2, <1>3, <2>1 DEF DbInv, QueuedInOrder, ConnRow
  <2>8. DrainedInOrder'
    <3>1. \A l \in Kinds : Kept(l)' = Kept(l)
      BY <1>3, <2>3 DEF Kept
    <3>2. pc \in {"flow", "dgram", "fuzztcp", "fuzzudp", "commit"} =>
             \A s \in ToSet(durable["flow"]) : ConnRow(s) \in Kept("conn")
      BY DEF DbInv, DrainedInOrder
    <3>3. pc \in {"fuzzudp", "commit"} =>
             (Kept("flow") \cap fuzzed') \ overlooked' \subseteq Kept("fuzztcp")
      BY <2>1 DEF DbInv, DrainedInOrder
    <3>4. pc = "commit" => Kept("dgram") \cap fuzzed' \subseteq Kept("fuzzudp")
      BY <2>1, <2>2 DEF DbInv, DrainedInOrder
    <3> QED BY <1>3, <2>3, <3>1, <3>2, <3>3, <3>4 DEF DrainedInOrder, Kinds, ConnRow
  <2>9. FuzzExplained'
    BY <1>3, <2>1, <2>2 DEF DbInv, FuzzExplained
  <2> QED BY <2>4, <2>5, <2>6, <2>7, <2>8, <2>9 DEF DbInv
<1> QED BY <1>5, <1>6, <1>7 DEF ProcessRules

\* A pump queues the row of a chunk it has sent, the UDP thread that of a datagram.
LEMMA StoreKeeps ==
    ASSUME DbInv, NEW p \in Producers, Store(p)
    PROVE  DbInv'
<1> DEFINE r == Item(p)
<1> DEFINE k == IF p = Udp THEN "dgram" ELSE "flow"
<1>1. /\ conns \in Nat /\ run \in Nat /\ next \in [Producers -> Nat] /\ next[p] \in Nat
      /\ stage \in [Producers -> {"rules", "store"}]
  BY DEF DbInv, DbTypes, Runs
<1>2. r \in Rows /\ r = <<run, p, next[p]>> /\ k \in Kinds
  <2>1. p \in Nat
    BY BoundsAssumption DEF Producers, Conns, Udp
  <2> QED BY <1>1, <2>1 DEF Item, Rows, Kinds
<1>3. /\ Put(k, r) /\ UNCHANGED <<run, dbVars>>
      /\ pc' = pc /\ files' = files /\ file' = file /\ trans' = trans /\ run' = run
      /\ conns' = conns /\ UNCHANGED <<fuzzed, overlooked>>
      /\ next' = [next EXCEPT ![p] = @ + 1] /\ stage' = [stage EXCEPT ![p] = "rules"]
  BY DEF Store, dbVars
<1>4. p # Udp => p \in Conns /\ p <= conns
  BY DEF Store, Running, Producers
<1>5. k = IF p = Udp THEN "dgram" ELSE "flow"
  OBVIOUS
<1> HIDE DEF r, k
<1>6. /\ queue' \in [Kinds -> Seq(Rows)] /\ put' \in [Kinds -> Seq(Rows)]
      /\ durable' = durable /\ OwnFile' /\ Accounted'
      /\ ToSet(put'[k]) = ToSet(put[k]) \cup {r}
      /\ \A l \in Kinds \ {k} : put'[l] = put[l]
      /\ \A l \in Kinds : \A s \in ToSet(put'[l]) : s[1] = run
  <2>1. r[1] = run
    BY <1>2
  <2> QED BY <1>2, <1>3, <2>1, Queued
<1>7. next' \in [Producers -> Nat] /\ next'[p] = next[p] + 1
      /\ \A q \in Producers \ {p} : next'[q] = next[q]
  BY <1>1, <1>3
<1>8. DbTypes'
  <2>1. stage' \in [Producers -> {"rules", "store"}]
    BY <1>1, <1>3
  <2> QED BY <1>3, <1>6, <1>7, <2>1 DEF DbInv, DbTypes
<1>9. OwnRows'
  BY <1>3, <1>6 DEF DbInv, OwnRows
<1>10. QueuedInOrder'
  <2>1. \A s : ConnRow(s)' = ConnRow(s)
    BY DEF ConnRow
  <2>2. /\ put'["conn"] = put["conn"] /\ put'["fuzztcp"] = put["fuzztcp"]
        /\ put'["fuzzudp"] = put["fuzzudp"]
    BY <1>5, <1>6 DEF Kinds
  <2>3. ASSUME NEW s \in ToSet(put'["flow"])
        PROVE  s[2] \in Conns /\ s[3] < next'[s[2]] /\ ConnRow(s) \in ToSet(put["conn"])
    <3>1. CASE s \in ToSet(put["flow"])
      <4>1. s[2] \in Conns /\ s[3] < next[s[2]] /\ ConnRow(s) \in ToSet(put["conn"])
        BY <3>1 DEF DbInv, QueuedInOrder
      <4>2. s[2] \in Producers /\ next[s[2]] \in Nat
        BY <1>1, <4>1 DEF Producers
      <4>3. s \in Rows
        <5>1. put["flow"] \in Seq(Rows)
          BY DEF DbInv, DbTypes, Kinds
        <5> QED BY <3>1, <5>1 DEF ToSet
      <4>4. s[3] \in Nat
        BY <4>3 DEF Rows
      <4>5. s[3] < next'[s[2]]
        BY <1>1, <1>7, <4>1, <4>2, <4>4
      <4> QED BY <4>1, <4>5
    <3>2. CASE s \notin ToSet(put["flow"])
      <4>1. s = r /\ p # Udp
        BY <1>5, <1>6, <2>3, <3>2 DEF Kinds
      <4>2. s[2] = p /\ s[3] = next[p] /\ ConnRow(s) = <<run, p, 0>>
        BY <1>2, <4>1 DEF ConnRow
      <4>3. <<run, p, 0>> \in ToSet(put["conn"])
        BY <1>4, <4>1 DEF DbInv, QueuedInOrder
      <4> QED BY <1>1, <1>4, <1>7, <4>1, <4>2, <4>3
    <3> QED BY <3>1, <3>2
  <2>4. ASSUME NEW s \in ToSet(put'["dgram"])
        PROVE  s[2] = Udp /\ s[3] < next'[Udp]
    <3>1. CASE s \in ToSet(put["dgram"])
      <4>1. s[2] = Udp /\ s[3] < next[Udp]
        BY <3>1 DEF DbInv, QueuedInOrder
      <4>2. Udp \in Producers /\ next[Udp] \in Nat
        BY <1>1 DEF Producers
      <4>3. s \in Rows
        <5>1. put["dgram"] \in Seq(Rows)
          BY DEF DbInv, DbTypes, Kinds
        <5> QED BY <3>1, <5>1 DEF ToSet
      <4>4. s[3] \in Nat
        BY <4>3 DEF Rows
      <4>5. s[3] < next'[Udp]
        BY <1>1, <1>7, <4>1, <4>2, <4>4
      <4> QED BY <4>1, <4>5
    <3>2. CASE s \notin ToSet(put["dgram"])
      <4>1. s = r /\ p = Udp
        BY <1>5, <1>6, <2>4, <3>2 DEF Kinds
      <4>2. s[2] = p /\ s[3] = next[p]
        BY <1>2, <4>1
      <4> QED BY <1>1, <1>7, <4>1, <4>2
    <3> QED BY <3>1, <3>2
  <2> QED BY <1>3, <2>1, <2>2, <2>3, <2>4 DEF DbInv, QueuedInOrder
<1>11. DrainedInOrder'
  BY <1>3, <1>6 DEF DbInv, DrainedInOrder, Kept, ConnRow
<1>12. FuzzExplained'
  BY <1>3 DEF DbInv, FuzzExplained
<1> QED BY <1>6, <1>8, <1>9, <1>10, <1>11, <1>12 DEF DbInv

-----------------------------------------------------------------------------
(* The traffic database: fillDB. *)

\* Within a run, as long as no row is queued, what was said of the order of the queues
\* remains true.
LEMMA NothingQueued ==
    ASSUME DbInv, UNCHANGED <<run, put, prodVars>>
    PROVE  /\ QueuedInOrder'
           /\ \A k \in Kinds : \A r \in ToSet(put'[k]) : r[1] = run'
           /\ \A r \in fuzzed' : r[1] <= run'
           /\ run' \in Runs /\ put' \in [Kinds -> Seq(Rows)] /\ conns' \in Nat
           /\ next' \in [Producers -> Nat] /\ stage' \in [Producers -> {"rules", "store"}]
           /\ fuzzed' \in SUBSET Rows
<1>1. /\ run' = run /\ put' = put /\ conns' = conns /\ next' = next /\ stage' = stage
      /\ UNCHANGED <<fuzzed, overlooked>>
  BY DEF prodVars
<1>2. QueuedInOrder'
  BY <1>1 DEF DbInv, QueuedInOrder, ConnRow
<1> QED BY <1>1, <1>2 DEF DbInv, DbTypes, OwnRows

\* The file is made, under a name of its own, and is empty.
LEMMA Made ==
    ASSUME DbInv, pc = "open", MakeFile(DbName)
    PROVE  /\ DbName \in Files /\ DbName <= run /\ DbName \notin DOMAIN files
           /\ DbName # NoFile
           /\ DOMAIN files' = DOMAIN files \cup {DbName} /\ files'[DbName] = NoRows
           /\ \A g \in DOMAIN files : files'[g] = files[g]
           /\ \A g \in DOMAIN files' : files'[g] \in [Kinds -> Seq(Rows)]
<1>1. run \in Nat /\ run \in Files /\ FirstFile \in Files /\ FirstFile <= run
  BY BoundsAssumption DEF DbInv, DbTypes, Runs, Files, FirstFile
<1>2. run \notin DOMAIN files
  BY <1>1 DEF DbInv, OwnFile
<1>3. DbName \in Files /\ DbName <= run /\ DbName \notin DOMAIN files
  BY <1>1, <1>2 DEF DbName
<1>4. DbName # NoFile
  BY <1>3, NoFileAssumption
<1>5. /\ DOMAIN files' = DOMAIN files \cup {DbName} /\ files'[DbName] = NoRows
      /\ \A g \in DOMAIN files : files'[g] = files[g]
  BY <1>3 DEF MakeFile
<1>6. NoRows \in [Kinds -> Seq(Rows)]
  BY DEF NoRows
<1>7. \A g \in DOMAIN files' : files'[g] \in [Kinds -> Seq(Rows)]
  BY <1>5, <1>6 DEF DbInv, DbTypes
<1> QED BY <1>3, <1>4, <1>5, <1>7

\* The thread has a file, or has failed to make it and ends.
LEMMA OpenKeeps ==
    ASSUME DbInv, Open \/ OpenFails
    PROVE  DbInv' /\ durable' = durable
<1>1. /\ UNCHANGED <<run, put, prodVars>> /\ run' = run /\ put' = put
      /\ UNCHANGED <<fuzzed, overlooked>> /\ queue' = queue /\ trans' = trans
      /\ pc = "open"
      /\ \/ file' = DbName /\ pc' = "sleep"
         \/ file' = file /\ pc' = "over"
  BY DEF Open, OpenFails, prodVars
<1>2. file = NoFile /\ durable = NoRows
  BY <1>1 DEF DbInv, OwnFile, durable
<1>3. \/ files' = files /\ pc' = "over" /\ file' = file
      \/ MakeFile(DbName)
  BY DEF Open, OpenFails
<1>4. /\ QueuedInOrder' /\ run' \in Runs /\ put' \in [Kinds -> Seq(Rows)] /\ conns' \in Nat
      /\ next' \in [Producers -> Nat] /\ stage' \in [Producers -> {"rules", "store"}]
      /\ fuzzed' \in SUBSET Rows
  BY <1>1, NothingQueued
<1>5. \A k \in Kinds : NoRows[k] = <<>> /\ ToSet(NoRows[k]) = {}
  BY SetOfNone DEF NoRows
<1>6. NoFile \notin DOMAIN files
  BY NoFileAssumption DEF DbInv, OwnFile
<1>7. durable' = durable /\ DbTypes' /\ OwnFile' /\ OwnRows' /\ FuzzExplained'
  <2>1. CASE files' = files /\ pc' = "over" /\ file' = file
    <3>1. durable' = durable
      BY <2>1 DEF durable
    <3>2. DbTypes' /\ OwnFile'
      BY <1>1, <1>4, <2>1 DEF DbInv, DbTypes, OwnFile
    <3>3. OwnRows' /\ FuzzExplained'
      BY <1>1, <2>1 DEF DbInv, OwnRows, FuzzExplained
    <3> QED BY <3>1, <3>2, <3>3
  <2>2. CASE MakeFile(DbName)
    <3>1. /\ DbName \in Files /\ DbName <= run /\ DbName \notin DOMAIN files
          /\ DbName # NoFile
          /\ DOMAIN files' = DOMAIN files \cup {DbName} /\ files'[DbName] = NoRows
          /\ \A g \in DOMAIN files : files'[g] = files[g]
          /\ \A g \in DOMAIN files' : files'[g] \in [Kinds -> Seq(Rows)]
      BY <1>1, <2>2, Made
    <3>2. file' = DbName \/ file' = NoFile
      BY <1>1, <1>2
    <3>3. durable' = durable
      BY <1>2, <3>1, <3>2 DEF durable
    <3>4. DbTypes'
      BY <1>1, <1>4, <3>1 DEF DbInv, DbTypes
    <3>5. OwnFile'
      BY <1>1, <1>2, <3>1 DEF DbInv, OwnFile
    <3>6. OwnRows'
      <4>1. ASSUME NEW g \in DOMAIN files' \ {file'}, NEW k \in Kinds,
                   NEW x \in ToSet(files'[g][k])
            PROVE  x[1] < run
        <5>1. g \in DOMAIN files
          BY <1>5, <3>1, <4>1
        <5> QED BY <1>2, <1>6, <3>1, <4>1, <5>1 DEF DbInv, OwnRows
      <4> QED BY <1>1, <4>1 DEF DbInv, OwnRows
    <3>7. FuzzExplained'
      <4>1. ToSet(NoRows["flow"]) = {} /\ ToSet(NoRows["dgram"]) = {}
        BY <1>5 DEF Kinds
      <4> QED BY <1>1, <3>1, <4>1 DEF DbInv, FuzzExplained
    <3> QED BY <3>3, <3>4, <3>5, <3>6, <3>7
  <2> QED BY <1>3, <2>1, <2>2
<1>8. Accounted'
  BY <1>1, <1>7 DEF DbInv, Accounted
<1>9. DrainedInOrder'
  BY <1>1 DEF DrainedInOrder
<1> QED BY <1>4, <1>7, <1>8, <1>9 DEF DbInv

\* fillDB does something within a round: the files remain as they are.
LEMMA WithinRound ==
    ASSUME DbInv, UNCHANGED <<run, put, files, file, prodVars>>
    PROVE  /\ durable' = durable
           /\ OwnRows' /\ QueuedInOrder' /\ FuzzExplained'
           /\ queue' \in [Kinds -> Seq(Rows)] /\ trans' \in [Kinds -> Seq(Rows)]
              /\ pc' \in Kinds \cup {"open", "sleep", "commit", "over"} => DbTypes'
           /\ pc # "open" /\ pc' # "open" /\ (pc = "over" => pc' = "over") => OwnFile'
<1>1. /\ UNCHANGED <<run, put, prodVars>> /\ run' = run /\ put' = put /\ files' = files
      /\ file' = file /\ UNCHANGED <<fuzzed, overlooked>>
  BY DEF prodVars
<1>2. /\ QueuedInOrder'
      /\ \A k \in Kinds : \A r \in ToSet(put'[k]) : r[1] = run'
      /\ \A r \in fuzzed' : r[1] <= run'
      /\ run' \in Runs /\ put' \in [Kinds -> Seq(Rows)] /\ conns' \in Nat
      /\ next' \in [Producers -> Nat] /\ stage' \in [Producers -> {"rules", "store"}]
      /\ fuzzed' \in SUBSET Rows
  BY <1>1, NothingQueued
<1>3. durable' = durable
  BY <1>1 DEF durable
<1>4. OwnRows' /\ FuzzExplained'
  BY <1>1, <1>2 DEF DbInv, OwnRows, FuzzExplained
<1>5. ASSUME queue' \in [Kinds -> Seq(Rows)], trans' \in [Kinds -> Seq(Rows)],
             pc' \in Kinds \cup {"open", "sleep", "commit", "over"}
      PROVE  DbTypes'
  BY <1>1, <1>2, <1>5 DEF DbInv, DbTypes
<1>6. ASSUME pc # "open", pc' # "open", pc = "over" => pc' = "over"
      PROVE  OwnFile'
  BY <1>1, <1>6 DEF DbInv, OwnFile
<1> QED BY <1>2, <1>3, <1>4, <1>5, <1>6

\* The first queue is taken up, and nothing has been drained.
LEMMA WakeKeeps ==
    ASSUME DbInv, Wake
    PROVE  DbInv' /\ durable' = durable
<1>1. /\ UNCHANGED <<run, put, files, file, prodVars>> /\ run' = run /\ put' = put
      /\ queue' = queue /\ trans' = trans /\ pc = "sleep" /\ pc' = "conn"
  BY DEF Wake, Order
<1>2. DbTypes' /\ OwnFile' /\ durable' = durable /\ OwnRows' /\ QueuedInOrder' /\ FuzzExplained'
  <2>1. /\ queue' \in [Kinds -> Seq(Rows)] /\ trans' \in [Kinds -> Seq(Rows)]
        /\ pc' \in Kinds \cup {"open", "sleep", "commit", "over"}
    BY <1>1 DEF DbInv, DbTypes, Kinds
  <2> QED BY <1>1, <2>1, WithinRound
<1>3. Accounted'
  BY <1>1, <1>2 DEF DbInv, Accounted
<1>4. DrainedInOrder'
  BY <1>1 DEF DrainedInOrder
<1> QED BY <1>2, <1>3, <1>4 DEF DbInv

\* The row at the head of a queue goes into the transaction, behind those before it.
LEMMA InsertKeeps ==
    ASSUME DbInv, NEW k \in Kinds, Insert(k)
    PROVE  DbInv' /\ durable' = durable
<1>1. /\ UNCHANGED <<run, put, files, file, prodVars>>
      /\ run' = run /\ put' = put /\ pc' = pc /\ pc = k /\ queue[k] # <<>>
      /\ UNCHANGED <<fuzzed, overlooked>>
      /\ queue' = [queue EXCEPT ![k] = Tail(@)]
      /\ trans' = [trans EXCEPT ![k] = Append(@, Head(queue[k]))]
  BY DEF Insert, prodVars
<1>2. /\ queue \in [Kinds -> Seq(Rows)] /\ trans \in [Kinds -> Seq(Rows)]
      /\ durable \in [Kinds -> Seq(Rows)] /\ put \in [Kinds -> Seq(Rows)]
  BY DurableRows DEF DbInv, DbTypes
<1>3. Head(queue[k]) \in Rows /\ Tail(queue[k]) \in Seq(Rows) /\ queue[k] \in Seq(Rows)
  BY <1>1, <1>2
<1>4. queue' \in [Kinds -> Seq(Rows)] /\ queue'[k] = Tail(queue[k])
      /\ \A l \in Kinds \ {k} : queue'[l] = queue[l]
  BY <1>1, <1>2, <1>3
<1>5. trans' \in [Kinds -> Seq(Rows)] /\ trans'[k] = Append(trans[k], Head(queue[k]))
      /\ \A l \in Kinds \ {k} : trans'[l] = trans[l]
  <2>1. trans[k] \in Seq(Rows)
    BY <1>2
  <2>2. Append(trans[k], Head(queue[k])) \in Seq(Rows)
    BY <1>3, <2>1
  <2> QED BY <1>1, <1>2, <2>2
<1>6. pc \notin {"open", "over", "sleep", "commit"}
  BY <1>1 DEF Kinds
<1>7. DbTypes' /\ OwnFile' /\ durable' = durable /\ OwnRows' /\ QueuedInOrder' /\ FuzzExplained'
  <2>1. pc' \in Kinds \cup {"open", "sleep", "commit", "over"}
    BY <1>1
  <2> QED BY <1>1, <1>4, <1>5, <1>6, <2>1, WithinRound
<1>8. Accounted'
  <2> SUFFICES ASSUME NEW l \in Kinds
               PROVE  /\ IsPrefix(durable[l], put[l])
                      /\ put[l] = durable[l] \o trans'[l] \o queue'[l]
    BY <1>1, <1>7 DEF Accounted
  <2>1. /\ IsPrefix(durable[l], put[l])
        /\ put[l] = durable[l] \o trans[l] \o queue[l]
    BY <1>6 DEF DbInv, Accounted
  <2>2. CASE l # k
    BY <1>4, <1>5, <2>1, <2>2
  <2>3. CASE l = k
    <3> DEFINE d == durable[l]
    <3> DEFINE s == trans[l]
    <3> DEFINE q == queue[l]
    <3>1. d \in Seq(Rows) /\ s \in Seq(Rows) /\ q \in Seq(Rows) /\ q # <<>>
      BY <1>1, <1>2, <2>3
    <3>2. put[l] = d \o s \o q
      BY <2>1
    <3>3. trans'[l] = Append(s, Head(q)) /\ queue'[l] = Tail(q)
      BY <1>4, <1>5, <2>3
    <3> HIDE DEF d, s, q
    <3>4. d \o Append(s, Head(q)) \o Tail(q) = d \o s \o q
      <4>1. /\ Append(s, Head(q)) = s \o <<Head(q)>> /\ Tail(q) \in Seq(Rows)
            /\ <<Head(q)>> \in Seq(Rows) /\ <<Head(q)>> \o Tail(q) = q
        BY <3>1
      <4> QED BY <3>1, <4>1
    <3>5. put[l] = d \o trans'[l] \o queue'[l]
      BY <3>2, <3>3, <3>4
    <3> QED BY <2>1, <3>5 DEF d
  <2> QED BY <2>2, <2>3
<1>9. \A l \in Kinds : Kept(l) \subseteq Kept(l)' /\ (l # k => Kept(l)' = Kept(l))
  <2>1. ToSet(trans'[k]) = ToSet(trans[k]) \cup {Head(queue[k])}
    <3>1. trans[k] \in Seq(Rows)
      BY <1>2
    <3> QED BY <1>3, <1>5, <3>1, SetOfAppend
  <2> QED BY <1>5, <1>7, <2>1 DEF Kept
<1>10. DrainedInOrder'
  <2>1. "conn" \in Kinds /\ "flow" \in Kinds /\ "dgram" \in Kinds /\ "fuzztcp" \in Kinds
        /\ "fuzzudp" \in Kinds
    BY DEF Kinds
  <2>2. ASSUME pc \in {"flow", "dgram", "fuzztcp", "fuzzudp"}
        PROVE  \A r \in ToSet(durable'["flow"]) : ConnRow(r)' \in Kept("conn")'
    BY <1>7, <1>9, <2>1, <2>2 DEF DbInv, DrainedInOrder, ConnRow
  <2>3. ASSUME pc = "fuzzudp"
        PROVE  (Kept("flow")' \cap fuzzed') \ overlooked' \subseteq Kept("fuzztcp")'
    BY <1>1, <1>9, <2>1, <2>3 DEF DbInv, DrainedInOrder
  <2> QED BY <1>1, <1>6, <2>2, <2>3 DEF DrainedInOrder
<1> QED BY <1>7, <1>8, <1>10 DEF DbInv

\* The order in which fillDB drains the queues.
LEMMA AfterIs ==
    /\ After("conn") = "flow" /\ After("flow") = "dgram" /\ After("dgram") = "fuzztcp"
    /\ After("fuzztcp") = "fuzzudp" /\ After("fuzzudp") = "commit"
<1>1. ASSUME NEW i \in 1 .. 5
      PROVE  After(Order[i]) = IF i = 5 THEN "commit" ELSE Order[i + 1]
  <2>1. \A j \in 1 .. 5 : Order[j] = Order[i] => j = i
    BY DEF Order
  <2>2. (CHOOSE j \in 1 .. 5 : Order[j] = Order[i]) = i
    BY <2>1
  <2> QED BY <2>2 DEF After
<1>2. /\ Order[1] = "conn" /\ Order[2] = "flow" /\ Order[3] = "dgram"
      /\ Order[4] = "fuzztcp" /\ Order[5] = "fuzzudp"
  BY DEF Order
<1>3. /\ After(Order[1]) = Order[2] /\ After(Order[2]) = Order[3] /\ After(Order[3]) = Order[4]
      /\ After(Order[4]) = Order[5] /\ After(Order[5]) = "commit"
  BY <1>1
<1> QED BY <1>2, <1>3

\* A queue that is empty has brought all that was queued before it was drained: the
\* connections of chunks in the file, and the explanations of chunks in the transaction.
LEMMA DrainedKeeps ==
    ASSUME DbInv, NEW k \in Kinds, Drained(k)
    PROVE  DbInv' /\ durable' = durable
<1>1. /\ UNCHANGED <<run, put, files, file, prodVars>> /\ run' = run /\ put' = put
      /\ queue' = queue /\ trans' = trans /\ UNCHANGED <<fuzzed, overlooked>>
      /\ pc = k /\ pc' = After(k) /\ queue[k] = <<>>
  BY DEF Drained, prodVars
<1>2. /\ pc \in Kinds /\ pc # "over" /\ pc # "open"
      /\ pc' \in {"flow", "dgram", "fuzztcp", "fuzzudp", "commit"}
      /\ pc' = "flow" => k = "conn"
      /\ pc' = "dgram" => k = "flow"
      /\ pc' = "fuzztcp" => k = "dgram"
      /\ pc' = "fuzzudp" => k = "fuzztcp"
      /\ pc' = "commit" => k = "fuzzudp"
  BY <1>1, AfterIs DEF Kinds
<1>3. DbTypes' /\ OwnFile' /\ durable' = durable /\ OwnRows' /\ QueuedInOrder' /\ FuzzExplained'
  <2>1. /\ queue' \in [Kinds -> Seq(Rows)] /\ trans' \in [Kinds -> Seq(Rows)]
        /\ pc' \in Kinds \cup {"open", "sleep", "commit", "over"}
        /\ pc' # "open"
    BY <1>1, <1>2 DEF DbInv, DbTypes, Kinds
  <2> QED BY <1>1, <1>2, <2>1, WithinRound
<1>4. Accounted'
  BY <1>1, <1>2, <1>3 DEF DbInv, Accounted
<1>5. ToSet(put[k]) = Kept(k) /\ \A l \in Kinds : Kept(l) \subseteq ToSet(put[l])
  BY <1>1, <1>2, SetOfNone, WhereRowsAre
<1>6. \A l \in Kinds : Kept(l)' = Kept(l)
  BY <1>1, <1>3 DEF Kept
<1>7. "conn" \in Kinds /\ "flow" \in Kinds /\ "dgram" \in Kinds /\ "fuzztcp" \in Kinds
      /\ "fuzzudp" \in Kinds
  BY DEF Kinds
<1>8. \A r \in ToSet(durable["flow"]) : ConnRow(r) \in Kept("conn")
  <2>1. CASE k = "conn"
    <3>1. ToSet(durable["flow"]) \subseteq ToSet(put["flow"])
      BY <1>7, WhereRowsAre
    <3> QED BY <1>5, <2>1, <3>1 DEF DbInv, QueuedInOrder
  <2>2. CASE k # "conn"
    BY <1>1, <2>2 DEF DbInv, DrainedInOrder, Kinds
  <2> QED BY <2>1, <2>2
<1>9. \A r \in fuzzed : r[1] = run =>
         \/ r \in overlooked /\ r[2] # Udp
         \/ r \in ToSet(put[IF r[2] = Udp THEN "fuzzudp" ELSE "fuzztcp"])
  BY DEF DbInv, QueuedInOrder
<1>10. k \in {"fuzztcp", "fuzzudp"} =>
          (Kept("flow") \cap fuzzed) \ overlooked \subseteq Kept("fuzztcp")
  <2>1. CASE k = "fuzztcp"
    <3> SUFFICES ASSUME NEW r \in (Kept("flow") \cap fuzzed) \ overlooked
                 PROVE  r \in Kept("fuzztcp")
      BY DEF Kept
    <3>1. r \in ToSet(put["flow"])
      BY <1>5, <1>7
    <3>2. r[1] = run /\ r[2] # Udp
      BY <1>7, <3>1 DEF DbInv, OwnRows, QueuedInOrder, Conns, Udp
    <3> QED BY <1>5, <1>9, <2>1, <3>2
  <2>2. CASE k = "fuzzudp"
    BY <1>1, <2>2 DEF DbInv, DrainedInOrder
  <2> QED BY <2>1, <2>2
<1>11. k = "fuzzudp" => Kept("dgram") \cap fuzzed \subseteq Kept("fuzzudp")
  <2> SUFFICES ASSUME k = "fuzzudp", NEW r \in Kept("dgram") \cap fuzzed
               PROVE  r \in Kept("fuzzudp")
    BY DEF Kept
  <2>1. r \in ToSet(put["dgram"])
    BY <1>5, <1>7
  <2>2. r[1] = run /\ r[2] = Udp
    BY <1>7, <2>1 DEF DbInv, OwnRows, QueuedInOrder
  <2> QED BY <1>5, <1>9, <2>2
<1>12. DrainedInOrder'
  <2>1. \A r \in ToSet(durable'["flow"]) : ConnRow(r)' \in Kept("conn")'
    BY <1>3, <1>6, <1>7, <1>8 DEF ConnRow
  <2>2. pc' \in {"fuzzudp", "commit"} =>
           (Kept("flow")' \cap fuzzed') \ overlooked' \subseteq Kept("fuzztcp")'
    BY <1>1, <1>2, <1>6, <1>7, <1>10
  <2>3. pc' = "commit" => Kept("dgram")' \cap fuzzed' \subseteq Kept("fuzzudp")'
    BY <1>1, <1>2, <1>6, <1>7, <1>11
  <2> QED BY <2>1, <2>2, <2>3 DEF DrainedInOrder
<1> QED BY <1>3, <1>4, <1>12 DEF DbInv

\* What a commit does to the file of this run, and to no other.
LEMMA Committed ==
    ASSUME DbInv, Commit
    PROVE  /\ durable' = [k \in Kinds |-> durable[k] \o trans[k]]
           /\ \A k \in Kinds : ToSet(durable'[k]) = Kept(k)
           /\ \A k \in Kinds : IsPrefix(durable[k], durable'[k]) /\ IsPrefix(durable'[k], put[k])
           /\ file \in DOMAIN files /\ file' = file /\ DOMAIN files' = DOMAIN files
           /\ durable = files[file] /\ durable' = files'[file]
           /\ \A f \in DOMAIN files \ {file} : files'[f] = files[f]
<1>1. /\ pc = "commit" /\ file' = file /\ put' = put
      /\ files' = [files EXCEPT ![file] = [k \in Kinds |-> @[k] \o trans[k]]]
  BY DEF Commit
<1>2. file # NoFile /\ file \in DOMAIN files
  BY <1>1 DEF DbInv, OwnFile
<1>3. durable = files[file] /\ durable' = files'[file]
  BY <1>1, <1>2 DEF durable
<1>4. /\ DOMAIN files' = DOMAIN files
      /\ files'[file] = [k \in Kinds |-> files[file][k] \o trans[k]]
      /\ \A f \in DOMAIN files \ {file} : files'[f] = files[f]
  BY <1>1, <1>2
<1>5. durable' = [k \in Kinds |-> durable[k] \o trans[k]]
  BY <1>3, <1>4
<1>6. ASSUME NEW k \in Kinds
      PROVE  /\ ToSet(durable'[k]) = Kept(k)
             /\ IsPrefix(durable[k], durable'[k]) /\ IsPrefix(durable'[k], put[k])
  <2>1. durable'[k] = durable[k] \o trans[k]
    BY <1>5
  <2>2. /\ durable[k] \in Seq(Rows) /\ trans[k] \in Seq(Rows) /\ queue[k] \in Seq(Rows)
        /\ durable[k] \o trans[k] \in Seq(Rows)
    <3>1. durable[k] \in Seq(Rows) /\ trans[k] \in Seq(Rows) /\ queue[k] \in Seq(Rows)
      BY DurableRows DEF DbInv, DbTypes
    <3> QED BY <3>1
  <2>3. put[k] = (durable[k] \o trans[k]) \o queue[k]
    BY <1>1 DEF DbInv, Accounted
  <2>4. ToSet(durable[k] \o trans[k]) = Kept(k)
    BY <2>2, SetOfConcat DEF Kept
  <2>5. IsPrefix(durable[k], durable[k] \o trans[k])
    BY <2>2, PrefixOfConcat
  <2>6. IsPrefix(durable[k] \o trans[k], (durable[k] \o trans[k]) \o queue[k])
    BY <2>2, PrefixOfConcat
  <2> QED BY <2>1, <2>3, <2>4, <2>5, <2>6
<1> QED BY <1>1, <1>2, <1>3, <1>4, <1>5, <1>6

\* A commit brings to the file what the rows in it, and the rows it brings, refer to.
LEMMA CommitKeeps ==
    ASSUME DbInv, Commit
    PROVE  DbInv'
<1>1. /\ UNCHANGED <<run, put, prodVars>> /\ run' = run /\ put' = put
      /\ UNCHANGED <<fuzzed, overlooked>>
      /\ queue' = queue /\ pc = "commit" /\ pc' = "sleep" /\ trans' = NoRows
  BY DEF Commit, prodVars
<1>2. /\ durable' = [k \in Kinds |-> durable[k] \o trans[k]]
      /\ \A k \in Kinds : ToSet(durable'[k]) = Kept(k)
      /\ \A k \in Kinds : IsPrefix(durable[k], durable'[k]) /\ IsPrefix(durable'[k], put[k])
      /\ file \in DOMAIN files /\ file' = file /\ DOMAIN files' = DOMAIN files
      /\ durable = files[file] /\ durable' = files'[file]
      /\ \A f \in DOMAIN files \ {file} : files'[f] = files[f]
  BY Committed
<1>3. /\ QueuedInOrder'
      /\ \A k \in Kinds : \A r \in ToSet(put'[k]) : r[1] = run'
      /\ \A r \in fuzzed' : r[1] <= run'
      /\ run' \in Runs /\ put' \in [Kinds -> Seq(Rows)] /\ conns' \in Nat
      /\ next' \in [Producers -> Nat] /\ stage' \in [Producers -> {"rules", "store"}]
      /\ fuzzed' \in SUBSET Rows
  BY <1>1, NothingQueued
<1>4. durable' \in [Kinds -> Seq(Rows)]
  <2>1. /\ durable \in [Kinds -> Seq(Rows)] /\ trans \in [Kinds -> Seq(Rows)]
    BY DurableRows DEF DbInv, DbTypes
  <2>2. \A k \in Kinds : durable[k] \o trans[k] \in Seq(Rows)
    BY <2>1
  <2> QED BY <1>2, <2>2
<1>5. DbTypes'
  <2>1. NoRows \in [Kinds -> Seq(Rows)]
    BY DEF NoRows
  <2>2. \A f \in DOMAIN files' : files'[f] \in [Kinds -> Seq(Rows)]
    BY <1>2, <1>4 DEF DbInv, DbTypes
  <2> QED BY <1>1, <1>3, <2>1, <2>2 DEF DbInv, DbTypes
<1>6. OwnFile'
  BY <1>1, <1>2 DEF DbInv, OwnFile
<1>7. Accounted'
  <2> SUFFICES ASSUME NEW k \in Kinds
               PROVE  put[k] = durable'[k] \o NoRows[k] \o queue[k]
    BY <1>1, <1>2 DEF Accounted
  <2>1. durable'[k] = durable[k] \o trans[k] /\ durable'[k] \in Seq(Rows) /\ NoRows[k] = <<>>
    BY <1>2, <1>4 DEF NoRows
  <2>2. put[k] = (durable[k] \o trans[k]) \o queue[k]
    BY <1>1 DEF DbInv, Accounted
  <2>3. durable'[k] \o <<>> = durable'[k]
    BY <2>1
  <2> QED BY <2>1, <2>2, <2>3
<1>8. OwnRows'
  BY <1>1, <1>2, <1>3 DEF DbInv, OwnRows
<1>9. DrainedInOrder'
  BY <1>1 DEF DrainedInOrder
<1>10. FuzzExplained'
  <2>1. "flow" \in Kinds /\ "dgram" \in Kinds /\ "fuzztcp" \in Kinds /\ "fuzzudp" \in Kinds
    BY DEF Kinds
  <2> SUFFICES ASSUME NEW f \in DOMAIN files
        PROVE  /\ (ToSet(files'[f]["flow"]) \cap fuzzed) \ overlooked
                     \subseteq ToSet(files'[f]["fuzztcp"])
               /\ ToSet(files'[f]["dgram"]) \cap fuzzed \subseteq ToSet(files'[f]["fuzzudp"])
    BY <1>1, <1>2 DEF FuzzExplained
  <2>2. CASE f = file
    <3>1. /\ (Kept("flow") \cap fuzzed) \ overlooked \subseteq Kept("fuzztcp")
          /\ Kept("dgram") \cap fuzzed \subseteq Kept("fuzzudp")
      BY <1>1 DEF DbInv, DrainedInOrder
    <3>2. /\ ToSet(files'[f]["flow"]) = Kept("flow")
          /\ ToSet(files'[f]["dgram"]) = Kept("dgram")
          /\ ToSet(files'[f]["fuzztcp"]) = Kept("fuzztcp")
          /\ ToSet(files'[f]["fuzzudp"]) = Kept("fuzzudp")
      BY <1>2, <2>1, <2>2
    <3> HIDE DEF Kept
    <3> QED BY <3>1, <3>2
  <2>3. CASE f # file
    BY <1>2, <2>3 DEF DbInv, FuzzExplained
  <2> QED BY <2>2, <2>3
<1> QED BY <1>3, <1>5, <1>6, <1>7, <1>8, <1>9, <1>10 DEF DbInv

\* The thread ends: what it had taken from the queues is lost, the file stays as it is.
LEMMA FailsKeep ==
    ASSUME DbInv, Fails, ~OpenFails
    PROVE  DbInv' /\ durable' = durable
<1>1. /\ UNCHANGED <<run, put, files, file, prodVars>> /\ run' = run /\ put' = put
      /\ pc' = "over" /\ files' = files /\ file' = file /\ UNCHANGED <<fuzzed, overlooked>>
  BY DEF Fails, MkdirFails, InsertFails, CommitFails, prodVars
<1>2. queue' \in [Kinds -> Seq(Rows)] /\ trans' \in [Kinds -> Seq(Rows)]
  <2>1. /\ queue \in [Kinds -> Seq(Rows)] /\ trans \in [Kinds -> Seq(Rows)]
        /\ NoRows \in [Kinds -> Seq(Rows)]
    BY DEF DbInv, DbTypes, NoRows
  <2>2. ASSUME NEW k \in Kinds, InsertFails(k)
        PROVE  queue' \in [Kinds -> Seq(Rows)] /\ trans' \in [Kinds -> Seq(Rows)]
    <3>1. queue[k] # <<>> /\ queue' = [queue EXCEPT ![k] = Tail(@)] /\ trans' = NoRows
      BY <2>2 DEF InsertFails
    <3>2. Tail(queue[k]) \in Seq(Rows)
      BY <2>1, <3>1
    <3> QED BY <2>1, <3>1, <3>2
  <2>3. CASE MkdirFails \/ CommitFails
    BY <2>1, <2>3 DEF MkdirFails, CommitFails
  <2> QED BY <2>2, <2>3 DEF Fails
<1>3. /\ durable' = durable /\ DbTypes' /\ OwnRows' /\ QueuedInOrder' /\ FuzzExplained'
  BY <1>1, <1>2, WithinRound
<1>4. OwnFile'
  BY <1>1 DEF DbInv, OwnFile
<1>5. Accounted'
  BY <1>1, <1>3 DEF DbInv, Accounted
<1>6. DrainedInOrder'
  BY <1>1 DEF DrainedInOrder
<1> QED BY <1>3, <1>4, <1>5, <1>6 DEF DbInv

\* A new run has queued nothing and has no file; what is in the files is of earlier runs.
LEMMA RestartKeeps ==
    ASSUME DbInv, Restart
    PROVE  DbInv' /\ durable' = NoRows /\ put' = NoRows
<1>1. /\ run < NumRuns /\ run' = run + 1 /\ queue' = NoRows /\ put' = NoRows /\ pc' = "open"
      /\ file' = NoFile /\ trans' = NoRows /\ conns' = 0
      /\ next' = [p \in Producers |-> 1] /\ stage' = [p \in Producers |-> "rules"]
      /\ files' = files /\ UNCHANGED <<fuzzed, overlooked>>
  BY DEF Restart
<1>2. run \in Nat /\ run' \in Nat /\ run' \in Runs /\ run < run' /\ 0 < run'
  BY <1>1, BoundsAssumption DEF DbInv, DbTypes, Runs
<1>3. durable' = NoRows
  BY <1>1 DEF durable
<1>4. /\ NoRows \in [Kinds -> Seq(Rows)]
      /\ \A k \in Kinds : NoRows[k] = <<>> /\ ToSet(NoRows[k]) = {}
  BY SetOfNone DEF NoRows
<1>5. DbTypes'
  BY <1>1, <1>2, <1>4 DEF DbInv, DbTypes
<1>6. OwnFile'
  <2>1. \A f \in DOMAIN files : f \in Files /\ f < run'
    <3>1. \A f \in DOMAIN files : f \in Files /\ f <= run
      BY DEF DbInv, OwnFile
    <3>2. \A f \in Files : f \in Nat
      BY BoundsAssumption DEF Files
    <3> QED BY <1>2, <3>1, <3>2
  <2> QED BY <1>1, <1>2, <2>1 DEF OwnFile, Files
<1>7. Accounted'
  BY <1>1, <1>3, <1>4 DEF Accounted, IsPrefix
<1>8. OwnRows'
  <2>1. ASSUME NEW f \in DOMAIN files, NEW k \in Kinds, NEW r \in ToSet(files[f][k])
        PROVE  r[1] < run'
    <3>1. r \in Rows
      <4>1. files[f][k] \in Seq(Rows)
        BY DEF DbInv, DbTypes
      <4> QED BY <2>1, <4>1 DEF ToSet
    <3>2. r[1] <= run
      <4>1. CASE f # file
        BY <1>2, <2>1, <3>1, <4>1 DEF DbInv, OwnRows, Rows
      <4>2. CASE f = file
        <5>1. durable = files[f]
          BY <4>2, NoFileAssumption DEF durable, DbInv, OwnFile
        <5>2. r \in ToSet(put[k])
          BY <2>1, <5>1, WhereRowsAre
        <5> QED BY <1>2, <5>2 DEF DbInv, OwnRows
      <4> QED BY <4>1, <4>2
    <3> QED BY <1>2, <3>1, <3>2 DEF Rows
  <2>2. ASSUME NEW r \in fuzzed  PROVE r[1] <= run'
    <3>1. r \in Rows /\ r[1] <= run
      BY DEF DbInv, DbTypes, OwnRows
    <3> QED BY <1>2, <3>1 DEF Rows
  <2> QED BY <1>1, <1>4, <2>1, <2>2 DEF OwnRows
<1>9. QueuedInOrder'
  <2>1. \A r \in fuzzed : r[1] # run'
    <3>1. \A r \in fuzzed : r \in Rows /\ r[1] <= run
      BY DEF DbInv, DbTypes, OwnRows
    <3> QED BY <1>2, <3>1 DEF Rows
  <2>2. \A c \in Conns : ~(c <= 0)
    BY DEF Conns
  <2>3. ToSet(NoRows["flow"]) = {} /\ ToSet(NoRows["dgram"]) = {}
    BY <1>4 DEF Kinds
  <2> QED BY <1>1, <2>1, <2>2, <2>3 DEF QueuedInOrder
<1>10. DrainedInOrder'
  BY <1>1 DEF DrainedInOrder
<1>11. FuzzExplained'
  BY <1>1 DEF DbInv, FuzzExplained
<1> QED BY <1>1, <1>3, <1>5, <1>6, <1>7, <1>8, <1>9, <1>10, <1>11 DEF DbInv

-----------------------------------------------------------------------------
(* The traffic database: theorems. *)

\* Before anything is queued.
LEMMA DbStarts == Init => DbInv
<1> SUFFICES ASSUME Init  PROVE DbInv
  OBVIOUS
<1>1. /\ run = 1 /\ queue = NoRows /\ put = NoRows /\ pc = "open" /\ file = NoFile
      /\ trans = NoRows /\ conns = 0 /\ next = [p \in Producers |-> 1]
      /\ stage = [p \in Producers |-> "rules"] /\ fuzzed = {}
  BY DEF Init, Started
<1>2. /\ DOMAIN files \subseteq {FirstFile}
      /\ \A f \in DOMAIN files : files[f] = NoRows
  BY DEF Init
<1>3. 1 \in Runs /\ FirstFile \in Files /\ FirstFile < 1 /\ FirstFile <= 1
  BY BoundsAssumption DEF Runs, Files, FirstFile
<1>4. /\ NoRows \in [Kinds -> Seq(Rows)]
      /\ \A k \in Kinds : NoRows[k] = <<>> /\ ToSet(NoRows[k]) = {}
  BY SetOfNone DEF NoRows
<1>5. durable = NoRows
  BY <1>1 DEF durable
<1>6. DbTypes
  BY <1>1, <1>2, <1>3, <1>4 DEF DbTypes
<1>7. OwnFile
  BY <1>1, <1>2, <1>3 DEF OwnFile
<1>8. Accounted
  BY <1>1, <1>4, <1>5 DEF Accounted, IsPrefix
<1>9. OwnRows
  BY <1>1, <1>2, <1>4 DEF OwnRows
<1>10. QueuedInOrder
  <2>1. \A c \in Conns : ~(c <= 0)
    BY DEF Conns
  <2>2. ToSet(NoRows["flow"]) = {} /\ ToSet(NoRows["dgram"]) = {}
    BY <1>4 DEF Kinds
  <2> QED BY <1>1, <2>1, <2>2 DEF QueuedInOrder
<1>11. DrainedInOrder
  BY <1>1 DEF DrainedInOrder
<1>12. FuzzExplained
  BY <1>1 DEF FuzzExplained
<1> QED BY <1>6, <1>7, <1>8, <1>9, <1>10, <1>11, <1>12 DEF DbInv

\* Nothing happens.
LEMMA DbStutters ==
    ASSUME DbInv, UNCHANGED vars
    PROVE  DbInv' /\ durable' = durable
<1>1. /\ run' = run /\ queue' = queue /\ put' = put /\ pc' = pc /\ files' = files
      /\ file' = file /\ trans' = trans /\ UNCHANGED <<run, put, files, file, prodVars>>
  BY DEF vars, dbVars, prodVars
<1>2. /\ durable' = durable /\ OwnRows' /\ QueuedInOrder' /\ FuzzExplained' /\ DbTypes'
  <2>1. /\ queue' \in [Kinds -> Seq(Rows)] /\ trans' \in [Kinds -> Seq(Rows)]
        /\ pc' \in Kinds \cup {"open", "sleep", "commit", "over"}
    BY <1>1 DEF DbInv, DbTypes
  <2> QED BY <1>1, <2>1, WithinRound
<1>3. OwnFile' /\ Accounted'
  BY <1>1, <1>2 DEF DbInv, OwnFile, Accounted
<1>4. DrainedInOrder'
  <2>1. UNCHANGED <<fuzzed, overlooked>>
    BY <1>1 DEF prodVars
  <2> QED BY <1>1, <1>2, <2>1 DEF DbInv, DrainedInOrder, Kept, ConnRow
<1> QED BY <1>2, <1>3, <1>4 DEF DbInv

\* Every step keeps the invariant.
LEMMA DbStep == DbInv /\ [Next]_vars => DbInv'
<1> SUFFICES ASSUME DbInv, [Next]_vars  PROVE DbInv'
  OBVIOUS
<1>1. CASE Produce
  BY <1>1, ConnectKeeps, ProcessRulesKeeps, StoreKeeps DEF Produce
<1>2. CASE FillDB
  BY <1>2, OpenKeeps, WakeKeeps, InsertKeeps, DrainedKeeps, CommitKeeps DEF FillDB
<1>3. CASE Fails
  BY <1>3, FailsKeep, OpenKeeps
<1>4. CASE Restart
  BY <1>4, RestartKeeps
<1>5. CASE UNCHANGED vars
  BY <1>5, DbStutters
<1> QED BY <1>1, <1>2, <1>3, <1>4, <1>5 DEF Next

\* Every step is one of these, as far as files, rows in the file and queued rows go.
LEMMA DbSteps ==
    ASSUME DbInv, Next
    PROVE  \/ Produce /\ UNCHANGED <<files, file>> /\ durable' = durable
           \/ (Open \/ OpenFails) /\ UNCHANGED put /\ durable' = durable
           \/ Commit /\ UNCHANGED put
           \/ UNCHANGED <<files, put>> /\ durable' = durable /\ pc # "commit"
           \/ UNCHANGED <<files, put>> /\ durable' = durable /\ pc' # "sleep"
           \/ Restart
<1>1. ASSUME Produce  PROVE UNCHANGED <<files, file>> /\ durable' = durable
  <2>1. files' = files /\ file' = file
    BY <1>1 DEF Produce, Connect, ProcessRules, Store, dbVars
  <2> QED BY <2>1 DEF durable
<1>2. ASSUME Open \/ OpenFails  PROVE UNCHANGED put /\ durable' = durable
  BY <1>2, OpenKeeps DEF Open, OpenFails
<1>3. ASSUME Commit  PROVE UNCHANGED put
  BY <1>3 DEF Commit
<1>4. ASSUME Wake  PROVE UNCHANGED <<files, put>> /\ durable' = durable /\ pc # "commit"
  BY <1>4, WakeKeeps DEF Wake
<1>5. ASSUME NEW k \in Kinds, Insert(k) \/ Drained(k)
      PROVE  UNCHANGED <<files, put>> /\ durable' = durable /\ pc # "commit"
  BY <1>5, InsertKeeps, DrainedKeeps DEF Insert, Drained, Kinds
<1>6. ASSUME Fails, ~OpenFails
      PROVE  UNCHANGED <<files, put>> /\ durable' = durable /\ pc' # "sleep"
  BY <1>6, FailsKeep DEF Fails, MkdirFails, InsertFails, CommitFails
<1> QED BY <1>1, <1>2, <1>3, <1>4, <1>5, <1>6 DEF Next, FillDB

\* The inductive invariant holds of every state.
THEOREM DbInvariant == Spec => []DbInv
  BY DbStarts, DbStep, PTL DEF Spec

\* In every file, a datagram that was fuzzed is there only with the row that explains
\* it, and so is a chunk, unless the last of its fuzz rules left it alone and it was
\* overlooked (mallory.py:480, base.py:646-663 and 573).
THEOREM FuzzedRowsExplained == Spec => []FuzzExplained
<1>1. DbInv => FuzzExplained
  BY DEF DbInv
<1> QED BY <1>1, DbInvariant, PTL

\* The commit after one that brought a flow row brings the row of its connection, if the
\* first did not (trafficdb.py:117-123).
THEOREM OrphansJoined == Spec => OrphansJoinedNextCommit
<1>1. ASSUME DbInv, [Next]_vars, pc = "commit", pc' = "sleep", NEW r \in ToSet(durable["flow"])
      PROVE  ConnRow(r) \in ToSet(durable'["conn"])
  <2>1. Commit
    <3>1. Next
      BY <1>1 DEF vars, dbVars
    <3>2. ~Produce /\ ~Open /\ ~OpenFails /\ ~Restart
      BY <1>1 DEF Produce, Connect, ProcessRules, Store, dbVars, Open, OpenFails, Restart
    <3> QED BY <1>1, <3>1, <3>2, DbSteps
  <2>2. ConnRow(r) \in Kept("conn")
    BY <1>1 DEF DbInv, DrainedInOrder
  <2> QED BY <1>1, <2>1, <2>2, Committed DEF Kinds
<1>2. DbInv /\ [Next]_vars =>
        [pc = "commit" /\ pc' = "sleep" =>
           \A r \in ToSet(durable["flow"]) : ConnRow(r) \in ToSet(durable'["conn"])]_vars
  BY <1>1
<1> QED BY <1>2, DbInvariant, PTL DEF Spec, OrphansJoinedNextCommit

\* Every table of every file only grows, and only by rows of the run that made the file
\* (trafficdb.py:88).
THEOREM TablesOnlyGrow == Spec => FilesKept
<1> DEFINE Kept1(f) == /\ f \in DOMAIN files'
                       /\ \A k \in Kinds : IsPrefix(files[f][k], files'[f][k])
                       /\ files'[f] # files[f] =>
                            \A k \in Kinds : \A r \in ToSet(files'[f][k]) : r[1] = run
<1>1. ASSUME DbInv, [Next]_vars, NEW f \in DOMAIN files
      PROVE  Kept1(f)
  <2>1. ASSUME f \in DOMAIN files', files'[f] = files[f]  PROVE Kept1(f)
    BY <2>1 DEF IsPrefix
  <2>2. ASSUME Open \/ OpenFails  PROVE f \in DOMAIN files' /\ files'[f] = files[f]
    BY <2>2 DEF Open, OpenFails, MakeFile
  <2>3. ASSUME Commit  PROVE Kept1(f)
    <3>1. CASE f # file
      BY <1>1, <2>1, <2>3, <3>1, Committed
    <3>2. CASE f = file
      <4>1. /\ f \in DOMAIN files' /\ durable = files[f] /\ durable' = files'[f]
            /\ \A k \in Kinds : IsPrefix(durable[k], durable'[k])
            /\ \A k \in Kinds : ToSet(durable'[k]) = Kept(k)
        BY <1>1, <2>3, <3>2, Committed
      <4>2. \A k \in Kinds : Kept(k) \subseteq ToSet(put[k])
        BY <1>1, <2>3, WhereRowsAre DEF Commit
      <4>3. \A k \in Kinds : \A r \in Kept(k) : r[1] = run
        BY <1>1, <4>2 DEF DbInv, OwnRows
      <4> QED BY <4>1, <4>3
    <3> QED BY <3>1, <3>2
  <2>4. CASE UNCHANGED files
    BY <1>1, <2>1, <2>4
  <2>5. CASE Next
    <3>1. Restart => UNCHANGED files
      BY DEF Restart
    <3> QED BY <1>1, <2>1, <2>2, <2>3, <2>4, <2>5, <3>1, DbSteps
  <2> QED BY <1>1, <2>4, <2>5 DEF vars, dbVars
<1>2. DbInv /\ [Next]_vars => [\A f \in DOMAIN files : Kept1(f)]_vars
  BY <1>1
<1> QED BY <1>2, DbInvariant, PTL DEF Spec, FilesKept

\* Each table is the log of what this run queued for it: rows become durable in the order
\* in which they were queued, each once, and a new run starts a log of its own.
THEOREM DatabaseIsLog == Spec => LogSpec
<1>1. Init => Log!Init
  BY DEF Init, Started, NoRows, Log!Init, durable
<1>2. ASSUME DbInv, [Next]_vars  PROVE [Log!Next]_(Log!vars)
  <2>1. ASSUME NEW k \in Kinds, NEW r \in Rows, Put(k, r), durable' = durable
        PROVE  Log!Enqueue(k)
    <3>1. put[k] \in Seq(Rows) /\ put \in [Kinds -> Seq(Rows)]
      BY <1>2 DEF DbInv, DbTypes
    <3>2. put' = [put EXCEPT ![k] = Append(@, r)] /\ put'[k] = Append(put[k], r)
      BY <2>1, <3>1 DEF Put
    <3>3. Len(put'[k]) = Len(put[k]) + 1 /\ Log!Last(put'[k]) = r
      <4> DEFINE s == put[k]
      <4>1. s \in Seq(Rows)
        BY <3>1
      <4>2. put'[k] = Append(s, r)
        BY <3>2
      <4> HIDE DEF s
      <4>3. Len(Append(s, r)) = Len(s) + 1 /\ Append(s, r)[Len(s) + 1] = r
        BY <4>1
      <4>4. Len(put'[k]) = Len(s) + 1 /\ Log!Last(put'[k]) = r
        BY <4>2, <4>3 DEF Log!Last
      <4> QED BY <4>4 DEF s
    <3> QED BY <2>1, <3>2, <3>3 DEF Log!Enqueue
  <2>2. ASSUME Produce, durable' = durable  PROVE Log!Next \/ UNCHANGED Log!vars
    <3>1. run \in Nat /\ conns \in Nat /\ next \in [Producers -> Nat] /\ Producers \subseteq Nat
      BY <1>2, BoundsAssumption DEF DbInv, DbTypes, Runs, Producers, Conns, Udp
    <3>2. \A p \in Producers : Item(p) \in Rows
      BY <3>1 DEF Item, Rows
    <3>3. CASE Connect
      <4>1. <<run, conns + 1, 0>> \in Rows
        BY <3>1 DEF Rows
      <4>2. Log!Enqueue("conn")
        BY <2>1, <2>2, <3>3, <4>1 DEF Connect, Kinds
      <4> QED BY <4>2 DEF Log!Next, Kinds
    <3>4. ASSUME NEW p \in Producers, ProcessRules(p)
          PROVE  Log!Next \/ UNCHANGED Log!vars
      <4>1. CASE UNCHANGED put
        BY <2>2, <4>1 DEF Log!vars
      <4>2. CASE Put(IF p = Udp THEN "fuzzudp" ELSE "fuzztcp", Item(p))
        BY <2>1, <2>2, <3>2, <4>2 DEF Log!Next, Kinds
      <4> QED BY <3>4, <4>1, <4>2 DEF ProcessRules
    <3>5. ASSUME NEW p \in Producers, Store(p)
          PROVE  Log!Next
      BY <2>1, <2>2, <3>2, <3>5 DEF Log!Next, Kinds, Store
    <3> QED BY <2>2, <3>3, <3>4, <3>5 DEF Produce
  <2>3. ASSUME Commit  PROVE Log!Next
    <3>1. put' = put
      BY <2>3 DEF Commit
    <3>2. /\ durable' = [k \in Kinds |-> durable[k] \o trans[k]]
          /\ \A k \in Kinds : IsPrefix(durable[k], durable'[k]) /\ IsPrefix(durable'[k], put[k])
      BY <1>2, <2>3, Committed
    <3>3. Log!Flush
      BY <3>1, <3>2 DEF Log!Flush, Log!IsPrefix, IsPrefix
    <3> QED BY <3>3 DEF Log!Next
  <2>4. ASSUME Restart  PROVE Log!Next
    BY <1>2, <2>4, RestartKeeps DEF Log!Next, Log!EndRun, NoRows
  <2>5. CASE UNCHANGED put /\ durable' = durable
    BY <2>5 DEF Log!vars
  <2>6. CASE Next
    BY <1>2, <2>2, <2>3, <2>4, <2>5, <2>6, DbSteps
  <2>7. CASE UNCHANGED vars
    BY <2>5, <2>7 DEF vars, dbVars, durable
  <2> QED BY <1>2, <2>6, <2>7
<1> QED BY <1>1, <1>2, DbInvariant, PTL DEF Spec, LogSpec, Log!Spec

=============================================================================
