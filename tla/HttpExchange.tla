---------------------------- MODULE HttpExchange ----------------------------
(***************************************************************************)
(* One connection of the HTTP protocol: instead of pumping bytes, the c2s  *)
(* thread reads one request, hands it to the plugins and sends it on, and  *)
(* the s2c thread reads one response, takes some of its headers and the    *)
(* compression away, hands it to the plugins and sends it on, ended by the *)
(* end of the stream.  An exception ends the thread in which it is raised, *)
(* and neither socket is closed for it.                                    *)
(*                                                                         *)
(* A request or a response is its head and the pieces of its body, which   *)
(* arrive one by one.  What the client asks and the server would answer is *)
(* fixed at the start.  The server answers a request that it has in full.  *)
(* A peer may close its end at any time, within its head as well; resets   *)
(* are left out.                                                           *)
(***************************************************************************)
EXTENDS Naturals

CONSTANTS
    Requests,   \* the requests to try, a subset of RequestSet
    Responses,  \* the responses to try, a subset of ResponseSet
    None        \* no request and no response yet

(***************************************************************************)
(* "get" has no body (HEAD too, where the response has none); "post" says  *)
(* how long its body is and "unsized" does not; "put" is any other method  *)
(* with a body; "bad" cannot be parsed; "empty" is a blank line.           *)
(***************************************************************************)
RequestSet == [kind : {"get", "post", "unsized", "put", "bad", "empty"}, pieces : Nat]

(***************************************************************************)
(* headers: those that say how long the body is or how it is coded; lower: *)
(* those of them that are not capitalised as usual; listed: the status is  *)
(* in the table of names; bodiless: there is no body whatever the headers  *)
(* say, because of the status ("status") or because the request was HEAD   *)
(* ("head"); image: the plugins may change the body; interim: number of    *)
(* "100 Continue" before it; twice: one line is found by two of the tests  *)
(* for headers, as a list of the names of headers is.                      *)
(***************************************************************************)
Headers == {"length", "chunked", "gzip"}
ResponseSet ==
    [headers : SUBSET Headers, lower : SUBSET Headers, listed : BOOLEAN,
     bodiless : {"no", "status", "head"}, image : BOOLEAN, interim : Nat, twice : BOOLEAN,
     pieces : Nat]

ASSUME ExchangeAssumption ==
    /\ Requests \subseteq RequestSet
    /\ Responses \subseteq {r \in ResponseSet : /\ r.lower \subseteq r.headers
                                                /\ r.bodiless # "no" => r.pieces = 0}

ASSUME NoneAssumption == \A r \in Requests : None # r

VARIABLES
    req, resp,      \* what the client asks, and what the server answers
    client,         \* units the client sent: 0, or the head and pieces
    clientClosed,   \* it closed its end
    server,         \* units the server sent: interim heads, head, pieces, end
    serverClosed,   \* it closed its end
    c2s, s2c,       \* where the two threads are
    read,           \* units of the request that c2s has read
    asked,          \* the request as the server got it, or None
    got,            \* units of the response that s2c has read
    changed,        \* the plugins changed the body
    answer,         \* the response as the client got it, or None
    ended,          \* the client saw the end of the stream
    rows            \* history: directions with a row in qFlow

netVars  == <<req, resp, client, clientClosed, server, serverClosed>>
c2sVars  == <<c2s, read, asked>>
s2cVars  == <<s2c, got, changed, answer, ended>>
httpVars == <<netVars, c2sVars, s2cVars, rows>>

HttpInit ==
    /\ req \in Requests /\ resp \in Responses
    /\ client = 0 /\ server = 0
    /\ clientClosed = FALSE /\ serverClosed = FALSE
    /\ c2s = "head" /\ s2c = "head"
    /\ read = 0 /\ got = 0
    /\ asked = None /\ answer = None
    /\ changed = FALSE
    /\ ended = FALSE
    /\ rows = {}

(***************************************************************************)
(* The two peers.                                                          *)
(***************************************************************************)

ClientSends ==
    /\ ~clientClosed
    /\ client < 1 + req.pieces
    /\ client' = client + 1
    /\ UNCHANGED <<req, resp, clientClosed, server, serverClosed, c2sVars, s2cVars, rows>>

ClientCloses ==
    /\ ~clientClosed
    /\ clientClosed' = TRUE
    /\ UNCHANGED <<req, resp, client, server, serverClosed, c2sVars, s2cVars, rows>>

\* The client closes within its head.  The lines that came are the request: what was
\* its first line may not parse, and a POST may have lost its length.  (If neither, it
\* might as well have sent the head and then closed.)
ClientCutsHead ==
    /\ ~clientClosed
    /\ client = 0 /\ req.kind # "empty"
    /\ client' = 1
    /\ clientClosed' = TRUE
    /\ \E kind \in {"bad"} \cup (IF req.kind = "post" THEN {"unsized"} ELSE {}) :
          req' = [req EXCEPT !.kind = kind]
    /\ UNCHANGED <<resp, server, serverClosed, c2sVars, s2cVars, rows>>

\* The server has a request in full.
Understood ==
    asked # None /\ asked.kind \in {"get", "post", "put"} /\ asked.pieces = req.pieces

Chunked  == "chunked" \in resp.headers
Length   == "length" \in resp.headers /\ ~Chunked
AllUnits == resp.interim + 1 + resp.pieces
            + IF Chunked /\ resp.bodiless = "no" THEN 1 ELSE 0

ServerSends ==
    /\ ~serverClosed
    /\ Understood
    /\ server < AllUnits
    /\ server' = server + 1
    /\ UNCHANGED <<req, resp, client, clientClosed, serverClosed, c2sVars, s2cVars, rows>>

ServerCloses ==
    /\ ~serverClosed
    /\ serverClosed' = TRUE
    /\ UNCHANGED <<req, resp, client, clientClosed, server, c2sVars, s2cVars, rows>>

\* The server closes within its head, with some of the headers still to come.
ServerCutsHead ==
    /\ ~serverClosed
    /\ Understood
    /\ server = resp.interim
    /\ server' = server + 1
    /\ serverClosed' = TRUE
    /\ \E came \in SUBSET resp.headers, twice \in {FALSE, resp.twice} :
          resp' = [resp EXCEPT !.headers = came, !.lower = @ \cap came, !.twice = twice]
    /\ UNCHANGED <<req, client, clientClosed, c2sVars, s2cVars, rows>>

(***************************************************************************)
(* forward_c2s.                                                            *)
(***************************************************************************)

C2s(from, to) ==
    /\ c2s = from
    /\ c2s' = to
    /\ UNCHANGED <<netVars, s2cVars>>

\* A request that cannot be parsed is answered by send_error, which raises, as
\* does looking up the length of a POST that has none; an empty one is made up
\* ("None  HTTP/0.9") and sent on.  The end of the stream reads like an empty line.
ReadRequest ==
    /\ client > 0 \/ clientClosed
    /\ LET kind == IF client = 0 THEN "empty" ELSE req.kind
       IN  C2s("head", CASE kind = "post" -> "body"
                         [] kind \in {"bad", "unsized"} -> "over"
                         [] OTHER -> "store")
    /\ read' = 1
    /\ UNCHANGED <<asked, rows>>

\* The body of a POST, as long as it says or to the end of the stream.
ReadPiece ==
    /\ read < client
    /\ C2s("body", "body")
    /\ read' = read + 1
    /\ UNCHANGED <<asked, rows>>

BodyRead ==
    /\ read = 1 + req.pieces \/ (clientClosed /\ read = client)
    /\ C2s("body", "store")
    /\ UNCHANGED <<read, asked, rows>>

StoreRequest ==
    /\ C2s("store", "send")
    /\ rows' = rows \cup {"c2s"}
    /\ UNCHANGED <<read, asked>>

Asked == [kind   |-> IF client = 0 THEN "empty" ELSE req.kind,
          pieces |-> IF read = 0 THEN 0 ELSE read - 1]

SendRequest ==
    /\ C2s("send", "over")
    /\ \/ asked' = Asked
       \/ serverClosed /\ UNCHANGED asked
    /\ UNCHANGED <<read, rows>>

(***************************************************************************)
(* forward_s2c.                                                            *)
(***************************************************************************)

S2c(from, to) ==
    /\ s2c = from
    /\ s2c' = to
    /\ UNCHANGED <<netVars, c2sVars>>

\* begin: interim responses are skipped.
ReadStatus ==
    /\ got < server
    /\ S2c("head", IF got < resp.interim THEN "head" ELSE "body")
    /\ got' = got + 1
    /\ UNCHANGED <<changed, answer, ended, rows>>

\* read: a chunk, or a part of a body of a given length or up to the end.
ReadBody ==
    /\ got < server
    /\ S2c("body", "body")
    /\ got' = got + 1
    /\ UNCHANGED <<changed, answer, ended, rows>>

\* The body has been read.  That the request was HEAD is not known here, and what
\* the headers announce is waited for; chunks are even if the status has no body.
BodyEnds ==
    IF Chunked \/ (Length /\ resp.bodiless # "status")
    THEN resp.bodiless = "no" /\ got = AllUnits
    ELSE resp.bodiless = "status" \/ (serverClosed /\ got = server)

\* Pieces of the body among the units read.
BodyOf(units) ==
    IF units <= resp.interim + 1 THEN 0
    ELSE IF units <= resp.interim + 1 + resp.pieces THEN units - (resp.interim + 1)
    ELSE resp.pieces

Zipped   == "gzip" \in resp.headers \ resp.lower
Unzips   == BodyOf(got) = 0 \/ BodyOf(got) = resp.pieces

\* Faulty variant: the end of the stream ends any body.
ProcessShort ==
    /\ BodyEnds \/ (serverClosed /\ got = server)
    /\ S2c("body", "send")
    /\ changed' \in IF resp.image /\ BodyOf(got) > 0 THEN BOOLEAN ELSE {FALSE}
    /\ UNCHANGED <<got, answer, ended, rows>>

\* The headers are taken out, a gzipped body is decompressed, and the plugins may
\* change an image.
Process ==
    /\ BodyEnds
    /\ ~resp.twice /\ (Zipped => Unzips)
    /\ S2c("body", "send")
    /\ changed' \in IF resp.image /\ BodyOf(got) > 0 THEN BOOLEAN ELSE {FALSE}
    /\ UNCHANGED <<got, answer, ended, rows>>

\* The stream ends before the status line or within the body.
S2cRaises ==
    /\ serverClosed /\ got = server
    /\ \/ S2c("head", "over")
       \/ ~BodyEnds /\ S2c("body", "over")
       \/ Zipped /\ ~Unzips /\ S2c("body", "over")
    /\ UNCHANGED <<got, changed, answer, ended, rows>>

\* A line found twice is taken out twice; the second time there is none to take out.
RemoveRaises ==
    /\ BodyEnds
    /\ resp.twice
    /\ S2c("body", "over")
    /\ UNCHANGED <<got, changed, answer, ended, rows>>

\* The headers passed on: those found, in their usual spelling, are taken out.
Forwarded == resp.headers \ (Headers \ resp.lower)

Answer == [headers |-> Forwarded, pieces |-> 0,
           coded   |-> "gzip" \in resp.headers /\ ~Zipped]

\* responses[status] raises KeyError before anything is sent.
UnlistedStatus ==
    /\ ~resp.listed
    /\ S2c("send", "over")
    /\ UNCHANGED <<got, changed, answer, ended, rows>>

SendHead ==
    /\ resp.listed
    /\ S2c("send", "content")
    /\ answer' = Answer
    /\ UNCHANGED <<got, changed, ended, rows>>

SendContent ==
    /\ S2c("content", "store")
    /\ answer' = [answer EXCEPT !.pieces = BodyOf(got)]
    /\ UNCHANGED <<got, changed, ended, rows>>

\* The client is gone.
SendRaises ==
    /\ clientClosed
    /\ \/ resp.listed /\ S2c("send", "over")
       \/ S2c("content", "over")
    /\ UNCHANGED <<got, changed, answer, ended, rows>>

StoreResponse ==
    /\ S2c("store", "shut")
    /\ rows' = rows \cup {"s2c"}
    /\ UNCHANGED <<got, changed, answer, ended>>

\* Faulty variant: the client's end is left open.
ShutdownServer ==
    /\ S2c("shut", "over")
    /\ UNCHANGED <<got, changed, answer, ended, rows>>

Shutdown ==
    /\ S2c("shut", "over")
    /\ ended' = TRUE
    /\ UNCHANGED <<got, changed, answer, rows>>

-----------------------------------------------------------------------------

C2sThread == ReadRequest \/ ReadPiece \/ BodyRead \/ StoreRequest \/ SendRequest

S2cThread == ReadStatus \/ ReadBody \/ Process \/ RemoveRaises \/ S2cRaises
             \/ UnlistedStatus \/ SendHead \/ SendContent \/ SendRaises \/ StoreResponse \/ Shutdown

HttpNext == \/ C2sThread \/ S2cThread
            \/ ClientSends \/ ClientCloses \/ ClientCutsHead
            \/ ServerSends \/ ServerCloses \/ ServerCutsHead

HttpSpec == HttpInit /\ [][HttpNext]_httpVars

\* The server answers what it understands, and nothing blocks a thread but the
\* peers it reads from.
HttpFairSpec ==
    HttpSpec /\ WF_httpVars(C2sThread) /\ WF_httpVars(S2cThread) /\ WF_httpVars(ServerSends)

(***************************************************************************)
(* Properties.                                                             *)
(***************************************************************************)

\* The client cannot make out the body it was sent: it looks for chunks; it counts
\* to a length that is not that of the body any more; it decompresses what is
\* plain, or does not what is compressed.
Garbled ==
    \/ "chunked" \in answer.headers
    \/ "length" \in answer.headers /\ (Zipped \/ changed)
    \/ answer.pieces > 0 /\ ~(answer.coded <=> "gzip" \in answer.headers)

\* http.py:219-252 "Get rid of this to avoid having to do math": if the server
\* spells its headers as usual, a client that sees the end of the stream can make
\* out the body, and it is all of it, unless the headers that came did not say where
\* it ends.
ClientUnderstands ==
    ended /\ resp.lower = {} =>
        /\ ~Garbled
        /\ answer.pieces < resp.pieces => resp.headers \cap {"chunked", "length"} = {}

\* http.py:174-288: a client that asked for a page, or posted a form of a given
\* length, gets the answer and sees where it ends, if the status has a name, no line of
\* the head is found twice, the headers say how long the answer is or the server
\* closes, and neither peer goes away before.
RequestAnswered ==
    /\ client = 1 + req.pieces /\ req.kind \in {"get", "post"}
    /\ resp.listed /\ ~resp.twice
    /\ CASE resp.bodiless = "no"     -> Chunked \/ Length \/ serverClosed
         [] resp.bodiless = "status" -> ~Chunked
         [] resp.bodiless = "head"   -> ~Chunked /\ ~Length /\ serverClosed
    ~> ended \/ clientClosed \/ (serverClosed /\ server < AllUnits)

=============================================================================
