---------------------------- MODULE RpcTransport ----------------------------
(* A call of libgem and its way through the sockets: gem_rpc_call() on the    *)
(* client's side, gemd_receive(), gemd_handle_request(), gemd_reply() and     *)
(* gemd_send() on the server's, the deadlines of main(), and the call-back of *)
(* a USERDEF object, in which the server asks the waiting client, serves what *)
(* the client's drawing function calls, and gives up after two seconds.       *)
(*                                                                            *)
(* One client. A frame is a header and the pieces of its payload, and the     *)
(* socket holds Buffer pieces each way: a header, or a reply without payload, *)
(* is never torn, a payload is. The first connection has an application, one  *)
(* that is made later has none.                                               *)
EXTENDS Naturals, Sequences, FiniteSets, FiniteSetsExt

CONSTANTS Calls,          \* 1..n: the calls of the client, in order
          Links,          \* 1..n: the connections it can make, in order
          Buffer,         \* pieces a socket holds in one direction
          MaxAsks         \* USERDEF objects of a tree

ASSUME TransportAssumption ==
    /\ Calls \subseteq Nat
    /\ Links \subseteq Nat \ {0} /\ 1 \in Links
    /\ Buffer \in Nat \ {0} /\ MaxAsks \in Nat

VARIABLES stack,          \* the calls the client is in, innermost first
          sock,           \* g_gem_socket, 0 when there is none
          link,           \* each connection: its ends and what is under way
          io,             \* each session's gemd_io_t
          drawing,        \* the tree the server draws, and its call-back
          calls, served   \* see RemoteCall

clientVars    == <<stack, sock>>
transportVars == <<stack, sock, link, io, drawing, calls, served>>

\* What a request does: "plain" is any AES request, "vdi" one that draws,
\* "tree" an AES_TREE request, "done" CALLBACK_DONE. Sizes of payloads, in
\* pieces: what each sends and what its caller expects.
Ops           == {"plain", "vdi", "tree", "done"}
RequestSize   == [op \in Ops |-> CASE op = "tree" -> 3 [] op = "plain" -> 0 [] OTHER -> 1]
ResponseSize  == [op \in Ops |-> CASE op = "tree" -> 3 [] op = "plain" -> 1 [] OTHER -> 0]
AskSize       == 1

Frame(i, op, size) == [n \in 1..(size + 1) |-> [id |-> i, op |-> op, size |-> size]]
FrameLength(head)  == head.size + 1

Idle    == [got |-> <<>>, ready |-> FALSE, out |-> <<>>]
NoLink  == [up |-> <<>>, down |-> <<>>, client |-> "none", server |-> "none"]
Nothing == [link |-> 0, call |-> 0, asks |-> 0, asking |-> FALSE,
            finished |-> FALSE, saved |-> Idle]

Pieces   == [id : Calls, op : Ops \union {"ask"}, size : Nat]
Requests == [id : Calls, op : Ops, stage : {"send", "receive", "callback"},
             left : Seq(Pieces), got : Seq(Pieces)]
Sessions == [got : Seq(Pieces), ready : BOOLEAN, out : Seq(Pieces)]
Sockets  == [up : Seq(Pieces), down : Seq(Pieces), client : {"none", "open", "closed"},
             server : {"none", "backlog", "open", "shut", "closed"}]
Drawings == [link : {0} \union Links, call : {0} \union Calls, asks : 0..MaxAsks,
             asking : BOOLEAN, finished : BOOLEAN, saved : Sessions]

TransportTypeOK ==
    /\ stack \in Seq(Requests) /\ sock \in {0} \union Links
    /\ link \in [Links -> Sockets] /\ io \in [Links -> Sessions]
    /\ \A c \in Links : Len(link[c].up) <= Buffer /\ Len(link[c].down) <= Buffer
    /\ drawing \in Drawings
    /\ calls \in [Calls -> {"new", "asked", "answered", "failed", "mistaken"}]
    /\ served \in [Calls -> {0, 1}]

TransportInit ==
    /\ stack = <<>> /\ sock = 0
    /\ link = [c \in Links |-> NoLink]
    /\ io = [c \in Links |-> Idle]
    /\ drawing = Nothing
    /\ calls = [i \in Calls |-> "new"]
    /\ served = [i \in Calls |-> 0]

Least(m, n)  == IF m < n THEN m ELSE n
Fresh(set)   == {c \in set : link[c].client = "none"}
Alone        == drawing.link = 0      \* main() runs

-----------------------------------------------------------------------------
(* The client                                                                 *)

Top == stack[1]

\* gem_rpc_disconnect() and the returns of 0 that follow: a call made by a
\* drawing function fails alone, CALLBACK_DONE and the AES_TREE call together.
Failing == IF Top.op \in {"vdi", "plain"} THEN 1 ELSE Len(stack)

Disconnected ==
    /\ link' = [link EXCEPT ![sock].client = "closed"]
    /\ sock' = 0

GiveUp ==
    /\ stack' = SubSeq(stack, Failing + 1, Len(stack))
    /\ calls' = [i \in Calls |->
                    IF \E n \in 1..Failing : stack[n].id = i THEN "failed" ELSE calls[i]]

\* gem_rpc_call(): connect if there is no connection, then send. Without a
\* server to connect to the call fails at once.
Begin(op) ==
    LET i == Min({j \in Calls : calls[j] = "new"})
        c == IF sock # 0 THEN sock ELSE Min(Fresh(Links))
        call == [id |-> i, op |-> op, stage |-> "send",
                 left |-> Frame(i, op, RequestSize[op]), got |-> <<>>]
    IN  /\ \E j \in Calls : calls[j] = "new"
        /\ sock # 0 \/ Fresh(Links) # {}
        /\ stack' = <<call>> \o stack
        /\ calls' = [calls EXCEPT ![i] = "asked"]
        /\ sock' = c
        /\ link' = IF sock # 0 THEN link
                   ELSE [link EXCEPT ![c].client = "open", ![c].server = "backlog"]
        /\ UNCHANGED <<io, drawing, served>>

InCallback == stack # <<>> /\ Top.stage = "callback"

\* Enough of the bounded calls are left for every call-back to be answered.
ResultsFit == Cardinality({j \in Calls : calls[j] = "new"}) > MaxAsks

Call ==
    /\ stack = <<>>
    /\ \/ Begin("plain")
       \/ ResultsFit /\ Begin("tree")

CallInside   == InCallback /\ ResultsFit /\ \E op \in {"plain", "vdi"} : Begin(op)
CallbackDone == InCallback /\ Begin("done")

\* The drawing function returns, and CALLBACK_DONE finds no server.
CallbackLost ==
    /\ InCallback
    /\ sock = 0 /\ Fresh(Links) = {}
    /\ GiveUp
    /\ UNCHANGED <<sock, link, io, drawing, served>>

\* gem_rpc_send_all(), as far as the socket takes it.
ClientSend ==
    /\ stack # <<>> /\ Top.stage = "send"
    /\ LET room == Buffer - Len(link[sock].up)
       IN  IF link[sock].server \in {"shut", "closed"}
           THEN Disconnected /\ GiveUp
           ELSE \E n \in 1..Least(room, Len(Top.left)) :
                   /\ link' = [link EXCEPT ![sock].up = @ \o SubSeq(Top.left, 1, n)]
                   /\ stack' = [stack EXCEPT
                         ![1].left  = SubSeq(@, n + 1, Len(@)),
                         ![1].stage = IF n = Len(Top.left) THEN "receive" ELSE @]
                   /\ UNCHANGED <<sock, calls>>
    /\ UNCHANGED <<io, drawing, served>>

FitsAny(call, head) == head.op = "ask" => call.op = "tree"            \* mutant

\* Whether the header of a reply fits the call that waits for one.
Fits(call, head) ==
    IF head.op = "ask" THEN call.op = "tree" /\ head.size = AskSize
                       ELSE head.size = ResponseSize[call.op]

\* A whole reply: the call-back begins, or the call returns with success, and
\* the caller of a call-back goes on to wait for its own reply.
ClientGot(frame) ==
    IF frame[1].op = "ask"
    THEN /\ stack' = [stack EXCEPT ![1].stage = "callback", ![1].got = <<>>]
         /\ UNCHANGED calls
    ELSE /\ stack' = IF Top.op = "done"
                     THEN [Tail(stack) EXCEPT ![1].stage = "receive"]
                     ELSE Tail(stack)
         /\ calls' = [calls EXCEPT
               ![Top.id] = IF frame[1].id = Top.id THEN "answered" ELSE "mistaken"]

\* One piece of a reply, gem_rpc_recv_all(); the end of the stream when the
\* server has closed it and everything before has been read.
ClientReceive ==
    /\ stack # <<>> /\ Top.stage = "receive"
    /\ LET down == link[sock].down
           got  == Append(Top.got, Head(down))
       IN  IF down = <<>>
           THEN link[sock].server \in {"shut", "closed"} /\ Disconnected /\ GiveUp
           ELSE IF ~Fits(Top, got[1])
           THEN Disconnected /\ GiveUp
           ELSE /\ link' = [link EXCEPT ![sock].down = Tail(@)]
                /\ UNCHANGED sock
                /\ IF Len(got) < FrameLength(got[1])
                   THEN stack' = [stack EXCEPT ![1].got = got] /\ UNCHANGED calls
                   ELSE ClientGot(got)
    /\ UNCHANGED <<io, drawing, served>>

-----------------------------------------------------------------------------
(* The server                                                                 *)

Replied(session, i, op, size) == [Idle EXCEPT !.out = Frame(i, op, size)]

\* gemd_receive(): what has arrived, up to the end of the frame.
Receive(c) ==
    LET head  == IF io[c].got # <<>> THEN io[c].got[1] ELSE link[c].up[1]
        n     == Least(Len(link[c].up), FrameLength(head) - Len(io[c].got))
    IN  /\ ~io[c].ready /\ io[c].out = <<>> /\ link[c].up # <<>>
        /\ link[c].server # "shut"
        /\ link' = [link EXCEPT ![c].up = SubSeq(@, n + 1, Len(@))]
        /\ io' = [io EXCEPT ![c].got   = @ \o SubSeq(link[c].up, 1, n),
                            ![c].ready = Len(io[c].got) + n = FrameLength(head)]
        /\ UNCHANGED <<clientVars, drawing, calls, served>>

\* gemd_send(): as much of the reply as the socket takes.
Send(c) ==
    LET n == Least(Buffer - Len(link[c].down), Len(io[c].out))
    IN  /\ io[c].out # <<>> /\ n > 0
        /\ link[c].client = "open" /\ link[c].server = "open"
        /\ link' = [link EXCEPT ![c].down = @ \o SubSeq(io[c].out, 1, n)]
        /\ io' = [io EXCEPT ![c].out = SubSeq(@, n + 1, Len(@))]
        /\ UNCHANGED <<clientVars, drawing, calls, served>>

\* Receiving or sending fails: the peer has closed, or the socket was shut.
Broken(c) == link[c].client = "closed" \/ link[c].server = "shut"

Accept(c) ==
    /\ Alone /\ link[c].server = "backlog"
    /\ link' = [link EXCEPT ![c].server = "open"]
    /\ UNCHANGED <<clientVars, io, drawing, calls, served>>

\* Mutant: a connection without an application may stay.
OverdueInTalk(c) ==
    \/ io[c].got # <<>> /\ ~io[c].ready
    \/ io[c].out # <<>>

\* Deadlines of main(): an unfinished frame or an unread reply, a connection
\* that has no application.
Overdue(c) ==
    \/ io[c].got # <<>> /\ ~io[c].ready
    \/ io[c].out # <<>>
    \/ c # 1

Close(c) ==
    /\ Alone /\ link[c].server \in {"open", "shut"}
    /\ Broken(c) \/ Overdue(c)
    /\ link' = [link EXCEPT ![c].server = "closed", ![c].up = <<>>]
    /\ io' = [io EXCEPT ![c] = Idle]
    /\ UNCHANGED <<clientVars, drawing, calls, served>>

Exchange(c) ==
    /\ Alone /\ link[c].server = "open"
    /\ Receive(c) \/ Send(c)

\* gemd_handle_request(): refusals (no application, or CALLBACK_DONE, which
\* is no request of its own) are answered too, without a payload.
Granted(c, op) == c = 1 /\ op # "done"

HandleRequest(c) ==
    LET head == io[c].got[1]
        op   == head.op
    IN  /\ Alone /\ link[c].server = "open" /\ io[c].ready
        /\ IF op = "tree" /\ Granted(c, op)
           THEN /\ drawing' = [Nothing EXCEPT !.link = c, !.call = head.id]
                /\ UNCHANGED <<io, served>>
           ELSE /\ io' = [io EXCEPT ![c] = Replied(@, head.id, op,
                             IF Granted(c, op) THEN ResponseSize[op] ELSE 0)]
                /\ served' = [served EXCEPT ![head.id] = @ + 1]
                /\ UNCHANGED drawing
        /\ UNCHANGED <<clientVars, link, calls>>

-----------------------------------------------------------------------------
(* Drawing a tree: gemd_user_callback() for each USERDEF object               *)

\* The frame in hand is put aside and the client is asked.
AskUser ==
    LET c == drawing.link
    IN  /\ ~Alone /\ ~drawing.asking /\ drawing.asks < MaxAsks
        /\ drawing' = [drawing EXCEPT !.asking = TRUE, !.finished = FALSE,
                                      !.asks = @ + 1, !.saved = io[c]]
        /\ io' = [io EXCEPT ![c] = Replied(@, drawing.call, "ask", AskSize)]
        /\ UNCHANGED <<clientVars, link, calls, served>>

\* The tree is drawn, and the request is answered.
DrawnTree ==
    LET c == drawing.link
    IN  /\ ~Alone /\ ~drawing.asking
        /\ io' = [io EXCEPT ![c] = Replied(@, drawing.call, "tree", ResponseSize["tree"])]
        /\ served' = [served EXCEPT ![drawing.call] = @ + 1]
        /\ drawing' = Nothing
        /\ UNCHANGED <<clientVars, link, calls>>

CallbackExchange ==
    /\ drawing.asking
    /\ link[drawing.link].server = "open"
    /\ io[drawing.link].out # <<>> \/ ~drawing.finished
    /\ Receive(drawing.link) \/ Send(drawing.link)

\* A request of the drawing function, or its result.
CallbackServe ==
    LET c    == drawing.link
        head == io[c].got[1]
    IN  /\ drawing.asking /\ io[c].ready /\ head.op \in {"vdi", "done"}
        /\ io' = [io EXCEPT ![c] = Replied(@, head.id, head.op, ResponseSize[head.op])]
        /\ served' = [served EXCEPT ![head.id] = @ + 1]
        /\ drawing' = [drawing EXCEPT !.finished = head.op = "done"]
        /\ UNCHANGED <<clientVars, link, calls>>

\* Without an answer nothing more may be read as one: the socket is shut.
Abandoned(finished)     == ~finished

\* The loop ends: the result has been acknowledged, two seconds are over, the
\* client has gone, or it sent what is neither a drawing request nor a result.
\* The frame put aside comes back, whatever the other one still held.
CallbackEnds ==
    LET c == drawing.link
    IN  /\ drawing.asking
        /\ drawing' = [drawing EXCEPT !.asking = FALSE, !.saved = Idle]
        /\ io' = [io EXCEPT ![c] = drawing.saved]
        /\ link' = IF Abandoned(drawing.finished)
                   THEN [link EXCEPT ![c].server = "shut"] ELSE link
        /\ UNCHANGED <<clientVars, calls, served>>

-----------------------------------------------------------------------------

ServerNext ==
    \/ \E c \in Links : Accept(c) \/ Close(c) \/ Exchange(c) \/ HandleRequest(c)
    \/ AskUser \/ DrawnTree \/ CallbackExchange \/ CallbackServe \/ CallbackEnds

TransportNext ==
    \/ Call \/ CallInside \/ CallbackDone \/ CallbackLost
    \/ ClientSend \/ ClientReceive
    \/ ServerNext

\* The server runs and its deadlines come, the client reads and writes, and
\* its drawing functions return. Nothing is assumed of when.
TransportFairness ==
    /\ \A c \in Links :
          /\ WF_transportVars(Accept(c)) /\ WF_transportVars(Close(c))
          /\ WF_transportVars(Exchange(c)) /\ WF_transportVars(HandleRequest(c))
    /\ WF_transportVars(DrawnTree) /\ WF_transportVars(CallbackExchange)
    /\ WF_transportVars(CallbackServe) /\ WF_transportVars(CallbackEnds)
    /\ WF_transportVars(ClientSend) /\ WF_transportVars(ClientReceive)
    /\ WF_transportVars(CallbackDone) /\ WF_transportVars(CallbackLost)

TransportSpec == TransportInit /\ [][TransportNext]_transportVars /\ TransportFairness

-----------------------------------------------------------------------------
(* Properties                                                                 *)

Remote == INSTANCE RemoteCall

\* A call that returns success returns what the server answered to that call,
\* and it is carried out at most once, although frames come in pieces,
\* call-backs run inside calls and time out, an acknowledgement is dropped with
\* the frame that held it, and a drawing function that lost its connection
\* makes a new one without knowing (client.c:149-181, dispatch_tree.c:172-224).
ImplementsRemoteCall == Remote!Spec

\* Every call returns, with its answer or without: a connection that stays
\* silent is closed by one side or the other (main.c:496-511).
CallsReturn == Remote!EveryCallReturns
=============================================================================
