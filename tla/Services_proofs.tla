--------------------------- MODULE Services_proofs ---------------------------
(***************************************************************************)
(* Calls from the clients to the server, and the update lock they take;      *)
(* first the calls.                                                          *)
(***************************************************************************)

(***************************************************************************)
(* Every step of the transport is a step of the remote call, or none: for   *)
(* any number of calls and connections, sockets of any capacity and any     *)
(* number of call-backs in a tree.                                          *)
(*                                                                          *)
(* RemoteCall speaks of the calls alone; that a request is served once and  *)
(* a reply reaches its own call depends on what is on its way.  The frames  *)
(* carry no more than an operation and a size, so the invariant must say    *)
(* whose every piece is.  TransportInv:                                     *)
(*   Nesting    a call is made alone, or from a call-back of a tree's call  *)
(*   Connected  whose ends a connection has, and that one not yet accepted  *)
(*              is quiet                                                    *)
(*   Sending    what the socket has not taken is the innermost request's    *)
(*   Upstream   pieces that wait for the server are of one request, which   *)
(*              nobody has served, at most one frame of it, on one          *)
(*              connection; on the client's own they are the innermost's    *)
(*   Ready      a frame that is ready is whole, and nothing is to be sent   *)
(*   Drawing    the tree that is drawn is of the outermost call, unserved   *)
(*   CalledBack while a call-back runs the server waits for its result      *)
(*   Downstream either nothing is on its way to the client, or one reply,   *)
(*              to the innermost call; or, behind the acknowledgement of a  *)
(*              call-back's result, one to the outermost                    *)
(* The last is what gemd_user_callback() makes hard: the frame put aside    *)
(* comes back whatever the other one still held, so the acknowledgement it  *)
(* held may be lost, and the tree's answer is what comes instead.           *)
(***************************************************************************)
EXTENDS UpdateLock, RpcTransport, SequenceTheorems, WellFoundedInduction, TLAPS

Live(c) == link[c].server \in {"backlog", "open"}

-----------------------------------------------------------------------------
(* The client's calls                                                         *)

Outer    == stack[Len(stack)]
Talking  == stack # <<>> /\ Top.stage \in {"send", "receive"}
Request(call) == [id |-> call.id, op |-> call.op, size |-> RequestSize[call.op]]

Nesting ==
    /\ Len(stack) <= 2
    /\ Len(stack) = 1 => Top.op \in {"plain", "tree"}
    /\ Len(stack) = 2 => /\ Outer.stage = "callback" /\ Outer.id # Top.id
                         /\ Top.op \in {"plain", "vdi", "done"}
    /\ \A n \in 1..Len(stack) :
          /\ calls[stack[n].id] = "asked"
          /\ stack[n].stage = "callback" => stack[n].op = "tree" /\ stack[n].got = <<>>

Connected ==
    /\ Talking => sock # 0
    /\ stack # <<>> \/ sock # 0 => link[1].client # "none"
    /\ \A c \in Links :
          /\ link[c].client = "open" <=> c = sock
          /\ link[c].client = "none" => link[c] = NoLink
          /\ link[c].server \in {"none", "backlog"} => io[c] = Idle /\ link[c].down = <<>>
          /\ link[c].server = "none" => link[c].client = "none"

-----------------------------------------------------------------------------
(* Requests on their way                                                      *)

Reading(c) == IF drawing.link = c /\ ~drawing.asking THEN <<>> ELSE io[c].got
Unsent(c)  == IF c = sock /\ stack # <<>> /\ Top.stage = "send" THEN Top.left ELSE <<>>
Heads(c)   == IF Live(c) THEN Range(link[c].up) \cup Range(Reading(c)) ELSE {}

Awaited(p) ==
    /\ p.op \in Ops /\ p.size = RequestSize[p.op]
    /\ calls[p.id] \in {"asked", "failed"} /\ served[p.id] = 0
    /\ drawing.link # 0 => p.id # drawing.call

\* A request whose last piece the socket has not taken.
Sending ==
    stack # <<>> /\ Top.stage = "send" =>
        /\ Top.left # <<>> /\ Range(Top.left) \subseteq {Request(Top)}
        /\ Len(Top.left) <= RequestSize[Top.op] + 1
        /\ Awaited(Request(Top))

Load(c) == Len(Unsent(c)) + Len(link[c].up) + Len(Reading(c))

Placed(c, p) ==
    IF c = sock THEN Talking /\ p = Request(Top)
    ELSE \A n \in 1..Len(stack) : stack[n].id # p.id

Upstream ==
    \A c \in Links : \A p \in Heads(c) :
        /\ Awaited(p) /\ Placed(c, p) /\ Load(c) <= p.size + 1
        /\ \A q \in Heads(c) : q = p
        /\ \A d \in Links \ {c} : \A q \in Heads(d) : p.id # q.id

\* A frame that is not being drawn is whole.
Ready ==
    \A c \in Links : io[c].ready =>
        /\ io[c].out = <<>>
        /\ (drawing.link = c => drawing.asking) =>
              io[c].got # <<>> /\ Len(io[c].got) = FrameLength(io[c].got[1])

-----------------------------------------------------------------------------
(* The tree that is drawn                                                     *)

Drawing ==
    /\ drawing.link = 0 => ~drawing.asking
    /\ drawing.link # 0 =>
          /\ drawing.link = 1 /\ drawing.call \in Calls
          /\ link[1].server \in {"open", "shut"}
          /\ served[drawing.call] = 0 /\ calls[drawing.call] \in {"asked", "failed"}
          /\ IF drawing.asking THEN drawing.saved.out = <<>> ELSE io[1].out = <<>>
          /\ drawing.asking /\ link[1].server = "shut" => ~io[1].ready
          /\ sock = 1 => /\ stack # <<>> /\ Outer.id = drawing.call
                         /\ Outer.op = "tree" /\ Outer.stage # "send"

\* The server waits for the result of a call-back of a call.
Asks(call) ==
    /\ drawing.link = sock /\ drawing.call = call.id
    /\ drawing.asking /\ ~drawing.finished

ResultServed == Top.op = "done" /\ served[Top.id] = 1

CalledBack ==
    stack # <<>> /\ Outer.stage = "callback" /\ sock = 1 /\ Live(1) /\ ~ResultServed
        => Asks(Outer)

-----------------------------------------------------------------------------
(* Replies on their way                                                       *)

Pending == IF link[sock].server = "open" THEN io[sock].out ELSE <<>>

Reply(call, n) == [id |-> call.id, op |-> call.op, size |-> n]
Question(call) == [id |-> call.id, op |-> "ask", size |-> AskSize]
Asked(call)    == Live(sock) => Asks(call)

Answer(p, call) ==
    \/ served[call.id] = 1 /\ p \in {Reply(call, 0), Reply(call, ResponseSize[call.op])}
    \/ call.op = "tree" /\ Asked(call) /\ p = Question(call)

\* What may come for the outer call behind the acknowledgement.
Follows(p) ==
    \/ served[Outer.id] = 1 /\ p = Reply(Outer, ResponseSize["tree"])
    \/ Asked(Outer) /\ p = Question(Outer)

Comes(got, down, out, p) ==
    /\ Range(got) \cup Range(down) \cup Range(out) \subseteq {p}
    /\ Len(got) + Len(down) + Len(out) <= p.size + 1

Silent ==
    /\ link[sock].down = <<>> /\ Pending = <<>>
    /\ stack # <<>> => Top.got = <<>>

Answered ==
    \E p \in Pieces : /\ Answer(p, Top) /\ Len(Top.got) <= p.size
                      /\ Comes(Top.got, link[sock].down, Pending, p)

Behind(down, p) ==
    \/ Comes(<<>>, down, Pending, p)
    \/ down # <<>> /\ down[1] = Reply(Top, 0) /\ Comes(<<>>, Tail(down), Pending, p)

Acknowledged ==
    /\ Len(stack) = 2 /\ Top.op = "done" /\ Top.got = <<>> /\ served[Top.id] = 1 /\ sock = 1
    /\ \E p \in Pieces : Follows(p) /\ Behind(link[sock].down, p)

Downstream ==
    sock # 0 =>
        \/ Silent
        \/ stack # <<>> /\ Top.stage = "receive" /\ (Answered \/ Acknowledged)

Unserved == \A i \in Calls : calls[i] = "new" => served[i] = 0

TransportInv ==
    /\ TransportTypeOK
    /\ Nesting /\ Sending /\ Connected
    /\ Upstream /\ Ready
    /\ Drawing /\ CalledBack
    /\ Downstream
    /\ Unserved

-----------------------------------------------------------------------------
(* Sequences of pieces                                                        *)

\* The empty sequence, and what any sequence of pieces has.
LEMMA Nothing0 ==
    /\ <<>> \in Seq(Pieces) /\ Len(<<>>) = 0 /\ Range(<<>>) = {}
    /\ \A s \in Seq(Pieces) : /\ Len(s) \in Nat /\ (s = <<>> <=> Len(s) = 0)
                              /\ s # <<>> => s[1] \in Range(s) /\ s[1] \in Pieces
                              /\ Head(s) = s[1]
                              /\ Range(s) \subseteq Pieces
<1>1. <<>> \in Seq(Pieces) /\ Len(<<>>) = 0
  BY EmptySeq
<1>2. Range(<<>>) = {}
  <2>1. Range(<<>>) = {<<>>[i] : i \in 1..Len(<<>>)}
    BY <1>1, RangeEquality
  <2>2. 1..Len(<<>>) = {}
    BY <1>1
  <2> QED  BY <2>1, <2>2
<1>3. ASSUME NEW s \in Seq(Pieces)
      PROVE  /\ Len(s) \in Nat /\ (s = <<>> <=> Len(s) = 0)
             /\ s # <<>> => s[1] \in Range(s) /\ s[1] \in Pieces
             /\ Head(s) = s[1]
             /\ Range(s) \subseteq Pieces
  <2>1. Len(s) \in Nat /\ (s = <<>> <=> Len(s) = 0)
    BY EmptySeq, LenProperties
  <2>2. Range(s) = {s[i] : i \in 1..Len(s)} /\ Range(s) \subseteq Pieces
    BY RangeEquality, RangeOfSeq
  <2>3. ASSUME s # <<>> PROVE s[1] \in Range(s)
    <3>1. 1 \in 1..Len(s)
      BY <2>1, <2>3
    <3> QED  BY <3>1, <2>2
  <2>4. Head(s) = s[1]
    OBVIOUS
  <2> QED  BY <2>1, <2>2, <2>3, <2>4
<1> QED  BY <1>1, <1>2, <1>3

\* Putting two sequences together.
LEMMA Joined ==
    ASSUME NEW s \in Seq(Pieces), NEW t \in Seq(Pieces)
    PROVE  /\ s \o t \in Seq(Pieces) /\ Len(s \o t) = Len(s) + Len(t)
           /\ Range(s \o t) = Range(s) \cup Range(t)
BY ConcatProperties, RangeConcatenation

\* Cutting a sequence in two, as the socket does.
LEMMA Cut ==
    ASSUME NEW s \in Seq(Pieces), NEW n \in 0..Len(s)
    PROVE  /\ SubSeq(s, 1, n) \in Seq(Pieces) /\ Len(SubSeq(s, 1, n)) = n
           /\ Range(SubSeq(s, 1, n)) \subseteq Range(s)
           /\ SubSeq(s, n + 1, Len(s)) \in Seq(Pieces)
           /\ Len(SubSeq(s, n + 1, Len(s))) = Len(s) - n
           /\ Range(SubSeq(s, n + 1, Len(s))) \subseteq Range(s)
<1>1. /\ Len(s) \in Nat /\ n \in Int /\ n + 1 \in Int /\ Len(s) \in Int
      /\ \A i \in 1..Len(s) : s[i] \in Pieces
  BY LenProperties, ElementOfSeq
<1> DEFINE a == SubSeq(s, 1, n)   b == SubSeq(s, n + 1, Len(s))
<1>2. /\ a \in Seq(Pieces) /\ Len(a) = n
      /\ \A i \in 1..n : a[i] = s[i]
  <2>1. \A i \in 1..n : s[i] \in Pieces
    BY <1>1
  <2>2. /\ a \in Seq(Pieces) /\ Len(a) = IF 1 <= n THEN n - 1 + 1 ELSE 0
        /\ \A i \in 1..(n - 1 + 1) : a[i] = s[1 + i - 1]
    BY <1>1, <2>1, SubSeqProperties
  <2> QED  BY <2>2, <1>1
<1>3. /\ b \in Seq(Pieces) /\ Len(b) = Len(s) - n
      /\ \A i \in 1..(Len(s) - n) : b[i] = s[n + i]
  <2>1. \A i \in (n + 1)..Len(s) : s[i] \in Pieces
    BY <1>1
  <2>2. /\ b \in Seq(Pieces) /\ Len(b) = IF n + 1 <= Len(s) THEN Len(s) - (n + 1) + 1 ELSE 0
        /\ \A i \in 1..(Len(s) - (n + 1) + 1) : b[i] = s[n + 1 + i - 1]
    BY <1>1, <2>1, SubSeqProperties
  <2> QED  BY <2>2, <1>1
<1>4. /\ Range(s) = {s[i] : i \in 1..Len(s)} /\ Range(a) = {a[i] : i \in 1..Len(a)}
      /\ Range(b) = {b[i] : i \in 1..Len(b)}
  BY RangeEquality, <1>2, <1>3
<1> HIDE DEF a, b
<1>5. Range(a) \subseteq Range(s)
  BY <1>1, <1>2, <1>4
<1>6. Range(b) \subseteq Range(s)
  <2> SUFFICES ASSUME NEW i \in 1..Len(b) PROVE b[i] \in Range(s)
    BY <1>4
  <2>1. b[i] = s[n + i] /\ n + i \in 1..Len(s)
    BY <1>1, <1>3
  <2> QED  BY <2>1, <1>4
<1> QED  BY <1>2, <1>3, <1>5, <1>6 DEF a, b

\* Taking the first piece, and adding a last one.
LEMMA Popped ==
    ASSUME NEW s \in Seq(Pieces), s # <<>>
    PROVE  /\ Tail(s) \in Seq(Pieces) /\ Len(Tail(s)) = Len(s) - 1
           /\ Range(Tail(s)) \subseteq Range(s)
<1>1. Len(s) \in Nat \ {0}
  BY EmptySeq
<1>2. Tail(s) = SubSeq(s, 2, Len(s))
  BY TailIsSubSeq
<1>3. 1 \in 0..Len(s) /\ 1 + 1 = 2
  BY <1>1
<1>4. /\ SubSeq(s, 2, Len(s)) \in Seq(Pieces)
      /\ Len(SubSeq(s, 2, Len(s))) = Len(s) - 1
      /\ Range(SubSeq(s, 2, Len(s))) \subseteq Range(s)
  BY <1>3, Cut
<1> QED  BY <1>2, <1>4

LEMMA Added ==
    ASSUME NEW s \in Seq(Pieces), NEW p \in Pieces
    PROVE  /\ Append(s, p) \in Seq(Pieces) /\ Len(Append(s, p)) = Len(s) + 1
           /\ Range(Append(s, p)) = Range(s) \cup {p}
           /\ Append(s, p)[1] = IF s = <<>> THEN p ELSE s[1]
<1>1. <<p>> \in Seq(Pieces) /\ Append(s, p) = s \o <<p>>
  BY AppendIsConcat
<1>2. Len(<<p>>) = 1 /\ <<p>>[1] = p
  OBVIOUS
<1>3. Range(<<p>>) = {<<p>>[i] : i \in 1..1}
  BY <1>1, <1>2, RangeEquality
<1>4. Range(<<p>>) = {p}
  <2>1. 1..1 = {1}
    OBVIOUS
  <2>2. Range(<<p>>) = {<<p>>[1]}
    BY <1>3, <2>1
  <2> QED  BY <1>2, <2>2
<1>5. /\ Append(s, p) \in Seq(Pieces) /\ Len(Append(s, p)) = Len(s) + 1
      /\ \A i \in 1..Len(s) : Append(s, p)[i] = s[i]
      /\ Append(s, p)[Len(s) + 1] = p
  BY AppendProperties
<1>6. Append(s, p)[1] = IF s = <<>> THEN p ELSE s[1]
  BY <1>5, Nothing0
<1>7. Range(s \o <<p>>) = Range(s) \cup Range(<<p>>)
  BY <1>1, RangeConcatenation
<1>8. Range(Append(s, p)) = Range(s) \cup {p}
  BY <1>1, <1>4, <1>7
<1> QED  BY <1>5, <1>6, <1>8

\* A frame is its header and as many pieces as it announces.
LEMMA FrameFacts ==
    ASSUME NEW i \in Calls, NEW op \in Ops \cup {"ask"}, NEW size \in Nat
    PROVE  /\ Frame(i, op, size) \in Seq(Pieces) /\ Frame(i, op, size) # <<>>
           /\ Len(Frame(i, op, size)) = size + 1
           /\ Range(Frame(i, op, size)) = {[id |-> i, op |-> op, size |-> size]}
<1> DEFINE p == [id |-> i, op |-> op, size |-> size]
           f == Frame(i, op, size)
<1>1. p \in Pieces
  BY DEF Pieces
<1> HIDE DEF p
<1>2. f = [n \in 1..(size + 1) |-> p]
  BY DEF Frame, p
<1>3. f \in [1..(size + 1) -> Pieces] /\ size + 1 \in Nat
  BY <1>1, <1>2
<1>4. f \in Seq(Pieces)
  BY <1>3, SeqDef
<1>5. Len(f) = size + 1
  BY <1>2, <1>4, <1>3, LenProperties
<1>6. Range(f) = {f[n] : n \in 1..(size + 1)}
  BY <1>4, <1>5, RangeEquality
<1>7. Range(f) = {p}
  <2>1. 1 \in 1..(size + 1) /\ \A n \in 1..(size + 1) : f[n] = p
    BY <1>2
  <2> QED  BY <1>6, <2>1
<1>8. f # <<>>
  BY <1>4, <1>5, Nothing0
<1> QED  BY <1>4, <1>5, <1>7, <1>8 DEF p

-----------------------------------------------------------------------------
(* What the types give                                                        *)

\* A call of the stack and its fields.
LEMMA StackFacts ==
    ASSUME NEW s \in Seq(Requests)
    PROVE  /\ Len(s) \in Nat /\ (s = <<>> <=> Len(s) = 0)
           /\ \A n \in 1..Len(s) :
                 /\ s[n] \in Requests /\ s[n].id \in Calls /\ s[n].op \in Ops
                 /\ s[n].stage \in {"send", "receive", "callback"}
                 /\ s[n].left \in Seq(Pieces) /\ s[n].got \in Seq(Pieces)
<1>1. Len(s) \in Nat /\ (s = <<>> <=> Len(s) = 0)
  BY EmptySeq, LenProperties
<1>2. \A n \in 1..Len(s) : s[n] \in Requests
  BY ElementOfSeq
<1> QED  BY <1>1, <1>2 DEF Requests

\* The two directions of a connection and its session.
LEMMA LinkFacts ==
    ASSUME TransportTypeOK, NEW c \in Links
    PROVE  /\ link[c] \in Sockets /\ io[c] \in Sessions
           /\ link[c].up \in Seq(Pieces) /\ link[c].down \in Seq(Pieces)
           /\ link[c].client \in {"none", "open", "closed"}
           /\ link[c].server \in {"none", "backlog", "open", "shut", "closed"}
           /\ io[c].got \in Seq(Pieces) /\ io[c].out \in Seq(Pieces)
           /\ io[c].ready \in BOOLEAN
           /\ Len(link[c].up) \in Nat /\ Len(link[c].down) \in Nat
           /\ Len(io[c].got) \in Nat /\ Len(io[c].out) \in Nat
<1>1. link[c] \in Sockets /\ io[c] \in Sessions
  BY DEF TransportTypeOK
<1>2. /\ link[c].up \in Seq(Pieces) /\ link[c].down \in Seq(Pieces)
      /\ link[c].client \in {"none", "open", "closed"}
      /\ link[c].server \in {"none", "backlog", "open", "shut", "closed"}
      /\ io[c].got \in Seq(Pieces) /\ io[c].out \in Seq(Pieces)
      /\ io[c].ready \in BOOLEAN
  BY <1>1 DEF Sockets, Sessions
<1> QED  BY <1>1, <1>2, LenProperties

\* Sizes of payloads.
LEMMA Sizes ==
    /\ RequestSize \in [Ops -> Nat] /\ ResponseSize \in [Ops -> Nat]
    /\ AskSize = 1 /\ ResponseSize["tree"] = 3 /\ ResponseSize["done"] = 0
    /\ ResponseSize["vdi"] = 0
    /\ Ops = {"plain", "vdi", "tree", "done"}
BY DEF Ops, RequestSize, ResponseSize, AskSize

\* What of a request is on its way is counted by naturals.
LEMMA LoadFacts ==
    ASSUME TransportTypeOK, NEW c \in Links
    PROVE  /\ Unsent(c) \in Seq(Pieces) /\ Reading(c) \in Seq(Pieces)
           /\ Len(Unsent(c)) \in Nat /\ Len(Reading(c)) \in Nat /\ Load(c) \in Nat
<1>1. Reading(c) \in Seq(Pieces)
  BY LinkFacts, Nothing0 DEF Reading
<1>2. Unsent(c) \in Seq(Pieces)
  <2>1. stack \in Seq(Requests)
    BY DEF TransportTypeOK
  <2>2. ASSUME stack # <<>> PROVE stack[1].left \in Seq(Pieces)
    <3>1. 1 \in 1..Len(stack)
      BY <2>1, <2>2, StackFacts
    <3> QED  BY <2>1, <3>1, StackFacts
  <2> QED  BY <2>2, Nothing0 DEF Unsent, Top
<1>3. Len(Unsent(c)) \in Nat /\ Len(Reading(c)) \in Nat /\ Len(link[c].up) \in Nat
  BY <1>1, <1>2, LinkFacts, LenProperties
<1> QED  BY <1>1, <1>2, <1>3 DEF Load

LEMMA LoadsLater == TransportTypeOK' => (\A c \in Links : Load(c) \in Nat)'
<1>1. TransportTypeOK => \A c \in Links : Load(c) \in Nat
  BY LoadFacts
<1> QED  BY <1>1, PTL

\* Requests on their way only become fewer.
LEMMA UpstreamKept ==
    ASSUME Upstream,
           \A c \in Links : Heads(c)' \subseteq Heads(c),
           \A c \in Links : \A p \in Heads(c)' :
              Awaited(p)' /\ Placed(c, p)' /\ Load(c)' <= p.size + 1
    PROVE  Upstream'
BY DEF Upstream

\* What the server has not sent yet.
LEMMA PendingFacts ==
    ASSUME TransportTypeOK, sock # 0
    PROVE  Pending \in Seq(Pieces)
<1>1. sock \in Links
  BY DEF TransportTypeOK
<1> QED  BY <1>1, LinkFacts, Nothing0 DEF Pending

\* The first piece of two sequences put together.
LEMMA TailJoined ==
    ASSUME NEW s \in Seq(Pieces), NEW t \in Seq(Pieces), s # <<>>
    PROVE  /\ s \o t # <<>> /\ (s \o t)[1] = s[1]
           /\ Tail(s \o t) \in Seq(Pieces)
           /\ Len(Tail(s \o t)) = Len(Tail(s)) + Len(t)
           /\ Range(Tail(s \o t)) \subseteq Range(Tail(s)) \cup Range(t)
<1> DEFINE j == s \o t
<1>1. /\ j \in Seq(Pieces) /\ Len(j) = Len(s) + Len(t)
      /\ \A i \in 1..(Len(s) + Len(t)) : j[i] = IF i <= Len(s) THEN s[i] ELSE t[i - Len(s)]
  BY ConcatProperties
<1>2. Len(s) \in Nat \ {0} /\ Len(t) \in Nat
  BY Nothing0
<1> HIDE DEF j
<1>3. j # <<>> /\ j[1] = s[1]
  <2>1. Len(j) # 0 /\ 1 \in 1..(Len(s) + Len(t)) /\ 1 <= Len(s)
    BY <1>1, <1>2
  <2> QED  BY <1>1, <2>1, Nothing0
<1>4. /\ Tail(j) \in Seq(Pieces) /\ Len(Tail(j)) = Len(j) - 1
      /\ \A i \in 1..Len(Tail(j)) : Tail(j)[i] = j[i + 1]
      /\ Tail(s) \in Seq(Pieces) /\ Len(Tail(s)) = Len(s) - 1
      /\ \A i \in 1..Len(Tail(s)) : Tail(s)[i] = s[i + 1]
  BY <1>1, <1>3, HeadTailProperties
<1>5. /\ Range(Tail(j)) = {Tail(j)[i] : i \in 1..Len(Tail(j))}
      /\ Range(Tail(s)) = {Tail(s)[i] : i \in 1..Len(Tail(s))}
      /\ Range(t) = {t[i] : i \in 1..Len(t)}
  BY <1>4, RangeEquality
<1>6. Range(Tail(j)) \subseteq Range(Tail(s)) \cup Range(t)
  <2> SUFFICES ASSUME NEW i \in 1..Len(Tail(j))
               PROVE  Tail(j)[i] \in Range(Tail(s)) \cup Range(t)
    BY <1>5
  <2>1. /\ Tail(j)[i] = j[i + 1] /\ i + 1 \in 1..(Len(s) + Len(t)) /\ i \in Nat
        /\ i >= 1 /\ i + 1 <= Len(s) + Len(t)
    BY <1>1, <1>2, <1>4
  <2>2. CASE i + 1 <= Len(s)
    <3>1. i \in 1..Len(Tail(s)) /\ Tail(j)[i] = s[i + 1]
      BY <1>1, <1>2, <1>4, <2>1, <2>2
    <3> QED  BY <1>4, <1>5, <3>1
  <2>3. CASE ~(i + 1 <= Len(s))
    <3>1. i + 1 - Len(s) \in 1..Len(t) /\ Tail(j)[i] = t[i + 1 - Len(s)]
      BY <1>1, <1>2, <2>1, <2>3
    <3> QED  BY <1>5, <3>1
  <2> QED  BY <2>2, <2>3
<1>7. Len(Tail(j)) = Len(Tail(s)) + Len(t)
  BY <1>1, <1>2, <1>4
<1> QED  BY <1>3, <1>4, <1>6, <1>7 DEF j

\* Requests on their way when the client does nothing.
LEMMA UpstreamSame ==
    ASSUME TransportTypeOK, TransportTypeOK', Upstream,
           UNCHANGED <<stack, sock, calls, served>>,
           drawing'.link = drawing.link, drawing'.call = drawing.call,
           \A c \in Links : Heads(c)' \subseteq Heads(c),
           \A c \in Links : Heads(c)' # {} => Load(c)' <= Load(c)
    PROVE  Upstream'
<1> SUFFICES ASSUME NEW c \in Links, NEW p \in Heads(c)'
             PROVE  Awaited(p)' /\ Placed(c, p)' /\ Load(c)' <= p.size + 1
  BY UpstreamKept
<1>1. Awaited(p) /\ Placed(c, p) /\ Load(c) <= p.size + 1
  BY DEF Upstream
<1>2. Awaited(p)'
  BY <1>1 DEF Awaited
<1>3. Placed(c, p)'
  BY <1>1 DEF Placed, Talking, Top, Request
<1>4. p.size \in Nat /\ Load(c) \in Nat /\ Load(c)' \in Nat
  BY <1>1, Sizes, LoadFacts, LoadsLater DEF Awaited
<1>5. Load(c)' <= Load(c)
  OBVIOUS
<1> QED  BY <1>1, <1>2, <1>3, <1>4, <1>5

\* What is on its way to the client stays, or what is not sent yet is dropped.
LEMMA DownstreamSame ==
    ASSUME TransportTypeOK, Downstream, UNCHANGED <<stack, sock>>,
           sock # 0 => /\ link'[sock].down = link[sock].down
                       /\ Pending' \in {Pending, <<>>} /\ Pending \in Seq(Pieces),
           \A n \in 1..Len(stack) : served[stack[n].id] = 1 => served'[stack[n].id] = 1,
           sock # 0 /\ stack # <<>> /\ Asked(Outer) => Asked(Outer)',
           stack # <<>> /\ Top.op = "tree" => Len(stack) = 1
    PROVE  Downstream'
<1> SUFFICES ASSUME sock # 0 PROVE Downstream'
  BY DEF Downstream
<1> DEFINE down == link[sock].down
<1>1. sock \in Links /\ down \in Seq(Pieces)
  BY LinkFacts DEF TransportTypeOK
<1>2. Len(stack) \in Nat /\ (stack = <<>> <=> Len(stack) = 0)
  BY StackFacts DEF TransportTypeOK
<1>3. ASSUME Silent PROVE Silent'
  BY <1>3 DEF Silent, Top
<1>4. \A got \in Seq(Pieces), d \in Seq(Pieces) : \A p :
          Comes(got, d, Pending, p) /\ p.size \in Nat => Comes(got, d, Pending', p)
  <2>1. Pending' = Pending \/ Pending' = <<>>
    OBVIOUS
  <2> SUFFICES ASSUME NEW got \in Seq(Pieces), NEW d \in Seq(Pieces), NEW p,
                      Comes(got, d, Pending, p), p.size \in Nat
               PROVE  Comes(got, d, <<>>, p)
    BY <2>1
  <2>2. Len(got) \in Nat /\ Len(d) \in Nat /\ Len(Pending) \in Nat
    BY Nothing0
  <2>3. Len(<<>>) = 0 /\ Range(<<>>) = {}
    BY Nothing0
  <2>4. Range(got) \cup Range(d) \cup Range(<<>>) \subseteq {p}
    BY <2>3 DEF Comes
  <2>5. Len(got) + Len(d) + Len(<<>>) <= p.size + 1
    BY <2>2, <2>3 DEF Comes
  <2> QED  BY <2>4, <2>5 DEF Comes
<1>5. ASSUME stack # <<>>, Answered PROVE Answered'
  <2>1. PICK p \in Pieces : /\ Answer(p, Top) /\ Len(Top.got) <= p.size
                           /\ Comes(Top.got, down, Pending, p)
    BY <1>5 DEF Answered
  <2>2. 1 \in 1..Len(stack) /\ Top \in Requests /\ Top.got \in Seq(Pieces)
    BY <1>2, <1>5, StackFacts DEF TransportTypeOK, Top
  <2>3. Top.op = "tree" => Outer = Top
    BY <1>5 DEF Outer, Top
  <2>4. Answer(p, Top)'
    <3>1. served[Top.id] = 1 => served'[Top.id] = 1
      BY <2>2 DEF Top
    <3>2. Top' = Top
      BY DEF Top
    <3>3. Asked(Outer)' = Asked(Outer') \/ TRUE
      OBVIOUS
    <3>4. Outer' = Outer
      BY DEF Outer
    <3>5. Top.op = "tree" /\ Asked(Top) => Asked(Top)'
      BY <1>5, <2>3, <3>2, <3>4
    <3> QED  BY <2>1, <3>1, <3>2, <3>5 DEF Answer, Reply, Question
  <2>5. p.size \in Nat
    BY DEF Pieces
  <2>6. Comes(Top.got, down, Pending', p)
    BY <1>1, <1>4, <2>1, <2>2, <2>5
  <2> QED  BY <2>1, <2>4, <2>6 DEF Answered, Top
<1>6. ASSUME stack # <<>>, Acknowledged PROVE Acknowledged'
  <2>1. PICK p \in Pieces : Follows(p) /\ Behind(down, p)
    BY <1>6 DEF Acknowledged
  <2>2. 1 \in 1..Len(stack) /\ Len(stack) \in 1..Len(stack)
    BY <1>2, <1>6
  <2>3. Top' = Top /\ Outer' = Outer
    BY DEF Top, Outer
  <2>4. Follows(p)'
    <3>1. served[Outer.id] = 1 => served'[Outer.id] = 1
      BY <2>2 DEF Outer
    <3> QED  BY <1>6, <2>1, <2>3, <3>1 DEF Follows, Reply, Question
  <2>5. p.size \in Nat
    BY DEF Pieces
  <2>6. Behind(down, p)'
    <3>1. CASE Comes(<<>>, down, Pending, p)
      BY <1>1, <1>4, <2>5, <3>1, Nothing0 DEF Behind, Comes
    <3>2. CASE down # <<>> /\ down[1] = Reply(Top, 0) /\ Comes(<<>>, Tail(down), Pending, p)
      <4>1. Tail(down) \in Seq(Pieces)
        BY <1>1, <3>2, Popped
      <4>2. Comes(<<>>, Tail(down), Pending', p)
        BY <1>4, <2>5, <3>2, <4>1, Nothing0
      <4>3. Reply(Top, 0)' = Reply(Top, 0) /\ down' = down
        BY <2>3 DEF Reply
      <4> QED  BY <3>2, <4>2, <4>3 DEF Behind
    <3> QED  BY <2>1, <3>1, <3>2 DEF Behind
  <2>7. served'[Top.id] = 1
    BY <1>6, <2>2 DEF Acknowledged, Top
  <2> QED  BY <1>6, <2>3, <2>4, <2>6, <2>7 DEF Acknowledged
<1> QED  BY <1>3, <1>5, <1>6 DEF Downstream, Top

\* A tree's call is never made inside another.
LEMMA StackOfTree ==
    ASSUME TransportInv
    PROVE  stack # <<>> /\ Top.op = "tree" => Len(stack) = 1
<1>1. Len(stack) \in Nat /\ (stack = <<>> <=> Len(stack) = 0)
  BY StackFacts DEF TransportInv, TransportTypeOK
<1>2. Nesting
  BY DEF TransportInv
<1>3. Len(stack) <= 2
  BY <1>2 DEF Nesting
<1>4. stack # <<>> => Len(stack) \in {1, 2}
  <2>1. \A n \in Nat : n <= 2 /\ n # 0 => n \in {1, 2}
    OBVIOUS
  <2> QED  BY <1>1, <1>3, <2>1
<1> QED  BY <1>2, <1>4 DEF Nesting

-----------------------------------------------------------------------------
(* The server's side of a connection                                          *)

\* What only the client's own steps can disturb.
LEMMA NothingSaid ==
    ASSUME TransportInv, UNCHANGED <<stack, sock, calls, served>>,
           drawing'.link = drawing.link, drawing'.call = drawing.call
    PROVE  Nesting' /\ Sending' /\ Unserved'
BY DEF TransportInv, Nesting, Sending, Awaited, Unserved, Outer, Top, Request

\* What a server's step may do to the ends of a connection.
LEMMA ConnectedKept ==
    ASSUME Connected, UNCHANGED <<stack, sock>>,
           \A d \in Links :
              \/ link'[d] = link[d] /\ io'[d] = io[d]
              \/ /\ link[d].server # "none" /\ link'[d].client = link[d].client
                 /\ link'[d].server \in {"open", "shut", "closed"}
    PROVE  Connected'
<1>1. NoLink.server = "none"
  BY DEF NoLink
<1>2. (Talking => sock # 0)'
  BY DEF Connected, Talking, Top
<1>3. ASSUME NEW d \in Links
      PROVE  /\ link'[d].client = "open" <=> d = sock'
             /\ link'[d].client = "none" => link'[d] = NoLink
             /\ link'[d].server \in {"none", "backlog"} => io'[d] = Idle /\ link'[d].down = <<>>
             /\ link'[d].server = "none" => link'[d].client = "none"
             /\ link[d].client # "none" => link'[d].client # "none"
  <2>1. /\ link[d].client = "open" <=> d = sock
        /\ link[d].client = "none" => link[d] = NoLink
        /\ link[d].server \in {"none", "backlog"} => io[d] = Idle /\ link[d].down = <<>>
        /\ link[d].server = "none" => link[d].client = "none"
    BY DEF Connected
  <2>2. CASE link'[d] = link[d] /\ io'[d] = io[d]
    BY <2>1, <2>2
  <2>3. CASE /\ link[d].server # "none" /\ link'[d].client = link[d].client
             /\ link'[d].server \in {"open", "shut", "closed"}
    BY <1>1, <2>1, <2>3
  <2> QED  BY <2>2, <2>3
<1>4. (stack # <<>> \/ sock # 0 => link[1].client # "none")'
  BY <1>3, TransportAssumption DEF Connected, TransportAssumption
<1> QED  BY <1>2, <1>3, <1>4 DEF Connected

\* What a call-back relies on while its reply is not served.
LEMMA CalledBackKept ==
    ASSUME CalledBack, UNCHANGED <<stack, sock>>, Live(1)' => Live(1),
           ResultServed => ResultServed',
           sock = 1 /\ Live(1)' /\ ~ResultServed' /\ Asks(Outer) => Asks(Outer)'
    PROVE  CalledBack'
BY DEF CalledBack, Outer

-----------------------------------------------------------------------------
(* Steps of the server                                                        *)

\* main() accepts a connection.
LEMMA AcceptStep ==
    ASSUME TransportInv, NEW c \in Links, Accept(c)
    PROVE  TransportInv'
<1>1. /\ drawing.link = 0 /\ link[c].server = "backlog"
      /\ link' = [link EXCEPT ![c].server = "open"]
      /\ UNCHANGED <<stack, sock, io, drawing, calls, served>>
  BY DEF Accept, Alone, clientVars
<1>2. /\ TransportTypeOK /\ Connected /\ Upstream /\ Ready /\ Drawing /\ CalledBack
      /\ Downstream
  BY DEF TransportInv
<1>3. \A d \in Links :
          /\ link'[d].up = link[d].up /\ link'[d].down = link[d].down
          /\ link'[d].client = link[d].client
          /\ link'[d].server = IF d = c THEN "open" ELSE link[d].server
          /\ d # c => link'[d] = link[d]
  BY <1>1, <1>2, LinkFacts DEF TransportTypeOK, Sockets
<1>4. TransportTypeOK'
  <2>1. [link[c] EXCEPT !.server = "open"] \in Sockets
    BY <1>2, LinkFacts DEF Sockets
  <2>2. link' \in [Links -> Sockets]
    BY <1>1, <1>2, <2>1 DEF TransportTypeOK
  <2> QED  BY <1>1, <1>2, <1>3, <2>2 DEF TransportTypeOK
<1>5. Connected'
  BY <1>1, <1>2, <1>3, ConnectedKept
<1>6. \A d \in Links : (Live(d) <=> Live(d)') /\ Reading(d)' = Reading(d)
  BY <1>1, <1>3 DEF Live, Reading
<1>7. Upstream'
  <2>1. \A d \in Links : Heads(d)' \subseteq Heads(d)
    BY <1>3, <1>6 DEF Heads
  <2>2. \A d \in Links : Load(d)' = Load(d)
    BY <1>1, <1>3, <1>6 DEF Load, Unsent, Top
  <2>3. \A d \in Links : Load(d)' <= Load(d)
    BY <1>2, <2>2, LoadFacts
  <2> QED  BY <1>1, <1>2, <1>4, <2>1, <2>3, UpstreamSame
<1>8. Ready'
  BY <1>1, <1>2, <1>6 DEF Ready
<1>9. Drawing'
  BY <1>1, <1>2 DEF Drawing
<1>10. CalledBack'
  BY <1>1, <1>2, <1>6, CalledBackKept, TransportAssumption
     DEF Top, Outer, ResultServed, Asks, TransportAssumption
<1>11. Downstream'
  <2>1. ASSUME sock # 0 PROVE Pending' = Pending /\ Pending \in Seq(Pieces)
    <3>1. sock \in Links
      BY <1>2, <2>1 DEF TransportTypeOK
    <3>2. CASE sock = c
      BY <1>1, <1>2, <1>3, <3>1, <3>2, Nothing0 DEF Pending, Connected, Idle
    <3>3. CASE sock # c
      BY <1>1, <1>2, <1>3, <3>1, <3>3, Nothing0, LinkFacts DEF Pending
    <3> QED  BY <3>2, <3>3
  <2>2. sock # 0 => link'[sock].down = link[sock].down
    BY <1>2, <1>3 DEF TransportTypeOK
  <2>3. sock # 0 /\ stack # <<>> /\ Asked(Outer) => Asked(Outer)'
    BY <1>1, <1>2, <1>6 DEF Asked, Asks, Outer, TransportTypeOK
  <2> QED  BY <1>1, <1>2, <2>1, <2>2, <2>3, DownstreamSame, StackOfTree
<1> QED  BY <1>1, <1>4, <1>5, <1>7, <1>8, <1>9, <1>10, <1>11, NothingSaid DEF TransportInv

\* A connection is closed: the peer has left or a deadline is over.
LEMMA CloseStep ==
    ASSUME TransportInv, NEW c \in Links, Close(c)
    PROVE  TransportInv'
<1>1. /\ drawing.link = 0 /\ link[c].server \in {"open", "shut"}
      /\ link' = [link EXCEPT ![c].server = "closed", ![c].up = <<>>]
      /\ io' = [io EXCEPT ![c] = Idle]
      /\ UNCHANGED <<stack, sock, drawing, calls, served>>
  BY DEF Close, Alone, clientVars
<1>2. /\ TransportTypeOK /\ Connected /\ Upstream /\ Ready /\ Drawing /\ CalledBack
      /\ Downstream
  BY DEF TransportInv
<1>3. \A d \in Links :
          /\ link'[d].up = IF d = c THEN <<>> ELSE link[d].up
          /\ link'[d].down = link[d].down /\ link'[d].client = link[d].client
          /\ link'[d].server = IF d = c THEN "closed" ELSE link[d].server
          /\ d # c => link'[d] = link[d]
          /\ io'[d] = IF d = c THEN Idle ELSE io[d]
  BY <1>1, <1>2, LinkFacts DEF TransportTypeOK, Sockets
<1>4. TransportTypeOK'
  <2>1. [link[c] EXCEPT !.server = "closed", !.up = <<>>] \in Sockets /\ Idle \in Sessions
    BY <1>2, LinkFacts, Nothing0 DEF Sockets, Sessions, Idle
  <2>2. link' \in [Links -> Sockets] /\ io' \in [Links -> Sessions]
    BY <1>1, <1>2, <2>1 DEF TransportTypeOK
  <2>3. \A d \in Links : Len(link'[d].up) <= Buffer /\ Len(link'[d].down) <= Buffer
    BY <1>2, <1>3, Nothing0, TransportAssumption DEF TransportTypeOK, TransportAssumption
  <2> QED  BY <1>1, <1>2, <2>2, <2>3 DEF TransportTypeOK
<1>5. Connected'
  BY <1>1, <1>2, <1>3, ConnectedKept
<1>6. \A d \in Links : /\ Live(d)' <=> (Live(d) /\ d # c)
                       /\ d # c => Reading(d)' = Reading(d)
  <2> SUFFICES ASSUME NEW d \in Links
               PROVE  /\ Live(d)' <=> (Live(d) /\ d # c)
                      /\ d # c => Reading(d)' = Reading(d)
    OBVIOUS
  <2>1. Live(d)' <=> (Live(d) /\ d # c)
    BY <1>3 DEF Live
  <2>2. d # c => Reading(d)' = Reading(d)
    BY <1>1, <1>3 DEF Reading
  <2> QED  BY <2>1, <2>2
<1>7. Upstream'
  <2>1. \A d \in Links : Heads(d)' \subseteq Heads(d) /\ (Heads(d)' # {} => d # c)
    BY <1>3, <1>6 DEF Heads
  <2>2. \A d \in Links : d # c => Load(d)' = Load(d)
    BY <1>1, <1>3, <1>6 DEF Load, Unsent, Top
  <2>3. \A d \in Links : Heads(d)' # {} => Load(d)' <= Load(d)
    BY <1>2, <2>1, <2>2, LoadFacts
  <2> QED  BY <1>1, <1>2, <1>4, <2>1, <2>3, UpstreamSame
<1>8. Ready'
  BY <1>1, <1>2, <1>3, <1>6 DEF Ready, Idle
<1>9. Drawing'
  BY <1>1, <1>2 DEF Drawing
<1>10. CalledBack'
  BY <1>1, <1>2, <1>6, CalledBackKept, TransportAssumption
     DEF Top, Outer, ResultServed, Asks, TransportAssumption
<1>11. Downstream'
  <2>1. ASSUME sock # 0 PROVE Pending' \in {Pending, <<>>} /\ Pending \in Seq(Pieces)
    <3>1. sock \in Links
      BY <1>2, <2>1 DEF TransportTypeOK
    <3>2. Pending' \in {Pending, <<>>}
      <4>1. CASE sock = c
        <5>1. link'[sock'].server = "closed"
          BY <1>1, <1>3, <3>1, <4>1
        <5> QED  BY <5>1 DEF Pending
      <4>2. CASE sock # c
        <5>1. sock' = sock /\ link'[sock] = link[sock] /\ io'[sock] = io[sock]
          BY <1>1, <1>3, <3>1, <4>2
        <5> QED  BY <5>1 DEF Pending
      <4> QED  BY <4>1, <4>2
    <3> QED  BY <1>2, <2>1, <3>2, PendingFacts
  <2>2. sock # 0 => link'[sock].down = link[sock].down
    BY <1>2, <1>3 DEF TransportTypeOK
  <2>3. sock # 0 /\ stack # <<>> /\ Asked(Outer) => Asked(Outer)'
    BY <1>1, <1>2, <1>6 DEF Asked, Asks, Outer, TransportTypeOK
  <2> QED  BY <1>1, <1>2, <2>1, <2>2, <2>3, DownstreamSame, StackOfTree
<1> QED  BY <1>1, <1>4, <1>5, <1>7, <1>8, <1>9, <1>10, <1>11, NothingSaid DEF TransportInv

\* In the main loop, or of the call-back's own connection.
LEMMA ReceiveStep ==
    ASSUME TransportInv, NEW c \in Links, Receive(c), link[c].server = "open",
           drawing.link = c => drawing.asking
    PROVE  TransportInv'
<1> DEFINE got  == io[c].got
           up   == link[c].up
           head == IF got # <<>> THEN got[1] ELSE up[1]
           n    == Least(Len(up), FrameLength(head) - Len(got))
<1>1. /\ ~io[c].ready /\ io[c].out = <<>> /\ up # <<>>
      /\ link' = [link EXCEPT ![c].up = SubSeq(@, n + 1, Len(@))]
      /\ io' = [io EXCEPT ![c].got   = @ \o SubSeq(up, 1, n),
                          ![c].ready = Len(got) + n = FrameLength(head)]
      /\ UNCHANGED <<stack, sock, drawing, calls, served>>
  BY DEF Receive, clientVars
<1>2. /\ TransportTypeOK /\ Connected /\ Upstream /\ Ready /\ Drawing /\ CalledBack
      /\ Downstream
  BY DEF TransportInv
<1>3. /\ got \in Seq(Pieces) /\ up \in Seq(Pieces) /\ Len(got) \in Nat /\ Len(up) \in Nat
      /\ Live(c) /\ Reading(c) = got
  BY <1>2, LinkFacts DEF Live, Reading
<1>4. head \in Heads(c)
  BY <1>1, <1>3, Nothing0 DEF Heads
<1>5. /\ Len(got) + Len(up) <= head.size + 1 /\ head.size \in Nat
      /\ \A q \in Heads(c) : q = head
  <2>1. /\ Load(c) <= head.size + 1 /\ \A q \in Heads(c) : q = head
        /\ head.size \in Nat
    BY <1>2, <1>4, Sizes DEF Upstream, Awaited
  <2>2. Len(Unsent(c)) \in Nat /\ Load(c) = Len(Unsent(c)) + Len(up) + Len(got)
    BY <1>2, <1>3, LoadFacts DEF Load
  <2> HIDE DEF got, up, head
  <2> QED  BY <1>3, <2>1, <2>2
<1>6. n = Len(up)
  <2> HIDE DEF got, up, head
  <2> QED  BY <1>3, <1>5 DEF Least, FrameLength
<1>7. SubSeq(up, 1, n) = up /\ SubSeq(up, n + 1, Len(up)) = <<>>
  BY <1>3, <1>6, SubSeqFull, SubSeqEmpty
<1>8. \A d \in Links :
          /\ link'[d].up = IF d = c THEN <<>> ELSE link[d].up
          /\ link'[d].down = link[d].down /\ link'[d].client = link[d].client
          /\ link'[d].server = link[d].server
          /\ d # c => link'[d] = link[d] /\ io'[d] = io[d]
          /\ io'[d].got = IF d = c THEN got \o up ELSE io[d].got
          /\ io'[d].out = io[d].out
          /\ io'[d].ready = IF d = c THEN Len(got) + Len(up) = FrameLength(head) ELSE io[d].ready
  <2> HIDE DEF head, n
  <2> QED  BY <1>1, <1>2, <1>6, <1>7, LinkFacts DEF TransportTypeOK, Sockets, Sessions
<1>9. /\ got \o up \in Seq(Pieces) /\ Len(got \o up) = Len(got) + Len(up)
      /\ Range(got \o up) = Range(got) \cup Range(up)
  BY <1>3, Joined
<1>10. (got \o up)[1] = head
  <2>1. got \o up # <<>>
    BY <1>1, <1>3, ConcatEqualIffEmpty
  <2>2. (got \o up)[1] \in Range(got) \cup Range(up)
    BY <1>9, <2>1, Nothing0
  <2> QED  BY <1>3, <1>5, <2>2 DEF Heads
<1> HIDE DEF head, n
<1>11. TransportTypeOK'
  <2>1. [link[c] EXCEPT !.up = <<>>] \in Sockets
    BY <1>2, LinkFacts, Nothing0 DEF Sockets
  <2>2. [io[c] EXCEPT !.got = got \o up, !.ready = Len(got) + Len(up) = FrameLength(head)]
           \in Sessions
    BY <1>2, <1>9, LinkFacts DEF Sessions
  <2>3. link' \in [Links -> Sockets] /\ io' \in [Links -> Sessions]
    BY <1>1, <1>2, <1>6, <1>7, <2>1, <2>2 DEF TransportTypeOK
  <2>4. \A d \in Links : Len(link'[d].up) <= Buffer /\ Len(link'[d].down) <= Buffer
    <3>1. 0 <= Buffer /\ Len(<<>>) = 0
      BY Nothing0, TransportAssumption DEF TransportAssumption
    <3>2. \A d \in Links : Len(link[d].up) <= Buffer /\ Len(link[d].down) <= Buffer
      BY <1>2 DEF TransportTypeOK
    <3> QED  BY <1>8, <3>1, <3>2
  <2> QED  BY <1>1, <1>2, <2>3, <2>4 DEF TransportTypeOK
<1>12. Connected'
  BY <1>1, <1>2, <1>8, ConnectedKept
<1>13. \A d \in Links : /\ Live(d)' <=> Live(d)
                        /\ Reading(d)' = IF d = c THEN got \o up ELSE Reading(d)
  <2> SUFFICES ASSUME NEW d \in Links
               PROVE  /\ Live(d)' <=> Live(d)
                      /\ Reading(d)' = IF d = c THEN got \o up ELSE Reading(d)
    OBVIOUS
  <2>1. Live(d)' <=> Live(d)
    BY <1>8 DEF Live
  <2>2. CASE d = c
    BY <1>1, <1>8, <2>1, <2>2 DEF Reading
  <2>3. CASE d # c
    <3>1. io'[d].got = io[d].got
      BY <1>8, <2>3
    <3> QED  BY <1>1, <2>1, <2>3, <3>1 DEF Reading
  <2> QED  BY <2>1, <2>2, <2>3
<1>14. Upstream'
  <2>1. ASSUME NEW d \in Links PROVE Heads(d)' \subseteq Heads(d) /\ Load(d)' <= Load(d)
    <3>1. CASE d # c
      <4>1. Heads(d)' = Heads(d) /\ Load(d)' = Load(d)
        BY <1>1, <1>8, <1>13, <3>1 DEF Heads, Load, Unsent, Top
      <4> QED  BY <1>2, <4>1, LoadFacts
    <3>2. CASE d = c
      <4>1. Heads(d)' \subseteq Heads(d)
        BY <1>3, <1>8, <1>9, <1>13, <3>2, Nothing0 DEF Heads
      <4>2. Unsent(c)' = Unsent(c) /\ Len(Unsent(c)) \in Nat
        BY <1>1, <1>2, LoadFacts DEF Unsent, Top
      <4>3. Load(c)' = Len(Unsent(c)) + 0 + (Len(got) + Len(up))
        BY <1>8, <1>9, <1>13, <4>2, Nothing0 DEF Load
      <4>4. Load(c) = Len(Unsent(c)) + Len(up) + Len(got)
        BY <1>3 DEF Load
      <4>5. Load(c)' <= Load(c)
        <5> HIDE DEF got, up
        <5> QED  BY <1>3, <4>2, <4>3, <4>4
      <4> QED  BY <3>2, <4>1, <4>5
    <3> QED  BY <3>1, <3>2
  <2> QED  BY <1>1, <1>2, <1>11, <2>1, UpstreamSame
<1>15. Ready'
  <2> SUFFICES ASSUME NEW d \in Links, io'[d].ready
               PROVE  /\ io'[d].out = <<>>
                      /\ (drawing.link = d => drawing.asking) =>
                            io'[d].got # <<>> /\ Len(io'[d].got) = FrameLength(io'[d].got[1])
    BY <1>1 DEF Ready
  <2>1. CASE d = c
    <3>1. io'[c].got = got \o up /\ Len(got) + Len(up) = FrameLength(head)
      BY <1>8, <2>1
    <3>2. got \o up # <<>>
      BY <1>1, <1>3, ConcatEqualIffEmpty
    <3>3. io'[c].out = <<>>
      BY <1>1, <1>8, <2>1
    <3> HIDE DEF got, up
    <3> QED  BY <1>9, <1>10, <2>1, <3>1, <3>2, <3>3
  <2>2. CASE d # c
    <3>1. io'[d] = io[d]
      BY <1>8, <2>2
    <3> QED  BY <1>2, <3>1 DEF Ready
  <2> QED  BY <2>1, <2>2
<1>16. Drawing'
  BY <1>1, <1>2, <1>8, TransportAssumption DEF Drawing, Outer, TransportAssumption
<1>17. CalledBack'
  BY <1>1, <1>2, <1>13, CalledBackKept, TransportAssumption
     DEF Top, Outer, ResultServed, Asks, TransportAssumption
<1>18. Downstream'
  <2>1. ASSUME sock # 0 PROVE Pending' \in {Pending, <<>>} /\ Pending \in Seq(Pieces)
    <3>1. sock \in Links
      BY <1>2, <2>1 DEF TransportTypeOK
    <3>2. Pending' = Pending
      <4>1. /\ sock' = sock /\ link'[sock].server = link[sock].server
            /\ io'[sock].out = io[sock].out
        BY <1>1, <1>8, <3>1
      <4> QED  BY <4>1 DEF Pending
    <3> QED  BY <1>2, <2>1, <3>2, PendingFacts
  <2>2. sock # 0 => link'[sock].down = link[sock].down
    BY <1>2, <1>8 DEF TransportTypeOK
  <2>3. sock # 0 /\ stack # <<>> /\ Asked(Outer) => Asked(Outer)'
    BY <1>1, <1>2, <1>13 DEF Asked, Asks, Outer, TransportTypeOK
  <2> QED  BY <1>1, <1>2, <2>1, <2>2, <2>3, DownstreamSame, StackOfTree
<1> QED  BY <1>1, <1>11, <1>12, <1>14, <1>15, <1>16, <1>17, <1>18, NothingSaid DEF TransportInv

\* gemd_send(): the reply moves on, as far as the socket takes it.
LEMMA SendStep ==
    ASSUME TransportInv, NEW c \in Links, Send(c), drawing.link = c => drawing.asking
    PROVE  TransportInv'
<1> DEFINE down == link[c].down
           out  == io[c].out
           n    == Least(Buffer - Len(down), Len(out))
           a    == SubSeq(out, 1, n)
           b    == SubSeq(out, n + 1, Len(out))
<1>1. /\ out # <<>> /\ n > 0 /\ link[c].client = "open" /\ link[c].server = "open"
      /\ link' = [link EXCEPT ![c].down = @ \o a]
      /\ io' = [io EXCEPT ![c].out = SubSeq(@, n + 1, Len(@))]
      /\ UNCHANGED <<stack, sock, drawing, calls, served>>
  BY DEF Send, clientVars
<1>2. /\ TransportTypeOK /\ Connected /\ Upstream /\ Ready /\ Drawing /\ CalledBack
      /\ Downstream /\ Nesting
  BY DEF TransportInv
<1>3. /\ down \in Seq(Pieces) /\ out \in Seq(Pieces) /\ Len(down) \in Nat /\ Len(out) \in Nat
      /\ Len(down) <= Buffer
  BY <1>2, LinkFacts DEF TransportTypeOK
<1>4. n \in 0..Len(out) /\ Len(down) + n <= Buffer
  <2> HIDE DEF down, out
  <2>1. Buffer \in Nat
    BY TransportAssumption DEF TransportAssumption
  <2> QED  BY <1>1, <1>3, <2>1 DEF Least
<1> HIDE DEF n
<1>5. /\ a \in Seq(Pieces) /\ Len(a) = n /\ Range(a) \subseteq Range(out)
      /\ b \in Seq(Pieces) /\ Len(b) = Len(out) - n /\ Range(b) \subseteq Range(out)
  BY <1>3, <1>4, Cut
<1>6. /\ down \o a \in Seq(Pieces) /\ Len(down \o a) = Len(down) + n
      /\ Range(down \o a) = Range(down) \cup Range(a)
  BY <1>3, <1>5, Joined
<1>7. io' = [io EXCEPT ![c].out = b]
  BY <1>1
<1> HIDE DEF a, b
<1>8. \A d \in Links :
          /\ link'[d].up = link[d].up /\ link'[d].client = link[d].client
          /\ link'[d].down = IF d = c THEN down \o a ELSE link[d].down
          /\ link'[d].server = link[d].server
          /\ d # c => link'[d] = link[d] /\ io'[d] = io[d]
          /\ io'[d].got = io[d].got /\ io'[d].ready = io[d].ready
          /\ io'[d].out = IF d = c THEN b ELSE io[d].out
  <2> SUFFICES ASSUME NEW d \in Links
               PROVE  /\ link'[d].up = link[d].up /\ link'[d].client = link[d].client
                      /\ link'[d].down = IF d = c THEN down \o a ELSE link[d].down
                      /\ link'[d].server = link[d].server
                      /\ d # c => link'[d] = link[d] /\ io'[d] = io[d]
                      /\ io'[d].got = io[d].got /\ io'[d].ready = io[d].ready
                      /\ io'[d].out = IF d = c THEN b ELSE io[d].out
    OBVIOUS
  <2>1. link' = [link EXCEPT ![c] = [link[c] EXCEPT !.down = down \o a]]
    BY <1>1
  <2>2. io' = [io EXCEPT ![c] = [io[c] EXCEPT !.out = b]]
    BY <1>7
  <2>3. link[c] \in Sockets /\ io[c] \in Sessions
    BY <1>2, LinkFacts
  <2> HIDE DEF down, out
  <2>4. /\ link'[d] = IF d = c THEN [link[c] EXCEPT !.down = down \o a] ELSE link[d]
        /\ io'[d] = IF d = c THEN [io[c] EXCEPT !.out = b] ELSE io[d]
    BY <1>2, <2>1, <2>2 DEF TransportTypeOK
  <2> QED  BY <2>3, <2>4 DEF Sockets, Sessions
<1>9. TransportTypeOK'
  <2>1. [link[c] EXCEPT !.down = down \o a] \in Sockets /\ [io[c] EXCEPT !.out = b] \in Sessions
    BY <1>2, <1>5, <1>6, LinkFacts DEF Sockets, Sessions
  <2>2. link' \in [Links -> Sockets] /\ io' \in [Links -> Sessions]
    BY <1>1, <1>2, <1>7, <2>1 DEF TransportTypeOK
  <2>3. \A d \in Links : Len(link'[d].up) <= Buffer /\ Len(link'[d].down) <= Buffer
    <3>1. \A d \in Links : Len(link[d].up) <= Buffer /\ Len(link[d].down) <= Buffer
      BY <1>2 DEF TransportTypeOK
    <3>2. Len(down \o a) <= Buffer
      BY <1>4, <1>6
    <3> QED  BY <1>8, <3>1, <3>2
  <2> QED  BY <1>1, <1>2, <2>2, <2>3 DEF TransportTypeOK
<1>10. Connected' /\ sock = c
  BY <1>1, <1>2, <1>8, ConnectedKept DEF Connected
<1>11. \A d \in Links : (Live(d)' <=> Live(d)) /\ Reading(d)' = Reading(d)
  BY <1>1, <1>8 DEF Live, Reading
<1>12. Upstream'
  <2>1. \A d \in Links : Heads(d)' = Heads(d) /\ Load(d)' = Load(d)
    BY <1>1, <1>8, <1>11 DEF Heads, Load, Unsent, Top
  <2>2. \A d \in Links : Load(d)' <= Load(d)
    BY <1>2, <2>1, LoadFacts
  <2> QED  BY <1>1, <1>2, <1>9, <2>1, <2>2, UpstreamSame
<1>13. Ready'
  <2> SUFFICES ASSUME NEW d \in Links, io'[d].ready
               PROVE  /\ io'[d].out = <<>>
                      /\ (drawing.link = d => drawing.asking) =>
                            io'[d].got # <<>> /\ Len(io'[d].got) = FrameLength(io'[d].got[1])
    BY <1>1 DEF Ready
  <2>1. io[d].ready /\ io'[d].got = io[d].got
    BY <1>8
  <2>2. d # c
    BY <1>1, <1>2, <2>1 DEF Ready
  <2> QED  BY <1>2, <1>8, <2>1, <2>2 DEF Ready
<1>14. Drawing'
  BY <1>1, <1>2, <1>8, TransportAssumption DEF Drawing, Outer, TransportAssumption
<1>15. CalledBack'
  BY <1>1, <1>2, <1>11, CalledBackKept, TransportAssumption
     DEF Top, Outer, ResultServed, Asks, TransportAssumption
<1>16. Downstream'
  <2>1. /\ Pending = out /\ Pending' = b /\ link[sock].down = down
        /\ link'[sock].down = down \o a /\ sock' = sock /\ sock # 0
    <3>1. sock' = sock /\ sock # 0 /\ link'[c].down = down \o a
      BY <1>1, <1>8, <1>10, TransportAssumption DEF TransportAssumption
    <3>2. Pending = out
      BY <1>1, <1>10 DEF Pending
    <3>3. link'[c].server = "open" /\ io'[c].out = b
      BY <1>1, <1>8
    <3>4. Pending' = b
      BY <1>10, <3>1, <3>3 DEF Pending
    <3> QED  BY <1>10, <3>1, <3>2, <3>4
  <2>2. /\ stack # <<>> /\ Top.stage = "receive" /\ (Answered \/ Acknowledged)
    BY <1>1, <1>2, <2>1 DEF Downstream, Silent
  <2>3. /\ Top' = Top /\ Outer' = Outer /\ Reply(Top, 0)' = Reply(Top, 0)
        /\ \A p : (Answer(p, Top) <=> Answer(p, Top)') /\ (Follows(p) <=> Follows(p)')
    <3>1. (Asked(Top) <=> Asked(Top)') /\ (Asked(Outer) <=> Asked(Outer)')
      BY <1>1, <1>10, <1>11, <2>1 DEF Asked, Asks, Top, Outer
    <3> QED  BY <1>1, <3>1 DEF Top, Outer, Reply, Answer, Follows, Question
  <2>4. \A got \in Seq(Pieces), s \in Seq(Pieces), t \in Seq(Pieces), p \in Pieces :
            /\ Comes(got, s, out, p)
            /\ Range(t) \subseteq Range(s) \cup Range(a) /\ Len(t) = Len(s) + n
            => Comes(got, t, b, p)
    <3> SUFFICES ASSUME NEW got \in Seq(Pieces), NEW s \in Seq(Pieces), NEW t \in Seq(Pieces),
                        NEW p \in Pieces, Comes(got, s, out, p),
                        Range(t) \subseteq Range(s) \cup Range(a), Len(t) = Len(s) + n
                 PROVE  Comes(got, t, b, p)
      OBVIOUS
    <3>1. Range(got) \cup Range(t) \cup Range(b) \subseteq {p}
      BY <1>5 DEF Comes
    <3>2. /\ p.size \in Nat /\ Len(got) \in Nat /\ Len(s) \in Nat
          /\ Len(got) + Len(s) + Len(out) <= p.size + 1
      BY Nothing0 DEF Comes, Pieces
    <3>3. Len(got) + Len(t) + Len(b) <= p.size + 1
      <4> HIDE DEF out
      <4> QED  BY <1>3, <1>4, <1>5, <3>2
    <3> QED  BY <3>1, <3>3 DEF Comes
  <2>5. Top.got \in Seq(Pieces)
    BY <1>2, <2>2, StackFacts DEF TransportTypeOK, Top
  <2>6. ASSUME Answered PROVE Answered'
    <3>1. PICK p \in Pieces : /\ Answer(p, Top) /\ Len(Top.got) <= p.size
                             /\ Comes(Top.got, down, out, p)
      BY <2>1, <2>6 DEF Answered
    <3>2. Comes(Top.got, down \o a, b, p)
      BY <1>3, <1>6, <2>4, <2>5, <3>1
    <3> QED  BY <2>1, <2>3, <3>1, <3>2 DEF Answered
  <2>7. ASSUME Acknowledged PROVE Acknowledged'
    <3>1. PICK p \in Pieces : Follows(p) /\ Behind(down, p)
      BY <2>1, <2>7 DEF Acknowledged
    <3>2. Behind(link[sock].down, p)'
      <4>1. CASE Comes(<<>>, down, out, p)
        <5>1. Comes(<<>>, down \o a, b, p)
          BY <1>3, <1>6, <2>4, <4>1, Nothing0
        <5> QED  BY <2>1, <5>1 DEF Behind
      <4>2. CASE down # <<>> /\ down[1] = Reply(Top, 0) /\ Comes(<<>>, Tail(down), out, p)
        <5>1. /\ down \o a # <<>> /\ (down \o a)[1] = down[1] /\ Tail(down \o a) \in Seq(Pieces)
              /\ Len(Tail(down \o a)) = Len(Tail(down)) + n /\ Tail(down) \in Seq(Pieces)
              /\ Range(Tail(down \o a)) \subseteq Range(Tail(down)) \cup Range(a)
          BY <1>3, <1>5, <4>2, TailJoined, Popped
        <5>2. Comes(<<>>, Tail(down \o a), b, p)
          BY <2>4, <4>2, <5>1, Nothing0
        <5> QED  BY <2>1, <2>3, <4>2, <5>1, <5>2 DEF Behind
      <4> QED  BY <2>1, <3>1, <4>1, <4>2 DEF Behind
    <3> QED  BY <1>1, <2>1, <2>3, <2>7, <3>1, <3>2 DEF Acknowledged
  <2> QED  BY <1>1, <2>2, <2>3, <2>6, <2>7 DEF Downstream
<1> QED  BY <1>1, <1>9, <1>10, <1>12, <1>13, <1>14, <1>15, <1>16, NothingSaid DEF TransportInv

-----------------------------------------------------------------------------
(* The server's answers                                                       *)

\* A whole request is what its sender waits for: nothing else is on its way.
LEMMA HeardFacts ==
    ASSUME TransportInv, NEW c \in Links, io[c].ready, link[c].server = "open",
           drawing.link = c => drawing.asking
    PROVE  LET head == io[c].got[1]
           IN  /\ head \in Heads(c) /\ head \in Pieces /\ Awaited(head) /\ Placed(c, head)
               /\ \A d \in Links \ {c} : \A q \in Heads(d) : q.id # head.id
               /\ link[c].up = <<>> /\ io[c].out = <<>> /\ io[c].got # <<>>
               /\ c = sock => Top.stage = "receive" /\ Silent
<1> DEFINE got  == io[c].got
           head == got[1]
<1>1. /\ TransportTypeOK /\ Upstream /\ Ready /\ Downstream /\ Sending
  BY DEF TransportInv
<1>2. /\ got # <<>> /\ Len(got) = FrameLength(head) /\ io[c].out = <<>>
      /\ Reading(c) = got /\ Live(c) /\ got \in Seq(Pieces)
      /\ link[c].up \in Seq(Pieces) /\ Len(link[c].up) \in Nat
  BY <1>1, LinkFacts DEF Ready, Reading, Live
<1>3. head \in Heads(c) /\ head \in Pieces
  BY <1>2, Nothing0 DEF Heads
<1>4. /\ Awaited(head) /\ Placed(c, head) /\ Load(c) <= head.size + 1
      /\ \A d \in Links \ {c} : \A q \in Heads(d) : q.id # head.id
  BY <1>1, <1>3 DEF Upstream
<1>5. Len(link[c].up) = 0 /\ Len(Unsent(c)) = 0
  <2>1. /\ Len(Unsent(c)) \in Nat /\ head.size \in Nat
        /\ Load(c) = Len(Unsent(c)) + Len(link[c].up) + Len(got)
        /\ Len(got) = head.size + 1 /\ Len(got) \in Nat
    BY <1>1, <1>2, <1>3, LoadFacts, Nothing0 DEF Load, FrameLength, Pieces
  <2> HIDE DEF got, head
  <2> QED  BY <1>2, <1>4, <2>1
<1>6. ASSUME c = sock PROVE Top.stage = "receive" /\ Silent
  <2>1. Talking /\ head = Request(Top) /\ stack # <<>> /\ sock # 0
    BY <1>4, <1>6, TransportAssumption DEF Placed, Talking, TransportAssumption
  <2>2. Top.stage # "send"
    <3>1. Top.stage = "send" => Unsent(c) = Top.left /\ Top.left # <<>>
      BY <1>1, <1>6, <2>1 DEF Unsent, Sending
    <3>2. Unsent(c) \in Seq(Pieces)
      BY <1>1, LoadFacts
    <3> QED  BY <1>5, <3>1, <3>2, Nothing0
  <2>3. served[Top.id] = 0 /\ (drawing.link # 0 => Top.id # drawing.call)
    BY <1>4, <2>1 DEF Awaited, Request
  <2>4. ~Answered
    <3>1. ASSUME NEW p, Answer(p, Top) PROVE FALSE
      <4>1. Asked(Top)
        BY <2>3, <3>1 DEF Answer
      <4> QED  BY <1>2, <1>6, <2>1, <2>3, <4>1 DEF Asked, Asks
    <3> QED  BY <3>1 DEF Answered
  <2>5. ~Acknowledged
    BY <2>3 DEF Acknowledged
  <2> QED  BY <1>1, <2>1, <2>2, <2>4, <2>5 DEF Downstream, Talking
<1> QED  BY <1>2, <1>3, <1>4, <1>5, <1>6, Nothing0

\* An answer is put into the session of the request it answers.
LEMMA ServeStep ==
    ASSUME TransportInv, NEW c \in Links, io[c].ready, link[c].server = "open",
           drawing.link = c => drawing.asking,
           NEW size \in {0, ResponseSize[io[c].got[1].op]},
           io' = [io EXCEPT ![c] = Replied(@, io[c].got[1].id, io[c].got[1].op, size)],
           served' = [served EXCEPT ![io[c].got[1].id] = @ + 1],
           UNCHANGED <<stack, sock, link, calls>>,
           \/ drawing' = drawing /\ drawing.link = 0
           \/ /\ drawing.link = c /\ io[c].got[1].op \in {"vdi", "done"}
              /\ drawing' = [drawing EXCEPT !.finished = io[c].got[1].op = "done"]
    PROVE  TransportInv'
<1> DEFINE head  == io[c].got[1]
           reply == Frame(head.id, head.op, size)
           piece == [id |-> head.id, op |-> head.op, size |-> size]
<1>1. /\ TransportTypeOK /\ Connected /\ Upstream /\ Ready /\ Drawing /\ CalledBack
      /\ Downstream /\ Nesting /\ Sending /\ Unserved
  BY DEF TransportInv
<1>2. /\ head \in Pieces /\ Awaited(head) /\ Placed(c, head)
      /\ \A d \in Links \ {c} : \A q \in Heads(d) : q.id # head.id
      /\ link[c].up = <<>> /\ io[c].out = <<>>
      /\ c = sock => Top.stage = "receive" /\ Silent
  BY HeardFacts
<1>3. /\ head.id \in Calls /\ head.op \in Ops /\ size \in Nat
      /\ served[head.id] = 0 /\ calls[head.id] \in {"asked", "failed"}
      /\ drawing.link # 0 => head.id # drawing.call
  BY <1>2, Sizes DEF Awaited, Pieces
<1> HIDE DEF head
<1>4. /\ reply \in Seq(Pieces) /\ reply # <<>> /\ Len(reply) = size + 1
      /\ Range(reply) = {piece} /\ piece \in Pieces
      /\ piece.id = head.id /\ piece.op = head.op /\ piece.size = size
  <2>1. head.op \in Ops \cup {"ask"}
    BY <1>3
  <2>2. piece \in Pieces
    BY <1>3, <2>1 DEF Pieces
  <2>3. /\ reply \in Seq(Pieces) /\ reply # <<>> /\ Len(reply) = size + 1
        /\ Range(reply) = {piece}
    BY <1>3, <2>1, FrameFacts
  <2> QED  BY <2>2, <2>3
<1> HIDE DEF reply
<1>5. /\ \A i \in Calls : served'[i] = IF i = head.id THEN 1 ELSE served[i]
      /\ served' \in [Calls -> {0, 1}]
  <2>1. served' = [served EXCEPT ![head.id] = 1]
    BY <1>1, <1>3 DEF TransportTypeOK, head
  <2> QED  BY <1>1, <1>3, <2>1 DEF TransportTypeOK
<1> DEFINE session == [Idle EXCEPT !.out = reply]
<1>6. /\ io' = [io EXCEPT ![c] = session] /\ session \in Sessions
      /\ session.got = <<>> /\ session.ready = FALSE /\ session.out = reply
  <2>1. io' = [io EXCEPT ![c] = session]
    BY DEF Replied, reply, head
  <2>2. Idle \in Sessions
    BY Nothing0 DEF Idle, Sessions
  <2>3. session \in Sessions
    BY <1>4, <2>2 DEF Sessions
  <2> QED  BY <2>1, <2>3 DEF Idle
<1> HIDE DEF session
<1>7. \A d \in Links :
          /\ d # c => io'[d] = io[d]
          /\ io'[d].got = IF d = c THEN <<>> ELSE io[d].got
          /\ io'[d].ready = IF d = c THEN FALSE ELSE io[d].ready
          /\ io'[d].out = IF d = c THEN reply ELSE io[d].out
  BY <1>1, <1>6 DEF TransportTypeOK
<1>8. /\ drawing'.link = drawing.link /\ drawing'.call = drawing.call
      /\ drawing'.asking = drawing.asking /\ drawing'.saved = drawing.saved
      /\ drawing'.finished = IF drawing.link = c THEN head.op = "done" ELSE drawing.finished
      /\ drawing' \in Drawings /\ drawing \in Drawings
  <2>1. drawing \in Drawings
    BY <1>1 DEF TransportTypeOK
  <2>2. CASE drawing' = drawing /\ drawing.link = 0
    BY <2>1, <2>2, TransportAssumption DEF TransportAssumption
  <2>3. CASE /\ drawing.link = c
             /\ drawing' = [drawing EXCEPT !.finished = io[c].got[1].op = "done"]
    BY <2>1, <2>3 DEF Drawings, head
  <2> QED  BY <2>2, <2>3
<1>9. TransportTypeOK'
  <2>1. io' \in [Links -> Sessions]
    BY <1>1, <1>6 DEF TransportTypeOK
  <2> QED  BY <1>1, <1>5, <1>8, <2>1 DEF TransportTypeOK
<1>10. Connected'
  <2>1. \A d \in Links :
            \/ link'[d] = link[d] /\ io'[d] = io[d]
            \/ /\ link[d].server # "none" /\ link'[d].client = link[d].client
               /\ link'[d].server \in {"open", "shut", "closed"}
    BY <1>7
  <2> QED  BY <1>1, <2>1, ConnectedKept
<1>11. Nesting'
  BY <1>1 DEF Nesting, Top, Outer
<1>12. Sending'
  <2> SUFFICES ASSUME stack # <<>>, Top.stage = "send"
               PROVE  Awaited(Request(Top))'
    BY <1>1 DEF Sending, Top, Request
  <2>1. Awaited(Request(Top)) /\ 1 \in 1..Len(stack) /\ c # sock
    BY <1>1, <1>2, StackFacts DEF Sending, TransportTypeOK
  <2>2. Top.id # head.id /\ Top.id \in Calls
    BY <1>1, <1>2, <2>1, StackFacts DEF Placed, Top, TransportTypeOK
  <2>3. Request(Top)' = Request(Top) /\ Request(Top).id = Top.id
    BY DEF Request, Top
  <2>4. \A p : Awaited(p) /\ p.id \in Calls /\ p.id # head.id => Awaited(p)'
    BY <1>5, <1>8 DEF Awaited
  <2> QED  BY <2>1, <2>2, <2>3, <2>4 DEF Awaited
<1>13. Unserved'
  BY <1>1, <1>3, <1>5 DEF Unserved
<1>14. \A d \in Links : /\ Live(d)' <=> Live(d)
                        /\ Reading(d)' = IF d = c THEN <<>> ELSE Reading(d)
  <2> SUFFICES ASSUME NEW d \in Links
               PROVE  /\ Live(d)' <=> Live(d)
                      /\ Reading(d)' = IF d = c THEN <<>> ELSE Reading(d)
    OBVIOUS
  <2>1. Live(d)' <=> Live(d)
    BY DEF Live
  <2>2. Reading(d)' = IF d = c THEN <<>> ELSE Reading(d)
    BY <1>7, <1>8 DEF Reading
  <2> QED  BY <2>1, <2>2
<1>15. Upstream'
  <2>1. /\ Heads(c)' = {}
        /\ \A d \in Links \ {c} : Heads(d)' = Heads(d) /\ Load(d)' = Load(d)
    <3>1. Heads(c)' = {}
      BY <1>2, <1>14, Nothing0 DEF Heads
    <3>2. ASSUME NEW d \in Links \ {c} PROVE Heads(d)' = Heads(d) /\ Load(d)' = Load(d)
      BY <1>14 DEF Heads, Load, Unsent, Top
    <3> QED  BY <3>1, <3>2
  <2>2. ASSUME NEW d \in Links, NEW p \in Heads(d)'
        PROVE  Awaited(p)' /\ Placed(d, p)' /\ Load(d)' <= p.size + 1
    <3>1. d # c /\ p \in Heads(d) /\ Load(d)' = Load(d)
      BY <2>1, <2>2
    <3>2. Awaited(p) /\ Placed(d, p) /\ Load(d) <= p.size + 1 /\ p.id # head.id
      BY <1>1, <1>2, <2>2, <3>1 DEF Upstream
    <3>3. p.id \in Calls
      <4>1. p \in Pieces
        BY <1>1, <3>1, LinkFacts, LoadFacts, Nothing0 DEF Heads
      <4> QED  BY <4>1 DEF Pieces
    <3>4. Awaited(p)'
      BY <1>5, <1>8, <3>2, <3>3 DEF Awaited
    <3>5. Placed(d, p)'
      BY <3>2 DEF Placed, Talking, Top, Request
    <3> QED  BY <3>1, <3>2, <3>4, <3>5
  <2>3. \A d \in Links : Heads(d)' \subseteq Heads(d)
    BY <2>1
  <2> QED  BY <1>1, <2>2, <2>3, UpstreamKept
<1>16. Ready'
  BY <1>1, <1>7, <1>8 DEF Ready
<1>17. Drawing'
  <2>1. drawing.link # 0 => drawing.link = c /\ drawing.asking
    BY TransportAssumption DEF TransportAssumption
  <2>2. drawing.link # 0 => served'[drawing.call] = 0
    BY <1>1, <1>3, <1>5 DEF Drawing
  <2> QED  BY <1>1, <1>7, <1>8, <2>1, <2>2 DEF Drawing, Outer
<1>18. CalledBack'
  <2>1. Live(1)' => Live(1)
    BY DEF Live
  <2>2. ResultServed => ResultServed'
    BY <1>3, <1>5 DEF ResultServed, Top
  <2>3. ASSUME stack # <<>>, sock = 1, ~ResultServed', Asks(Outer) PROVE Asks(Outer)'
    <3>1. drawing.link = c => head.op # "done"
      <4>1. ASSUME drawing.link = c, head.op = "done" PROVE FALSE
        <5>1. head = Request(Top)
          BY <1>2, <2>3, <4>1 DEF Asks, Placed
        <5>2. Top.op = "done" /\ Top.id = head.id
          BY <4>1, <5>1 DEF Request
        <5>3. served'[Top.id] = 1 /\ Top' = Top
          BY <1>3, <1>5, <5>2 DEF Top
        <5> QED  BY <2>3, <5>2, <5>3 DEF ResultServed
      <4> QED  BY <4>1
    <3>2. Outer' = Outer
      BY DEF Outer
    <3> QED  BY <1>8, <2>3, <3>1, <3>2 DEF Asks
  <2>4. ASSUME stack = <<>> PROVE CalledBack'
    BY <2>4 DEF CalledBack
  <2>5. ASSUME stack # <<>> PROVE CalledBack'
    BY <1>1, <2>1, <2>2, <2>3, <2>5, CalledBackKept
  <2> QED  BY <2>4, <2>5
<1>19. Downstream'
  <2>1. CASE sock = c
    <3>1. /\ stack # <<>> /\ Top.stage = "receive" /\ Silent /\ head = Request(Top)
          /\ Top' = Top
      BY <1>2, <2>1 DEF Placed, Talking, Top
    <3>2. /\ link'[sock'].down = <<>> /\ Pending' = reply /\ Top'.got = <<>>
      BY <1>7, <2>1, <3>1 DEF Silent, Pending
    <3>3. PICK p \in Pieces : p = piece
      BY <1>4
    <3>4. Answer(p, Top)'
      <4>1. served'[Top.id] = 1 /\ Top.op = head.op /\ Top.id = head.id
        BY <1>3, <1>5, <3>1 DEF Request
      <4>2. p = Reply(Top, size) /\ size \in {0, ResponseSize[Top.op]}
        BY <3>3, <4>1 DEF Reply, head
      <4> QED  BY <3>1, <4>1, <4>2 DEF Answer, Reply
    <3>5. Len(Top'.got) <= p.size /\ Comes(Top'.got, link'[sock'].down, Pending', p)
      <4>1. Len(<<>>) = 0 /\ Range(<<>>) = {}
        BY Nothing0
      <4>2. 0 <= p.size /\ 0 + 0 + Len(reply) <= p.size + 1 /\ Range(reply) = {p}
        BY <1>3, <1>4, <3>3
      <4> QED  BY <3>2, <4>1, <4>2 DEF Comes
    <3>6. Answered'
      BY <3>4, <3>5 DEF Answered
    <3> QED  BY <3>1, <3>6 DEF Downstream
  <2>2. CASE sock # c
    <3>1. sock # 0 => /\ link'[sock].down = link[sock].down
                      /\ Pending' \in {Pending, <<>>} /\ Pending \in Seq(Pieces)
      <4>1. ASSUME sock # 0 PROVE Pending' = Pending /\ Pending \in Seq(Pieces)
        <5>1. sock \in Links
          BY <1>1, <4>1 DEF TransportTypeOK
        <5> QED  BY <1>1, <1>7, <2>2, <4>1, <5>1, PendingFacts DEF Pending
      <4> QED  BY <4>1
    <3>2. \A n \in 1..Len(stack) : served[stack[n].id] = 1 => served'[stack[n].id] = 1
      BY <1>1, <1>5, StackFacts DEF TransportTypeOK
    <3>3. sock # 0 /\ stack # <<>> /\ Asked(Outer) => Asked(Outer)'
      <4>1. Outer' = Outer /\ (Live(sock)' <=> Live(sock))
        BY DEF Outer, Live
      <4>2. Asks(Outer) => Asks(Outer)'
        BY <1>8, <2>2, <4>1 DEF Asks
      <4> QED  BY <4>1, <4>2 DEF Asked
    <3> QED  BY <1>1, <3>1, <3>2, <3>3, DownstreamSame, StackOfTree
  <2> QED  BY <2>1, <2>2
<1> QED
  BY <1>9, <1>10, <1>11, <1>12, <1>13, <1>15, <1>16, <1>17, <1>18, <1>19 DEF TransportInv

\* A tree is drawn from the frame in hand, which is a request no more.
LEMMA TreeStep ==
    ASSUME TransportInv, io[1].ready, link[1].server = "open", drawing.link = 0,
           io[1].got[1].op = "tree",
           drawing' = [Nothing EXCEPT !.link = 1, !.call = io[1].got[1].id],
           UNCHANGED <<stack, sock, link, io, calls, served>>
    PROVE  TransportInv'
<1> DEFINE head == io[1].got[1]
<1>1. /\ TransportTypeOK /\ Connected /\ Upstream /\ Ready /\ Drawing /\ CalledBack
      /\ Downstream /\ Nesting /\ Sending /\ Unserved /\ 1 \in Links
  BY TransportAssumption DEF TransportInv, TransportAssumption
<1>2. /\ head \in Pieces /\ Awaited(head) /\ Placed(1, head)
      /\ \A d \in Links \ {1} : \A q \in Heads(d) : q.id # head.id
      /\ link[1].up = <<>> /\ io[1].out = <<>> /\ io[1].got # <<>>
      /\ 1 = sock => Top.stage = "receive" /\ Silent
  <2>1. drawing.link # 1
    OBVIOUS
  <2> QED  BY <1>1, <2>1, HeardFacts
<1>3. /\ head.id \in Calls /\ served[head.id] = 0 /\ calls[head.id] \in {"asked", "failed"}
  BY <1>2 DEF Awaited, Pieces
<1>4. /\ drawing'.link = 1 /\ drawing'.call = head.id /\ ~drawing'.asking
      /\ drawing' \in Drawings
  <2>1. Idle \in Sessions
    BY Nothing0 DEF Idle, Sessions
  <2>2. Nothing \in Drawings
    BY <2>1, TransportAssumption DEF Nothing, Drawings, TransportAssumption
  <2>3. drawing' \in Drawings
    BY <1>1, <1>3, <2>2 DEF Drawings
  <2> QED  BY <2>3 DEF Nothing
<1> HIDE DEF head
<1>5. TransportTypeOK'
  BY <1>1, <1>4 DEF TransportTypeOK
<1>6. Connected' /\ Nesting' /\ Unserved'
  BY <1>1 DEF Connected, Talking, Nesting, Unserved, Top, Outer
<1>7. Sending'
  <2> SUFFICES ASSUME stack # <<>>, Top.stage = "send" PROVE Awaited(Request(Top))'
    BY <1>1 DEF Sending, Top, Request
  <2>1. Awaited(Request(Top)) /\ 1 \in 1..Len(stack) /\ sock # 1
    BY <1>1, <1>2, StackFacts DEF Sending, TransportTypeOK
  <2>2. Top.id # head.id
    BY <1>2, <2>1 DEF Placed, Top
  <2>3. Request(Top)' = Request(Top) /\ Request(Top).id = Top.id
    BY DEF Request, Top
  <2>4. \A p : Awaited(p) /\ p.id # head.id => Awaited(p)'
    BY <1>4 DEF Awaited
  <2> QED  BY <2>1, <2>2, <2>3, <2>4 DEF Awaited
<1>8. \A d \in Links : Live(d)' <=> Live(d)
  BY DEF Live
<1>9. Upstream'
  <2>1. /\ Heads(1)' = {}
        /\ \A d \in Links \ {1} : Heads(d)' = Heads(d) /\ Load(d)' = Load(d)
    <3>1. Reading(1)' = <<>>
      BY <1>4 DEF Reading
    <3>2. Heads(1)' = {}
      BY <1>2, <3>1, Nothing0 DEF Heads
    <3>3. ASSUME NEW d \in Links \ {1} PROVE Heads(d)' = Heads(d) /\ Load(d)' = Load(d)
      <4>1. Reading(d)' = Reading(d)
        BY <1>1, <1>4, TransportAssumption DEF Reading, TransportAssumption
      <4> QED  BY <1>8, <4>1 DEF Heads, Load, Unsent, Top
    <3> QED  BY <3>2, <3>3
  <2>2. ASSUME NEW d \in Links, NEW p \in Heads(d)'
        PROVE  Awaited(p)' /\ Placed(d, p)' /\ Load(d)' <= p.size + 1
    <3>1. d # 1 /\ p \in Heads(d) /\ Load(d)' = Load(d)
      BY <2>1, <2>2
    <3>2. Awaited(p) /\ Placed(d, p) /\ Load(d) <= p.size + 1 /\ p.id # head.id
      BY <1>1, <1>2, <2>2, <3>1 DEF Upstream
    <3>3. Awaited(p)'
      BY <1>4, <3>2 DEF Awaited
    <3>4. Placed(d, p)'
      BY <3>2 DEF Placed, Talking, Top, Request
    <3> QED  BY <3>1, <3>2, <3>3, <3>4
  <2>3. \A d \in Links : Heads(d)' \subseteq Heads(d)
    BY <2>1
  <2> QED  BY <1>1, <2>2, <2>3, UpstreamKept
<1>10. Ready'
  BY <1>1, <1>4, TransportAssumption DEF Ready, TransportAssumption
<1>11. Drawing'
  <2>1. ASSUME sock = 1
        PROVE  stack # <<>> /\ Outer.id = head.id /\ Outer.op = "tree" /\ Outer.stage # "send"
    <3>1. stack # <<>> /\ head = Request(Top) /\ Top.stage = "receive"
      BY <1>2, <2>1 DEF Placed, Talking
    <3>2. Top.op = "tree" /\ Top.id = head.id
      BY <3>1 DEF Request, head
    <3>3. Outer = Top
      BY <3>1, <3>2, StackOfTree DEF Outer, Top
    <3> QED  BY <3>1, <3>2, <3>3
  <2> QED  BY <1>2, <1>3, <1>4, <2>1 DEF Drawing, Outer
<1>12. CalledBack'
  <2>1. ~(sock = 1 /\ Asks(Outer))
    BY DEF Asks
  <2>2. (ResultServed => ResultServed') /\ (Live(1)' => Live(1))
    BY DEF ResultServed, Top, Live
  <2> QED  BY <1>1, <2>1, <2>2, CalledBackKept
<1>13. Downstream'
  <2>1. sock # 0 => /\ link'[sock].down = link[sock].down
                    /\ Pending' \in {Pending, <<>>} /\ Pending \in Seq(Pieces)
    BY <1>1, PendingFacts DEF Pending
  <2>2. sock # 0 /\ stack # <<>> /\ Asked(Outer) => Asked(Outer)'
    BY DEF Asked, Asks, Live, Outer
  <2> QED  BY <1>1, <2>1, <2>2, DownstreamSame, StackOfTree
<1> QED
  BY <1>5, <1>6, <1>7, <1>9, <1>10, <1>11, <1>12, <1>13 DEF TransportInv

\* gemd_handle_request(): a tree is begun, anything else answered.
LEMMA HandleRequestStep ==
    ASSUME TransportInv, NEW c \in Links, HandleRequest(c)
    PROVE  TransportInv'
<1> DEFINE head == io[c].got[1]
           size == IF Granted(c, head.op) THEN ResponseSize[head.op] ELSE 0
<1>1. /\ drawing.link = 0 /\ link[c].server = "open" /\ io[c].ready
      /\ UNCHANGED <<stack, sock, link, calls>>
  BY DEF HandleRequest, Alone, clientVars
<1>2. CASE head.op = "tree" /\ Granted(c, head.op)
  <2>1. c = 1 /\ UNCHANGED <<io, served>>
        /\ drawing' = [Nothing EXCEPT !.link = 1, !.call = io[1].got[1].id]
    BY <1>2 DEF HandleRequest, Granted
  <2> QED  BY <1>1, <1>2, <2>1, TreeStep
<1>3. CASE ~(head.op = "tree" /\ Granted(c, head.op))
  <2>1. /\ io' = [io EXCEPT ![c] = Replied(@, head.id, head.op, size)]
        /\ served' = [served EXCEPT ![head.id] = @ + 1]
        /\ drawing' = drawing
    BY <1>3 DEF HandleRequest
  <2>2. size \in {0, ResponseSize[head.op]} /\ drawing.link # c
    BY <1>1, TransportAssumption DEF TransportAssumption
  <2> QED  BY <1>1, <2>1, <2>2, ServeStep
<1> QED  BY <1>2, <1>3

\* A request of the drawing function, or its result.
LEMMA CallbackServeStep ==
    ASSUME TransportInv, CallbackServe
    PROVE  TransportInv'
<1> DEFINE c    == drawing.link
           head == io[c].got[1]
<1>1. /\ drawing.asking /\ io[c].ready /\ head.op \in {"vdi", "done"}
      /\ io' = [io EXCEPT ![c] = Replied(@, head.id, head.op, ResponseSize[head.op])]
      /\ served' = [served EXCEPT ![head.id] = @ + 1]
      /\ drawing' = [drawing EXCEPT !.finished = head.op = "done"]
      /\ UNCHANGED <<stack, sock, link, calls>>
  BY DEF CallbackServe, clientVars
<1>2. c \in Links /\ link[c].server = "open"
  BY <1>1, TransportAssumption DEF TransportInv, Drawing, TransportAssumption
<1>3. ResponseSize[head.op] \in {0, ResponseSize[head.op]}
  OBVIOUS
<1> QED  BY <1>1, <1>2, <1>3, ServeStep

\* The loop of a call-back ends, and the frame put aside comes back.
LEMMA CallbackEndsStep ==
    ASSUME TransportInv, CallbackEnds
    PROVE  TransportInv'
<1>1. /\ TransportTypeOK /\ Connected /\ Upstream /\ Ready /\ Drawing /\ CalledBack
      /\ Downstream /\ 1 \in Links /\ drawing \in Drawings
  BY TransportAssumption DEF TransportInv, TransportTypeOK, TransportAssumption
<1>2. /\ drawing.link = 1 /\ drawing.asking /\ link[1].server \in {"open", "shut"}
      /\ drawing.saved.out = <<>> /\ drawing.saved \in Sessions
      /\ UNCHANGED <<stack, sock, calls, served>>
  BY <1>1 DEF CallbackEnds, Drawing, Drawings, clientVars
<1>3. /\ drawing' = [drawing EXCEPT !.asking = FALSE, !.saved = Idle]
      /\ io' = [io EXCEPT ![1] = drawing.saved]
      /\ link' = IF ~drawing.finished THEN [link EXCEPT ![1].server = "shut"] ELSE link
  BY <1>2 DEF CallbackEnds, Abandoned
<1>4. \A d \in Links :
          /\ link'[d].up = link[d].up /\ link'[d].down = link[d].down
          /\ link'[d].client = link[d].client
          /\ link'[d].server = IF d = 1 /\ ~drawing.finished THEN "shut" ELSE link[d].server
          /\ d # 1 => link'[d] = link[d]
          /\ io'[d] = IF d = 1 THEN drawing.saved ELSE io[d]
  <2>1. \A d \in Links : io'[d] = IF d = 1 THEN drawing.saved ELSE io[d]
    BY <1>1, <1>3 DEF TransportTypeOK
  <2>2. CASE drawing.finished
    BY <1>3, <2>1, <2>2
  <2>3. CASE ~drawing.finished
    <3>1. link' = [link EXCEPT ![1].server = "shut"]
      BY <1>3, <2>3
    <3> QED  BY <1>1, <2>1, <2>3, <3>1, LinkFacts DEF TransportTypeOK, Sockets
  <2> QED  BY <2>2, <2>3
<1>5. /\ drawing'.link = 1 /\ drawing'.call = drawing.call /\ ~drawing'.asking
      /\ drawing' \in Drawings
  <2>1. Idle \in Sessions
    BY Nothing0 DEF Idle, Sessions
  <2> QED  BY <1>1, <1>2, <1>3, <2>1 DEF Drawings
<1>6. TransportTypeOK'
  <2>1. [link[1] EXCEPT !.server = "shut"] \in Sockets
    BY <1>1, LinkFacts DEF Sockets
  <2>2. link' \in [Links -> Sockets] /\ io' \in [Links -> Sessions]
    BY <1>1, <1>2, <1>3, <2>1 DEF TransportTypeOK
  <2> QED  BY <1>1, <1>2, <1>4, <1>5, <2>2 DEF TransportTypeOK
<1>7. Connected'
  <2>1. \A d \in Links :
            \/ link'[d] = link[d] /\ io'[d] = io[d]
            \/ /\ link[d].server # "none" /\ link'[d].client = link[d].client
               /\ link'[d].server \in {"open", "shut", "closed"}
    BY <1>2, <1>4
  <2> QED  BY <1>1, <1>2, <2>1, ConnectedKept
<1>8. \A d \in Links : /\ Live(d)' <=> Live(d) /\ (d = 1 => drawing.finished)
                       /\ Reading(d)' = IF d = 1 THEN <<>> ELSE Reading(d)
  <2> SUFFICES ASSUME NEW d \in Links
               PROVE  /\ Live(d)' <=> Live(d) /\ (d = 1 => drawing.finished)
                      /\ Reading(d)' = IF d = 1 THEN <<>> ELSE Reading(d)
    OBVIOUS
  <2>1. Live(d)' <=> Live(d) /\ (d = 1 => drawing.finished)
    BY <1>4 DEF Live
  <2>2. Reading(d)' = IF d = 1 THEN <<>> ELSE Reading(d)
    BY <1>2, <1>4, <1>5 DEF Reading
  <2> QED  BY <2>1, <2>2
<1>9. Upstream'
  <2>1. ASSUME NEW d \in Links PROVE Heads(d)' \subseteq Heads(d) /\ Load(d)' <= Load(d)
    <3>1. Heads(d)' \subseteq Heads(d)
      BY <1>4, <1>8, Nothing0 DEF Heads
    <3>2. Load(d)' <= Load(d)
      <4>1. Unsent(d)' = Unsent(d)
        BY <1>2 DEF Unsent, Top
      <4>2. Len(Reading(d)') <= Len(Reading(d)) /\ Len(Reading(d)') \in Nat
        BY <1>1, <1>8, LoadFacts, Nothing0
      <4>3. /\ Len(Unsent(d)) \in Nat /\ Len(link[d].up) \in Nat /\ Len(Reading(d)) \in Nat
        BY <1>1, LinkFacts, LoadFacts
      <4> QED  BY <1>4, <4>1, <4>2, <4>3 DEF Load
    <3> QED  BY <3>1, <3>2
  <2> QED  BY <1>1, <1>2, <1>5, <1>6, <2>1, UpstreamSame
<1>10. Ready'
  BY <1>1, <1>2, <1>4, <1>5 DEF Ready
<1>11. Drawing'
  <2>1. link'[1].server \in {"open", "shut"} /\ io'[1].out = <<>>
    BY <1>1, <1>2, <1>4
  <2> QED  BY <1>1, <1>2, <1>5, <2>1 DEF Drawing, Outer
<1>12. CalledBack'
  <2>1. (ResultServed => ResultServed') /\ (Live(1)' => Live(1))
    BY <1>1, <1>2, <1>8 DEF ResultServed, Top
  <2>2. ~(Live(1)' /\ Asks(Outer))
    BY <1>1, <1>8 DEF Asks
  <2> QED  BY <1>1, <1>2, <2>1, <2>2, CalledBackKept
<1>13. Downstream'
  <2>1. ASSUME sock # 0
        PROVE  /\ link'[sock].down = link[sock].down
               /\ Pending' \in {Pending, <<>>} /\ Pending \in Seq(Pieces)
    <3>1. sock \in Links
      BY <1>1, <2>1 DEF TransportTypeOK
    <3>2. CASE sock = 1
      BY <1>1, <1>2, <1>4, <2>1, <3>1, <3>2, PendingFacts DEF Pending
    <3>3. CASE sock # 1
      BY <1>1, <1>2, <1>4, <2>1, <3>1, <3>3, PendingFacts DEF Pending
    <3> QED  BY <3>2, <3>3
  <2>2. ASSUME sock # 0, Asked(Outer) PROVE Asked(Outer)'
    <3>1. sock \in Links
      BY <1>1, <2>2 DEF TransportTypeOK
    <3>2. ~Live(sock)'
      <4>1. ASSUME Live(sock)' PROVE FALSE
        <5>1. Live(sock) /\ (sock = 1 => drawing.finished)
          BY <1>2, <1>8, <3>1, <4>1 DEF Live
        <5> QED  BY <1>2, <2>2, <5>1 DEF Asked, Asks
      <4> QED  BY <4>1
    <3> QED  BY <3>2 DEF Asked
  <2> QED  BY <1>1, <1>2, <2>1, <2>2, DownstreamSame, StackOfTree
<1> QED
  BY <1>2, <1>5, <1>6, <1>7, <1>9, <1>10, <1>11, <1>12, <1>13, NothingSaid DEF TransportInv

\* The server's frame about the tree it draws reaches who waits for it: the
\* client in the call itself, or in the acknowledgement of its last call-back.
LEMMA Delivered ==
    ASSUME TransportInv, drawing.link = 1, ~drawing.asking,
           UNCHANGED <<stack, sock, link, calls>>,
           \A d \in Links \ {1} : io'[d] = io[d],
           \A i \in Calls : served[i] = 1 => served'[i] = 1,
           NEW q \in Pieces, q.size # 0,
           io'[1].out \in Seq(Pieces), Range(io'[1].out) = {q}, Len(io'[1].out) = q.size + 1,
           sock = 1 /\ link[1].server = "open" => Answer(q, Outer)' /\ Follows(q)'
    PROVE  Downstream'
<1>1. /\ TransportTypeOK /\ Nesting /\ Sending /\ Drawing /\ CalledBack /\ Downstream
      /\ Connected /\ 1 \in Links
  BY TransportAssumption DEF TransportInv, TransportAssumption
<1>2. CASE sock = 1 /\ link[1].server = "open"
  <2>1. /\ stack # <<>> /\ Outer.id = drawing.call /\ Outer.op = "tree" /\ Outer.stage # "send"
        /\ served[Outer.id] = 0 /\ Live(sock) /\ Pending = <<>>
        /\ Pending' = io'[1].out /\ Outer' = Outer /\ Top' = Top
    BY <1>1, <1>2 DEF Drawing, Live, Pending, Outer, Top
  <2>2. /\ ~Asked(Outer) /\ ~Asks(Outer)
    BY <1>2, <2>1 DEF Asked, Asks
  <2>3. /\ 1 \in 1..Len(stack) /\ Len(stack) \in 1..Len(stack) /\ Len(stack) \in {1, 2}
        /\ Top \in Requests /\ Top.got \in Seq(Pieces) /\ Top.id \in Calls
    <3>1. Len(stack) \in Nat \ {0} /\ Len(stack) <= 2
      BY <1>1, <2>1, StackFacts DEF Nesting, TransportTypeOK
    <3>2. \A n \in Nat \ {0} : n <= 2 => n \in {1, 2} /\ 1 \in 1..n /\ n \in 1..n
      OBVIOUS
    <3>3. Len(stack) \in {1, 2} /\ 1 \in 1..Len(stack) /\ Len(stack) \in 1..Len(stack)
      BY <3>1, <3>2
    <3> QED  BY <1>1, <3>3, StackFacts DEF Top, TransportTypeOK
  <2>4. /\ link[1].down \in Seq(Pieces) /\ q.size \in Nat
    BY <1>1, LinkFacts DEF Pieces
  <2>5. Comes(<<>>, <<>>, io'[1].out, q)
    <3>1. Len(<<>>) = 0 /\ Range(<<>>) = {}
      BY Nothing0
    <3>2. 0 + 0 + Len(io'[1].out) <= q.size + 1
      BY <2>4
    <3> QED  BY <3>1, <3>2 DEF Comes
  <2>6. CASE Len(stack) = 1
    <3>1. Outer = Top /\ ~Acknowledged
      BY <2>6 DEF Outer, Top, Acknowledged
    <3>2. Silent
      <4>1. ~Answered
        BY <2>1, <2>2, <3>1 DEF Answered, Answer
      <4> QED  BY <1>1, <1>2, <3>1, <4>1 DEF Downstream
    <3>3. Top.stage = "receive"
      <4>1. Top.stage # "callback"
        <5>1. ResultServed => Top.op = "done"
          BY DEF ResultServed
        <5> QED  BY <1>1, <1>2, <2>1, <2>2, <3>1, <5>1 DEF CalledBack
      <4> QED  BY <2>1, <2>3, <3>1, <4>1 DEF Requests
    <3>4. link[1].down = <<>> /\ Top.got = <<>>
      BY <1>2, <2>1, <3>2 DEF Silent
    <3>5. /\ Answer(q, Top)' /\ Len(Top'.got) <= q.size
          /\ Comes(Top'.got, link'[sock'].down, Pending', q)
      <4>1. Outer' = Top'
        BY <2>1, <3>1
      <4>2. Answer(q, Top)'
        BY <1>2, <4>1 DEF Answer
      <4> QED  BY <1>2, <2>1, <2>4, <2>5, <3>4, <4>2, Nothing0
    <3>6. Answered'
      BY <3>5 DEF Answered
    <3> QED  BY <2>1, <3>3, <3>6 DEF Downstream
  <2>7. CASE Len(stack) = 2
    <3>1. /\ Outer.stage = "callback" /\ Outer.id # Top.id
      BY <1>1, <2>7 DEF Nesting
    <3>2. ResultServed
      BY <1>1, <1>2, <2>1, <2>2, <3>1 DEF CalledBack
    <3>3. Top.stage = "receive"
      <4>1. Top.stage # "send"
        BY <1>1, <2>1, <3>2 DEF Sending, Awaited, Request, ResultServed
      <4>2. Top.stage # "callback"
        BY <1>1, <2>3, <3>2 DEF Nesting, ResultServed, Top
      <4> QED  BY <2>3, <4>1, <4>2 DEF Requests
    <3>4. /\ Top.got = <<>>
          /\ \/ link[1].down = <<>>
             \/ /\ link[1].down # <<>> /\ link[1].down[1] = Reply(Top, 0)
                /\ Tail(link[1].down) = <<>>
      <4>1. CASE Silent
        BY <1>2, <2>1, <4>1 DEF Silent
      <4>2. CASE Answered
        <5>1. PICK p \in Pieces : /\ Answer(p, Top) /\ Len(Top.got) <= p.size
                                 /\ Comes(Top.got, link[1].down, Pending, p)
          BY <1>2, <4>2 DEF Answered
        <5>2. p = Reply(Top, 0) /\ p.size = 0
          <6>1. ResponseSize[Top.op] = 0 /\ Top.op # "tree"
            BY <3>2, Sizes DEF ResultServed
          <6> QED  BY <5>1, <6>1 DEF Answer, Reply
        <5>3. Len(Top.got) \in Nat /\ Len(link[1].down) \in Nat /\ Len(<<>>) = 0
          BY <2>3, <2>4, Nothing0
        <5>4. Len(Top.got) = 0 /\ Len(link[1].down) <= 1
          <6>1. Len(Top.got) + Len(link[1].down) + 0 <= 0 + 1 /\ Len(Top.got) <= 0
            BY <2>1, <5>1, <5>2, <5>3 DEF Comes
          <6>2. \A m \in Nat, n \in Nat : m + n + 0 <= 0 + 1 /\ m <= 0 => m = 0 /\ n <= 1
            OBVIOUS
          <6> QED  BY <5>3, <6>1, <6>2
        <5>5. Top.got = <<>>
          BY <2>3, <5>4, Nothing0
        <5>6. CASE link[1].down = <<>>
          BY <5>5, <5>6
        <5>7. CASE link[1].down # <<>>
          <6>1. link[1].down[1] \in Range(link[1].down)
            BY <2>4, <5>7, Nothing0
          <6>2. link[1].down[1] = p
            BY <5>1, <6>1 DEF Comes
          <6>3. Len(Tail(link[1].down)) = Len(link[1].down) - 1 /\ Tail(link[1].down) \in Seq(Pieces)
            BY <2>4, <5>7, Popped
          <6>4. Len(Tail(link[1].down)) = 0
            <7>1. Len(link[1].down) # 0
              BY <2>4, <5>7, Nothing0
            <7>2. \A n \in Nat : n # 0 /\ n <= 1 => n - 1 = 0
              OBVIOUS
            <7> QED  BY <5>3, <5>4, <6>3, <7>1, <7>2
          <6> QED  BY <5>2, <5>5, <5>7, <6>2, <6>3, <6>4, Nothing0
        <5> QED  BY <5>6, <5>7
      <4>3. ~Acknowledged
        BY <2>1, <2>2 DEF Acknowledged, Follows
      <4> QED  BY <1>1, <1>2, <4>1, <4>2, <4>3 DEF Downstream
    <3>5. Behind(link[1].down, q)'
      <4>1. CASE link[1].down = <<>>
        BY <2>1, <2>5, <4>1 DEF Behind
      <4>2. CASE /\ link[1].down # <<>> /\ link[1].down[1] = Reply(Top, 0)
                 /\ Tail(link[1].down) = <<>>
        <5>1. Reply(Top, 0)' = Reply(Top, 0)
          BY <2>1 DEF Reply
        <5> QED  BY <2>1, <2>5, <4>2, <5>1 DEF Behind
      <4> QED  BY <3>4, <4>1, <4>2
    <3>6. served'[Top.id] = 1 /\ Top.op = "done"
      BY <2>3, <3>2 DEF ResultServed
    <3>7. Acknowledged'
      <4>1. Follows(q)'
        BY <1>2
      <4> QED  BY <1>2, <2>1, <2>7, <3>4, <3>5, <3>6, <4>1 DEF Acknowledged
    <3> QED  BY <2>1, <3>3, <3>7 DEF Downstream
  <2> QED  BY <2>3, <2>6, <2>7
<1>3. CASE ~(sock = 1 /\ link[1].server = "open")
  <2>1. sock # 0 => /\ link'[sock].down = link[sock].down
                    /\ Pending' \in {Pending, <<>>} /\ Pending \in Seq(Pieces)
    <3>1. ASSUME sock # 0 PROVE Pending' = Pending
      <4>1. sock \in Links
        BY <1>1, <3>1 DEF TransportTypeOK
      <4>2. CASE sock = 1
        BY <1>3, <4>2 DEF Pending
      <4>3. CASE sock # 1
        BY <4>1, <4>3 DEF Pending
      <4> QED  BY <4>2, <4>3
    <3> QED  BY <1>1, <3>1, PendingFacts
  <2>2. \A n \in 1..Len(stack) : served[stack[n].id] = 1 => served'[stack[n].id] = 1
    BY <1>1, StackFacts DEF TransportTypeOK
  <2>3. sock # 0 /\ stack # <<>> /\ Asked(Outer) => Asked(Outer)'
    <3>1. Live(sock)' <=> Live(sock)
      BY DEF Live
    <3>2. ~Asks(Outer)
      BY DEF Asks
    <3> QED  BY <3>1, <3>2 DEF Asked
  <2> QED  BY <1>1, <2>1, <2>2, <2>3, DownstreamSame, StackOfTree
<1> QED  BY <1>2, <1>3

\* What the frame of the tree replaces in the session.
LEMMA Reframed ==
    ASSUME TransportInv, drawing.link = 1, ~drawing.asking,
           NEW op \in Ops \cup {"ask"}, NEW size \in Nat,
           io' = [io EXCEPT ![1] = Replied(@, drawing.call, op, size)]
    PROVE  LET q == [id |-> drawing.call, op |-> op, size |-> size]
           IN  /\ q \in Pieces /\ io' \in [Links -> Sessions]
               /\ \A d \in Links \ {1} : io'[d] = io[d]
               /\ io'[1].got = <<>> /\ io'[1].ready = FALSE
               /\ io'[1].out \in Seq(Pieces) /\ Range(io'[1].out) = {q}
               /\ Len(io'[1].out) = size + 1
<1> DEFINE reply   == Frame(drawing.call, op, size)
           q       == [id |-> drawing.call, op |-> op, size |-> size]
           session == [Idle EXCEPT !.out = reply]
<1>1. drawing.call \in Calls /\ 1 \in Links /\ io \in [Links -> Sessions]
  BY TransportAssumption DEF TransportInv, TransportTypeOK, Drawing, TransportAssumption
<1>2. reply \in Seq(Pieces) /\ Len(reply) = size + 1 /\ Range(reply) = {q}
  BY <1>1, FrameFacts
<1>3. q \in Pieces
  BY <1>1 DEF Pieces
<1> HIDE DEF q, reply
<1>4. /\ io' = [io EXCEPT ![1] = session] /\ session \in Sessions
      /\ session.got = <<>> /\ session.ready = FALSE /\ session.out = reply
  <2>1. io' = [io EXCEPT ![1] = session]
    BY DEF Replied, reply
  <2>2. Idle \in Sessions
    BY Nothing0 DEF Idle, Sessions
  <2>3. session \in Sessions
    BY <1>2, <2>2 DEF Sessions
  <2> QED  BY <2>1, <2>3 DEF Idle
<1> HIDE DEF session
<1>5. /\ io' \in [Links -> Sessions] /\ \A d \in Links \ {1} : io'[d] = io[d]
      /\ io'[1] = session
  BY <1>1, <1>4
<1> QED  BY <1>2, <1>3, <1>4, <1>5 DEF q

\* The server asks for a USERDEF object.
LEMMA AskUserStep ==
    ASSUME TransportInv, AskUser
    PROVE  TransportInv'
<1>1. /\ TransportTypeOK /\ Connected /\ Upstream /\ Ready /\ Drawing /\ CalledBack
      /\ Downstream /\ 1 \in Links /\ drawing \in Drawings
  BY TransportAssumption DEF TransportInv, TransportTypeOK, TransportAssumption
<1>2. /\ drawing.link = 1 /\ ~drawing.asking /\ drawing.asks < MaxAsks
      /\ link[1].server \in {"open", "shut"} /\ io[1].out = <<>>
      /\ UNCHANGED <<stack, sock, link, calls, served>>
  BY <1>1 DEF AskUser, Alone, Drawing, clientVars
<1>3. /\ drawing' = [drawing EXCEPT !.asking = TRUE, !.finished = FALSE,
                                    !.asks = @ + 1, !.saved = io[1]]
      /\ io' = [io EXCEPT ![1] = Replied(@, drawing.call, "ask", 1)]
  BY <1>2 DEF AskUser, AskSize
<1> DEFINE q == [id |-> drawing.call, op |-> "ask", size |-> 1]
<1>4. /\ q \in Pieces /\ io' \in [Links -> Sessions]
      /\ \A d \in Links \ {1} : io'[d] = io[d]
      /\ io'[1].got = <<>> /\ io'[1].ready = FALSE
      /\ io'[1].out \in Seq(Pieces) /\ Range(io'[1].out) = {q} /\ Len(io'[1].out) = 1 + 1
  BY <1>2, <1>3, Reframed
<1>5. /\ drawing'.link = 1 /\ drawing'.call = drawing.call /\ drawing'.asking
      /\ ~drawing'.finished /\ drawing'.saved = io[1] /\ drawing' \in Drawings
  <2>1. drawing.asks \in 0..MaxAsks /\ drawing.asks + 1 \in 0..MaxAsks
    BY <1>1, <1>2, TransportAssumption DEF Drawings, TransportAssumption
  <2>2. io[1] \in Sessions
    BY <1>1, LinkFacts
  <2> QED  BY <1>1, <1>2, <1>3, <2>1, <2>2 DEF Drawings
<1>6. TransportTypeOK'
  BY <1>1, <1>2, <1>4, <1>5 DEF TransportTypeOK
<1>7. Connected'
  <2>1. \A d \in Links :
            \/ link'[d] = link[d] /\ io'[d] = io[d]
            \/ /\ link[d].server # "none" /\ link'[d].client = link[d].client
               /\ link'[d].server \in {"open", "shut", "closed"}
    BY <1>2, <1>4
  <2> QED  BY <1>1, <1>2, <2>1, ConnectedKept
<1>8. \A d \in Links : (Live(d)' <=> Live(d)) /\ Reading(d)' = Reading(d)
  BY <1>2, <1>4, <1>5 DEF Live, Reading
<1>9. Upstream'
  <2>1. \A d \in Links : Heads(d)' = Heads(d) /\ Load(d)' = Load(d)
    BY <1>2, <1>8 DEF Heads, Load, Unsent, Top
  <2>2. \A d \in Links : Load(d)' <= Load(d)
    BY <1>1, <2>1, LoadFacts
  <2> QED  BY <1>1, <1>2, <1>5, <1>6, <2>1, <2>2, UpstreamSame
<1>10. Ready'
  BY <1>1, <1>2, <1>4, <1>5 DEF Ready
<1>11. Drawing'
  BY <1>1, <1>2, <1>4, <1>5 DEF Drawing, Outer
<1>12. CalledBack'
  <2>1. ~Asks(Outer)
    BY <1>2 DEF Asks
  <2>2. (ResultServed => ResultServed') /\ (Live(1)' => Live(1))
    BY <1>2 DEF ResultServed, Top, Live
  <2> QED  BY <1>1, <1>2, <2>1, <2>2, CalledBackKept
<1>13. Downstream'
  <2>1. PICK p \in Pieces : p = q
    BY <1>4
  <2>2. p.size = 1 /\ p = [id |-> drawing.call, op |-> "ask", size |-> 1]
    BY <2>1
  <2>3. ASSUME sock = 1 PROVE Answer(p, Outer)' /\ Follows(p)'
    <3>1. Outer.id = drawing.call /\ Outer.op = "tree" /\ Outer' = Outer
      BY <1>1, <1>2, <2>3 DEF Drawing, Outer
    <3>2. Asks(Outer)'
      BY <1>2, <1>5, <2>3, <3>1 DEF Asks
    <3>3. Question(Outer)' = p
      BY <2>2, <3>1 DEF Question, AskSize
    <3> QED  BY <3>1, <3>2, <3>3 DEF Answer, Follows, Asked
  <2> QED  BY <1>2, <1>4, <2>1, <2>2, <2>3, Delivered
<1> QED
  BY <1>2, <1>5, <1>6, <1>7, <1>9, <1>10, <1>11, <1>12, <1>13, NothingSaid DEF TransportInv

\* The tree is drawn and its call answered.
LEMMA DrawnTreeStep ==
    ASSUME TransportInv, DrawnTree
    PROVE  TransportInv'
<1>1. /\ TransportTypeOK /\ Connected /\ Upstream /\ Ready /\ Drawing /\ CalledBack
      /\ Downstream /\ Nesting /\ Sending /\ Unserved /\ 1 \in Links
  BY TransportAssumption DEF TransportInv, TransportTypeOK, TransportAssumption
<1>2. /\ drawing.link = 1 /\ ~drawing.asking /\ link[1].server \in {"open", "shut"}
      /\ io[1].out = <<>> /\ drawing.call \in Calls /\ served[drawing.call] = 0
      /\ calls[drawing.call] \in {"asked", "failed"}
      /\ UNCHANGED <<stack, sock, link, calls>>
  BY <1>1 DEF DrawnTree, Alone, Drawing, clientVars
<1>3. /\ drawing' = Nothing /\ io' = [io EXCEPT ![1] = Replied(@, drawing.call, "tree", 3)]
      /\ served' = [served EXCEPT ![drawing.call] = @ + 1]
  BY <1>2, Sizes DEF DrawnTree
<1> DEFINE q == [id |-> drawing.call, op |-> "tree", size |-> 3]
<1>4. /\ q \in Pieces /\ io' \in [Links -> Sessions]
      /\ \A d \in Links \ {1} : io'[d] = io[d]
      /\ io'[1].got = <<>> /\ io'[1].ready = FALSE
      /\ io'[1].out \in Seq(Pieces) /\ Range(io'[1].out) = {q} /\ Len(io'[1].out) = 3 + 1
  BY <1>2, <1>3, Reframed, Sizes
<1>5. drawing'.link = 0 /\ ~drawing'.asking /\ drawing' \in Drawings
  <2>1. Idle \in Sessions
    BY Nothing0 DEF Idle, Sessions
  <2> QED  BY <1>3, <2>1, TransportAssumption DEF Nothing, Drawings, TransportAssumption
<1>6. /\ \A i \in Calls : served'[i] = IF i = drawing.call THEN 1 ELSE served[i]
      /\ served' \in [Calls -> {0, 1}]
  <2>1. served' = [served EXCEPT ![drawing.call] = 1]
    BY <1>1, <1>2, <1>3 DEF TransportTypeOK
  <2> QED  BY <1>1, <1>2, <2>1 DEF TransportTypeOK
<1>7. TransportTypeOK'
  BY <1>1, <1>2, <1>4, <1>5, <1>6 DEF TransportTypeOK
<1>8. Connected'
  <2>1. \A d \in Links :
            \/ link'[d] = link[d] /\ io'[d] = io[d]
            \/ /\ link[d].server # "none" /\ link'[d].client = link[d].client
               /\ link'[d].server \in {"open", "shut", "closed"}
    BY <1>2, <1>4
  <2> QED  BY <1>1, <1>2, <2>1, ConnectedKept
<1>9. Nesting'
  BY <1>1, <1>2 DEF Nesting, Top, Outer
<1>10. \A p : Awaited(p) /\ p.id \in Calls => Awaited(p)'
  BY <1>2, <1>5, <1>6 DEF Awaited
<1>11. Sending'
  <2> SUFFICES ASSUME stack # <<>>, Top.stage = "send" PROVE Awaited(Request(Top))'
    BY <1>1, <1>2 DEF Sending, Top, Request
  <2>1. Awaited(Request(Top)) /\ 1 \in 1..Len(stack)
    BY <1>1, StackFacts DEF Sending, TransportTypeOK
  <2>2. Request(Top)' = Request(Top) /\ Request(Top).id \in Calls
    BY <1>1, <1>2, <2>1, StackFacts DEF Request, Top, TransportTypeOK
  <2> QED  BY <1>10, <2>1, <2>2 DEF Awaited
<1>12. Unserved'
  BY <1>1, <1>2, <1>6 DEF Unserved
<1>13. \A d \in Links : (Live(d)' <=> Live(d)) /\ Reading(d)' = Reading(d)
  <2> SUFFICES ASSUME NEW d \in Links
               PROVE  (Live(d)' <=> Live(d)) /\ Reading(d)' = Reading(d)
    OBVIOUS
  <2>1. Live(d)' <=> Live(d)
    BY <1>2 DEF Live
  <2>2. Reading(d)' = Reading(d)
    BY <1>2, <1>4, <1>5, TransportAssumption DEF Reading, TransportAssumption
  <2> QED  BY <2>1, <2>2
<1>14. Upstream'
  <2>1. \A d \in Links : Heads(d)' = Heads(d) /\ Load(d)' = Load(d)
    BY <1>2, <1>13 DEF Heads, Load, Unsent, Top
  <2>2. ASSUME NEW d \in Links, NEW p \in Heads(d)'
        PROVE  Awaited(p)' /\ Placed(d, p)' /\ Load(d)' <= p.size + 1
    <3>1. p \in Heads(d) /\ Awaited(p) /\ Placed(d, p) /\ Load(d)' <= p.size + 1
      BY <1>1, <2>1, <2>2 DEF Upstream
    <3>2. p \in Pieces
      BY <1>1, <3>1, LinkFacts, LoadFacts, Nothing0 DEF Heads
    <3>3. Awaited(p)'
      BY <1>10, <3>1, <3>2 DEF Pieces
    <3>4. Placed(d, p)'
      BY <1>2, <3>1 DEF Placed, Talking, Top, Request
    <3> QED  BY <3>1, <3>3, <3>4
  <2> QED  BY <1>1, <2>1, <2>2, UpstreamKept
<1>15. Ready'
  BY <1>1, <1>2, <1>4, <1>5, TransportAssumption DEF Ready, TransportAssumption
<1>16. Drawing'
  BY <1>5 DEF Drawing
<1>17. CalledBack'
  <2>1. ~Asks(Outer)
    BY <1>2 DEF Asks
  <2>2. Live(1)' => Live(1)
    BY <1>2 DEF Live
  <2>3. stack # <<>> /\ ResultServed => ResultServed'
    <3>1. stack # <<>> => Top.id \in Calls
      <4>1. stack # <<>> => 1 \in 1..Len(stack)
        BY <1>1, StackFacts DEF TransportTypeOK
      <4> QED  BY <1>1, <4>1, StackFacts DEF Top, TransportTypeOK
    <3> QED  BY <1>2, <1>6, <3>1 DEF ResultServed, Top
  <2>4. CASE stack = <<>>
    BY <1>2, <2>4 DEF CalledBack
  <2>5. CASE stack # <<>>
    BY <1>1, <1>2, <2>1, <2>2, <2>3, <2>5, CalledBackKept
  <2> QED  BY <2>4, <2>5
<1>18. Downstream'
  <2>1. PICK p \in Pieces : p = q
    BY <1>4
  <2>2. p.size = 3 /\ p = [id |-> drawing.call, op |-> "tree", size |-> 3]
    BY <2>1
  <2>3. ASSUME sock = 1 PROVE Answer(p, Outer)' /\ Follows(p)'
    <3>1. Outer.id = drawing.call /\ Outer.op = "tree" /\ Outer' = Outer
      BY <1>1, <1>2, <2>3 DEF Drawing, Outer
    <3>2. served'[Outer'.id] = 1
      BY <1>2, <1>6, <3>1
    <3>3. p = [id |-> Outer'.id, op |-> Outer'.op, size |-> ResponseSize[Outer'.op]]
          /\ ResponseSize[Outer'.op] = ResponseSize["tree"]
      BY <2>2, <3>1, Sizes
    <3> QED  BY <3>2, <3>3 DEF Answer, Follows, Reply
  <2>4. \A i \in Calls : served[i] = 1 => served'[i] = 1
    BY <1>6
  <2> QED  BY <1>2, <1>4, <2>1, <2>2, <2>3, <2>4, Delivered
<1> QED
  BY <1>7, <1>8, <1>9, <1>11, <1>12, <1>14, <1>15, <1>16, <1>17, <1>18 DEF TransportInv

-----------------------------------------------------------------------------
(* The client                                                                 *)

-----------------------------------------------------------------------------
(* Steps of the client                                                        *)

\* The innermost and the outermost call.
LEMMA StackCases ==
    ASSUME TransportTypeOK, Nesting, stack # <<>>
    PROVE  /\ stack \in Seq(Requests) /\ Len(stack) \in {1, 2}
           /\ 1 \in 1..Len(stack) /\ Len(stack) \in 1..Len(stack)
           /\ Top \in Requests /\ Top.id \in Calls /\ Top.op \in Ops
           /\ Top.stage \in {"send", "receive", "callback"}
           /\ Top.left \in Seq(Pieces) /\ Top.got \in Seq(Pieces)
           /\ calls[Top.id] = "asked"
           /\ Outer \in Requests /\ Outer.id \in Calls /\ calls[Outer.id] = "asked"
           /\ Len(stack) = 1 => Outer = Top /\ Top.op \in {"plain", "tree"}
           /\ Len(stack) = 2 => /\ Outer = stack[2] /\ Outer.id # Top.id
                                /\ Outer.op = "tree" /\ Outer.stage = "callback"
                                /\ Outer.got = <<>> /\ Top.op \in {"plain", "vdi", "done"}
           /\ Top.stage = "callback" => Len(stack) = 1 /\ Top.op = "tree"
           /\ \A n \in 1..Len(stack) : stack[n] = Top \/ stack[n] = Outer
<1>1. stack \in Seq(Requests) /\ Len(stack) \in Nat \ {0} /\ Len(stack) <= 2
  BY StackFacts DEF TransportTypeOK, Nesting
<1>2. /\ Len(stack) \in {1, 2} /\ 1 \in 1..Len(stack) /\ Len(stack) \in 1..Len(stack)
      /\ \A n \in 1..Len(stack) : n = 1 \/ n = Len(stack)
  <2>1. \A n \in Nat \ {0} : n <= 2 => n \in {1, 2} /\ 1 \in 1..n /\ n \in 1..n
    OBVIOUS
  <2>2. \A m \in 1..Len(stack) : m = 1 \/ m = Len(stack)
    BY <1>1
  <2> QED  BY <1>1, <2>1, <2>2
<1>3. /\ Top \in Requests /\ Top.id \in Calls /\ Top.op \in Ops
      /\ Top.stage \in {"send", "receive", "callback"}
      /\ Top.left \in Seq(Pieces) /\ Top.got \in Seq(Pieces)
      /\ Outer \in Requests /\ Outer.id \in Calls
  BY <1>1, <1>2, StackFacts DEF Top, Outer
<1>4. calls[Top.id] = "asked" /\ calls[Outer.id] = "asked"
  BY <1>2 DEF Nesting, Top, Outer
<1>5. Len(stack) = 1 => Outer = Top /\ Top.op \in {"plain", "tree"}
  BY DEF Outer, Top, Nesting
<1>6. Len(stack) = 2 => /\ Outer = stack[2] /\ Outer.id # Top.id
                        /\ Outer.op = "tree" /\ Outer.stage = "callback"
                        /\ Outer.got = <<>> /\ Top.op \in {"plain", "vdi", "done"}
  BY <1>2 DEF Nesting, Outer
<1>7. Top.stage = "callback" => Len(stack) = 1 /\ Top.op = "tree"
  BY <1>2, <1>6 DEF Nesting, Top
<1>8. \A n \in 1..Len(stack) : stack[n] = Top \/ stack[n] = Outer
  BY <1>2 DEF Top, Outer
<1> QED  BY <1>1, <1>2, <1>3, <1>4, <1>5, <1>6, <1>7, <1>8

\* Numbers of calls and connections are taken in order.
LEMMA LeastNat ==
    ASSUME NEW T, T \subseteq Nat, T # {}
    PROVE  Min(T) \in T /\ \A y \in T : Min(T) <= y
<1> DEFINE Less == OpToRel(<, Nat)
<1>1. IsWellFoundedOn(Less, Nat)
  BY NatLessThanWellFounded
<1>2. \A x, y \in Nat : <<y, x>> \in Less <=> y < x
  BY DEF OpToRel
<1> HIDE DEF Less
<1>3. PICK x \in T : \A y \in T : <<y, x>> \notin Less
  BY <1>1, WFMin
<1>4. \A y \in T : x <= y
  <2> TAKE y \in T
  <2>1. x \in Nat /\ y \in Nat
    BY <1>3
  <2>2. ~(y < x)
    BY <1>2, <1>3, <2>1, Zenon
  <2>3. \A m, n \in Nat : ~(n < m) => m <= n
    OBVIOUS
  <2> QED  BY <2>1, <2>2, <2>3, Zenon
<1> QED  BY <1>4 DEF Min

\* The call that Begin makes: its number and its connection.
LEMMA Begun ==
    ASSUME TransportInv, NEW op \in Ops, Begin(op)
    PROVE  \E i \in Calls, c \in Links :
              /\ calls[i] = "new" /\ (sock # 0 => c = sock)
              /\ sock = 0 => link[c].client = "none" /\ (link[1].client = "none" => c = 1)
              /\ stack' = <<[id |-> i, op |-> op, stage |-> "send",
                             left |-> Frame(i, op, RequestSize[op]), got |-> <<>>]>> \o stack
              /\ calls' = [calls EXCEPT ![i] = "asked"]
              /\ sock' = c
              /\ link' = IF sock # 0 THEN link
                         ELSE [link EXCEPT ![c].client = "open", ![c].server = "backlog"]
              /\ UNCHANGED <<io, drawing, served>>
<1> DEFINE i == Min({j \in Calls : calls[j] = "new"})
           c == IF sock # 0 THEN sock ELSE Min(Fresh(Links))
<1>1. i \in Calls /\ calls[i] = "new"
  <2>1. {j \in Calls : calls[j] = "new"} # {} /\ {j \in Calls : calls[j] = "new"} \subseteq Nat
    BY TransportAssumption DEF Begin, TransportAssumption
  <2>2. i \in {j \in Calls : calls[j] = "new"}
    BY <2>1, LeastNat
  <2> QED  BY <2>2
<1>2. /\ c \in Links /\ (sock # 0 => c = sock)
      /\ sock = 0 => link[c].client = "none" /\ (link[1].client = "none" => c = 1)
  <2>1. CASE sock # 0
    BY <2>1 DEF TransportInv, TransportTypeOK
  <2>2. CASE sock = 0
    <3>1. Fresh(Links) # {} /\ Fresh(Links) \subseteq Links /\ Links \subseteq Nat \ {0}
      BY <2>2, TransportAssumption DEF Begin, Fresh, TransportAssumption
    <3>2. Fresh(Links) \subseteq Nat
      BY <3>1
    <3>3. Min(Fresh(Links)) \in Fresh(Links) /\ \A y \in Fresh(Links) : Min(Fresh(Links)) <= y
      BY <3>1, <3>2, LeastNat
    <3>4. c = Min(Fresh(Links))
      BY <2>2
    <3> HIDE DEF c
    <3>5. c \in Fresh(Links) /\ \A y \in Fresh(Links) : c <= y
      BY <3>3, <3>4
    <3>6. link[1].client = "none" => 1 \in Fresh(Links)
      BY TransportAssumption DEF Fresh, TransportAssumption
    <3>7. \A n \in Nat \ {0} : n <= 1 => n = 1
      OBVIOUS
    <3>8. c \in Links /\ link[c].client = "none"
      BY <3>5 DEF Fresh
    <3>9. link[1].client = "none" => c = 1
      BY <3>1, <3>5, <3>6, <3>7, <3>8
    <3> QED  BY <2>2, <3>8, <3>9
  <2> QED  BY <2>1, <2>2
<1>3. /\ stack' = <<[id |-> i, op |-> op, stage |-> "send",
                     left |-> Frame(i, op, RequestSize[op]), got |-> <<>>]>> \o stack
      /\ calls' = [calls EXCEPT ![i] = "asked"]
      /\ sock' = c
      /\ link' = IF sock # 0 THEN link
                 ELSE [link EXCEPT ![c].client = "open", ![c].server = "backlog"]
      /\ UNCHANGED <<io, drawing, served>>
  BY DEF Begin
<1> HIDE DEF i, c
<1> QED  BY <1>1, <1>2, <1>3

\* gem_rpc_call(): a call begins, with a new connection or the old one.
LEMMA BeginStep ==
    ASSUME TransportInv, NEW op \in Ops, Begin(op),
           \/ stack = <<>> /\ op \in {"plain", "tree"}
           \/ InCallback /\ op \in {"plain", "vdi", "done"}
    PROVE  TransportInv'
<1>1. PICK i \in Calls, c \in Links :
          /\ calls[i] = "new" /\ (sock # 0 => c = sock)
          /\ sock = 0 => link[c].client = "none" /\ (link[1].client = "none" => c = 1)
          /\ stack' = <<[id |-> i, op |-> op, stage |-> "send",
                         left |-> Frame(i, op, RequestSize[op]), got |-> <<>>]>> \o stack
          /\ calls' = [calls EXCEPT ![i] = "asked"]
          /\ sock' = c
          /\ link' = IF sock # 0 THEN link
                     ELSE [link EXCEPT ![c].client = "open", ![c].server = "backlog"]
          /\ UNCHANGED <<io, drawing, served>>
  BY Begun
<1> DEFINE left == Frame(i, op, RequestSize[op])
           call == [id |-> i, op |-> op, stage |-> "send", left |-> left, got |-> <<>>]
<1>2. /\ TransportTypeOK /\ Connected /\ Upstream /\ Ready /\ Drawing /\ CalledBack
      /\ Downstream /\ Nesting /\ Sending /\ Unserved
  BY DEF TransportInv
<1>3. /\ left \in Seq(Pieces) /\ left # <<>> /\ Len(left) = RequestSize[op] + 1
      /\ Range(left) = {[id |-> i, op |-> op, size |-> RequestSize[op]]}
  BY FrameFacts, Sizes
<1> HIDE DEF left
<1>4. /\ call \in Requests /\ call.id = i /\ call.op = op /\ call.stage = "send"
      /\ call.left = left /\ call.got = <<>>
      /\ Request(call) = [id |-> i, op |-> op, size |-> RequestSize[op]]
  BY <1>3, Nothing0 DEF Requests, Request
<1>5. stack' = <<call>> \o stack
  BY <1>1 DEF left
<1> HIDE DEF call
<1>6. /\ stack # <<>> => /\ Len(stack) = 1 /\ Outer = Top /\ Top.stage = "callback"
                         /\ Top.op = "tree" /\ Outer.id # i /\ Outer \in Requests
                         /\ calls[Outer.id] = "asked" /\ Outer.got = <<>> /\ Outer.id \in Calls
      /\ stack = <<>> => Len(stack) = 0
      /\ stack \in Seq(Requests)
  <2>1. ASSUME stack # <<>>
        PROVE  /\ Len(stack) = 1 /\ Outer = Top /\ Top.stage = "callback"
               /\ Top.op = "tree" /\ Outer.id # i /\ Outer \in Requests
               /\ calls[Outer.id] = "asked" /\ Outer.got = <<>> /\ Outer.id \in Calls
    <3>1. Top.stage = "callback"
      BY <2>1 DEF InCallback
    <3>2. Len(stack) = 1 /\ Top.op = "tree" /\ Outer = Top /\ Top \in Requests
          /\ calls[Top.id] = "asked" /\ Top.id \in Calls /\ 1 \in 1..Len(stack)
      BY <1>2, <2>1, <3>1, StackCases
    <3>3. Top.got = <<>>
      BY <1>2, <3>1, <3>2 DEF Nesting, Top
    <3> QED  BY <1>1, <3>1, <3>2, <3>3
  <2> QED  BY <1>2, <2>1 DEF TransportTypeOK
<1>7. /\ stack' \in Seq(Requests) /\ Len(stack') = IF stack = <<>> THEN 1 ELSE 2
      /\ Top' = call /\ (stack = <<>> => Outer' = call) /\ (stack # <<>> => Outer' = Outer)
      /\ \A n \in 1..Len(stack') : stack'[n] = call \/ (stack # <<>> /\ n = 2 /\ stack'[n] = Outer)
  <2>1. <<call>> \in Seq(Requests) /\ Len(<<call>>) = 1 /\ <<call>>[1] = call
    BY <1>4
  <2>2. /\ stack' \in Seq(Requests) /\ Len(stack') = 1 + Len(stack)
        /\ \A n \in 1..(1 + Len(stack)) :
              stack'[n] = IF n <= 1 THEN <<call>>[n] ELSE stack[n - 1]
    BY <1>5, <1>6, <2>1, ConcatProperties
  <2>3. CASE stack = <<>>
    <3>1. Len(stack') = 1 /\ stack'[1] = call /\ 1..Len(stack') = {1}
      BY <1>6, <2>1, <2>2, <2>3
    <3> QED  BY <1>6, <2>2, <2>3, <3>1 DEF Top, Outer
  <2>4. CASE stack # <<>>
    <3>1. Len(stack') = 2 /\ stack'[1] = call /\ stack'[2] = stack[1] /\ 1..Len(stack') = {1, 2}
      <4>1. Len(stack) = 1 /\ 1 + 1 = 2 /\ 1..2 = {1, 2} /\ 2 - 1 = 1 /\ ~(2 <= 1) /\ 1 <= 1
        BY <1>6, <2>4
      <4>2. 1 \in 1..(1 + Len(stack)) /\ 2 \in 1..(1 + Len(stack))
        BY <4>1
      <4> QED  BY <2>1, <2>2, <4>1, <4>2
    <3>2. stack[1] = Outer
      BY <1>6, <2>4 DEF Top
    <3> QED  BY <1>6, <2>2, <2>4, <3>1, <3>2 DEF Top, Outer
  <2> QED  BY <2>3, <2>4
<1>8. /\ \A j \in Calls : calls'[j] = IF j = i THEN "asked" ELSE calls[j]
      /\ calls' \in [Calls -> {"new", "asked", "answered", "failed", "mistaken"}]
  BY <1>1, <1>2 DEF TransportTypeOK
<1>9. \A d \in Links :
          /\ link'[d].up = link[d].up /\ link'[d].down = link[d].down
          /\ link'[d].client = IF sock = 0 /\ d = c THEN "open" ELSE link[d].client
          /\ link'[d].server = IF sock = 0 /\ d = c THEN "backlog" ELSE link[d].server
          /\ ~(sock = 0 /\ d = c) => link'[d] = link[d]
  <2>1. CASE sock # 0
    BY <1>1, <2>1
  <2>2. CASE sock = 0
    <3>1. link' = [link EXCEPT ![c].client = "open", ![c].server = "backlog"]
      BY <1>1, <2>2
    <3> QED  BY <1>2, <2>2, <3>1, LinkFacts DEF TransportTypeOK, Sockets
  <2> QED  BY <2>1, <2>2
<1>10. sock = 0 => /\ link[c].up = <<>> /\ link[c].down = <<>> /\ link[c].server = "none"
                   /\ io[c] = Idle /\ drawing.link # c
  <2>1. ASSUME sock = 0 PROVE link[c] = NoLink /\ link[c].server = "none"
    <3>1. link[c] = NoLink
      BY <1>1, <1>2, <2>1 DEF Connected
    <3> QED  BY <3>1 DEF NoLink
  <2>2. ASSUME sock = 0 PROVE drawing.link # c
    BY <1>2, <2>1, <2>2, TransportAssumption DEF Drawing, TransportAssumption
  <2> QED  BY <1>2, <2>1, <2>2 DEF Connected, NoLink
<1>11. c # 0 /\ (sock = 0 => \A d \in Links : d # sock)
  BY TransportAssumption DEF TransportAssumption
<1>12. TransportTypeOK'
  <2>1. [link[c] EXCEPT !.client = "open", !.server = "backlog"] \in Sockets
    BY <1>2, LinkFacts DEF Sockets
  <2>2. link' \in [Links -> Sockets]
    <3>1. CASE sock # 0
      BY <1>1, <1>2, <3>1 DEF TransportTypeOK
    <3>2. CASE sock = 0
      <4>1. link' = [link EXCEPT ![c] = [link[c] EXCEPT !.client = "open", !.server = "backlog"]]
        BY <1>1, <3>2
      <4> QED  BY <1>2, <2>1, <4>1 DEF TransportTypeOK
    <3> QED  BY <3>1, <3>2
  <2> QED  BY <1>1, <1>2, <1>7, <1>8, <1>9, <2>2 DEF TransportTypeOK
<1>13. Nesting'
  <2>1. Len(stack') <= 2
    BY <1>6, <1>7
  <2>2. Len(stack') = 1 => Top'.op \in {"plain", "tree"}
    <3>1. Len(stack') = 1 => stack = <<>>
      BY <1>7
    <3> QED  BY <1>4, <1>7, <3>1 DEF InCallback
  <2>3. Len(stack') = 2 => /\ Outer'.stage = "callback" /\ Outer'.id # Top'.id
                           /\ Top'.op \in {"plain", "vdi", "done"}
    <3>1. Len(stack') = 2 => stack # <<>>
      BY <1>7
    <3> QED  BY <1>4, <1>6, <1>7, <3>1
  <2>4. ASSUME NEW n \in 1..Len(stack')
        PROVE  /\ calls'[stack'[n].id] = "asked"
               /\ stack'[n].stage = "callback" => stack'[n].op = "tree" /\ stack'[n].got = <<>>
    <3>1. CASE stack'[n] = call
      BY <1>4, <1>8, <3>1
    <3>2. CASE stack # <<>> /\ stack'[n] = Outer
      BY <1>6, <1>8, <3>2
    <3> QED  BY <1>7, <3>1, <3>2
  <2> QED  BY <2>1, <2>2, <2>3, <2>4 DEF Nesting
<1>14. \A p : /\ Awaited(p) => p.id # i
              /\ Awaited(p) /\ p.id \in Calls => Awaited(p)'
  BY <1>1, <1>8 DEF Awaited
<1>15. Sending'
  <2>1. Request(Top)' = [id |-> i, op |-> op, size |-> RequestSize[op]]
    BY <1>4, <1>7 DEF Request
  <2>2. served[i] = 0 /\ calls'[i] = "asked"
    BY <1>1, <1>2, <1>8 DEF Unserved
  <2>3. drawing.link # 0 => i # drawing.call
    BY <1>1, <1>2 DEF Drawing
  <2>4. Awaited([id |-> i, op |-> op, size |-> RequestSize[op]])'
    BY <1>1, <2>2, <2>3 DEF Awaited
  <2>5. Awaited(Request(Top))'
    BY <2>1, <2>4 DEF Awaited
  <2>6. Top'.left # <<>> /\ Range(Top'.left) \subseteq {Request(Top)'}
        /\ Len(Top'.left) <= RequestSize[Top'.op] + 1
    BY <1>3, <1>4, <1>7, <2>1, Sizes
  <2> QED  BY <2>5, <2>6 DEF Sending
<1>16. Connected'
  <2>1. (Talking => sock # 0)' /\ link'[1].client # "none"
    <3>1. link'[1].client # "none"
      <4>1. 1 \in Links
        BY TransportAssumption DEF TransportAssumption
      <4>2. CASE sock = 0 /\ link[1].client = "none"
        <5>1. c = 1
          BY <1>1, <4>2
        <5>2. link'[c].client = "open"
          BY <1>9, <4>2
        <5> QED  BY <5>1, <5>2
      <4>3. CASE ~(sock = 0 /\ link[1].client = "none")
        <5>1. link[1].client # "none"
          BY <1>2, <4>3 DEF Connected
        <5> QED  BY <1>9, <4>1, <5>1
      <4> QED  BY <4>2, <4>3
    <3> QED  BY <1>1, <1>11, <3>1
  <2>2. ASSUME NEW d \in Links
        PROVE  /\ link'[d].client = "open" <=> d = sock'
               /\ link'[d].client = "none" => link'[d] = NoLink
               /\ link'[d].server \in {"none", "backlog"} => io'[d] = Idle /\ link'[d].down = <<>>
               /\ link'[d].server = "none" => link'[d].client = "none"
    <3>1. /\ link[d].client = "open" <=> d = sock
          /\ link[d].client = "none" => link[d] = NoLink
          /\ link[d].server \in {"none", "backlog"} => io[d] = Idle /\ link[d].down = <<>>
          /\ link[d].server = "none" => link[d].client = "none"
      BY <1>2 DEF Connected
    <3>2. CASE sock = 0 /\ d = c
      <4>1. /\ link'[d].client = "open" /\ link'[d].server = "backlog"
            /\ link'[d].down = <<>> /\ io'[d] = Idle /\ d = sock'
        BY <1>1, <1>9, <1>10, <3>2
      <4> QED  BY <4>1
    <3>3. CASE ~(sock = 0 /\ d = c)
      BY <1>1, <1>9, <1>11, <3>1, <3>3
    <3> QED  BY <3>2, <3>3
  <2> QED  BY <2>1, <2>2 DEF Connected
<1>17. \A d \in Links : Reading(d)' = Reading(d)
  BY <1>1 DEF Reading
<1>18. Upstream'
  <2>1. ~Talking
    BY <1>6 DEF Talking
  <2>2. \A d \in Links : d = sock' => Heads(d)' = {}
    <3> SUFFICES Heads(c)' = {}
      BY <1>1
    <3>1. CASE sock = 0
      <4>1. link'[c].up = <<>> /\ Reading(c)' = <<>>
        BY <1>9, <1>10, <1>17, <3>1 DEF Reading, Idle
      <4> QED  BY <4>1, Nothing0 DEF Heads
    <3>2. CASE sock # 0
      <4>1. Heads(c) = {}
        BY <1>1, <1>2, <2>1, <3>2 DEF Upstream, Placed
      <4>2. Heads(c)' = Heads(c)
        BY <1>9, <1>17, <3>2 DEF Heads, Live
      <4> QED  BY <4>1, <4>2
    <3> QED  BY <3>1, <3>2
  <2>3. ASSUME NEW d \in Links, d # sock'
        PROVE  /\ Heads(d)' = Heads(d) /\ Load(d)' = Load(d) /\ d # sock
    <3>1. d # c /\ d # sock
      BY <1>1, <1>11, <2>3
    <3>2. Heads(d)' = Heads(d)
      BY <1>9, <1>17, <3>1 DEF Heads, Live
    <3>3. Unsent(d)' = <<>> /\ Unsent(d) = <<>>
      BY <2>3, <3>1 DEF Unsent
    <3>4. Load(d)' = Load(d)
      BY <1>9, <1>17, <3>1, <3>3 DEF Load
    <3> QED  BY <3>1, <3>2, <3>4
  <2>4. ASSUME NEW d \in Links, NEW p \in Heads(d)'
        PROVE  Awaited(p)' /\ Placed(d, p)' /\ Load(d)' <= p.size + 1
    <3>1. d # sock' /\ d # sock /\ p \in Heads(d) /\ Load(d)' = Load(d)
      BY <2>2, <2>3, <2>4
    <3>2. Awaited(p) /\ Placed(d, p) /\ Load(d) <= p.size + 1 /\ p \in Pieces
      BY <1>2, <2>4, <3>1, LinkFacts, LoadFacts, Nothing0 DEF Upstream, Heads
    <3>3. Awaited(p)' /\ p.id # i
      BY <1>14, <3>2 DEF Pieces
    <3>4. \A n \in 1..Len(stack') : stack'[n].id # p.id
      <4>1. stack # <<>> => Outer.id # p.id
        <5>1. stack # <<>> => Outer = stack[1] /\ 1 \in 1..Len(stack)
          BY <1>6 DEF Top
        <5> QED  BY <3>1, <3>2, <5>1 DEF Placed
      <4> QED  BY <1>4, <1>7, <3>3, <4>1
    <3>5. Placed(d, p)'
      BY <3>1, <3>4 DEF Placed
    <3> QED  BY <3>1, <3>2, <3>3, <3>5
  <2>5. \A d \in Links : Heads(d)' \subseteq Heads(d)
    BY <2>2, <2>3
  <2> QED  BY <1>2, <2>4, <2>5, UpstreamKept
<1>19. Ready'
  BY <1>1, <1>2 DEF Ready
<1>20. Drawing'
  <2>1. ASSUME drawing.link # 0
        PROVE  /\ link'[1].server = link[1].server
               /\ calls'[drawing.call] \in {"asked", "failed"}
               /\ sock' = 1 => stack' # <<>> /\ Outer' = Outer /\ sock = 1
    <3>1. drawing.link = 1 /\ 1 \in Links /\ drawing.call \in Calls
          /\ calls[drawing.call] \in {"asked", "failed"}
      BY <1>2, <2>1, TransportAssumption DEF Drawing, TransportAssumption
    <3>2. sock' = 1 => sock = 1
      BY <1>1, <1>10, <3>1
    <3>3. sock = 1 => stack # <<>>
      BY <1>2, <2>1 DEF Drawing
    <3>4. stack' # <<>>
      BY <1>7, StackFacts
    <3> QED  BY <1>7, <1>8, <1>9, <1>10, <3>1, <3>2, <3>3, <3>4
  <2> QED  BY <1>1, <1>2, <2>1 DEF Drawing
<1>21. CalledBack'
  <2> SUFFICES ASSUME Outer'.stage = "callback", sock' = 1, Live(1)', ~ResultServed'
               PROVE  Asks(Outer)'
    BY DEF CalledBack
  <2>1. stack # <<>> /\ Outer' = Outer /\ Outer.stage = "callback" /\ Top.op = "tree"
    BY <1>4, <1>6, <1>7
  <2>2. sock = 1
    <3>1. sock = 0 => link[1].client # "none" /\ link[c].client = "none"
      BY <1>1, <1>2, <2>1 DEF Connected
    <3> QED  BY <1>1, <3>1
  <2>3. 1 \in Links /\ Live(1)
    BY <1>9, <2>2, TransportAssumption DEF Live, TransportAssumption
  <2>4. Asks(Outer)
    BY <1>2, <2>1, <2>2, <2>3 DEF CalledBack, ResultServed
  <2> QED  BY <1>1, <2>1, <2>2, <2>4 DEF Asks
<1>22. Downstream'
  <2>1. link'[c].down = <<>> /\ Pending' = <<>>
    <3>1. CASE sock = 0
      <4>1. link'[c].server = "backlog"
        BY <1>9, <3>1
      <4> QED  BY <1>1, <1>9, <1>10, <3>1, <4>1 DEF Pending
    <3>2. CASE sock # 0
      <4>1. Silent
        BY <1>2, <1>6, <3>2 DEF Downstream
      <4>2. link[sock].down = <<>> /\ Pending = <<>> /\ c = sock
        BY <1>1, <3>2, <4>1 DEF Silent
      <4> QED  BY <1>1, <1>9, <3>2, <4>2 DEF Pending
    <3> QED  BY <3>1, <3>2
  <2>2. Silent'
    BY <1>1, <1>4, <1>7, <2>1 DEF Silent
  <2> QED  BY <2>2 DEF Downstream
<1>23. Unserved'
  BY <1>1, <1>2, <1>8 DEF Unserved
<1> QED
  BY <1>12, <1>13, <1>15, <1>16, <1>18, <1>19, <1>20, <1>21, <1>22, <1>23 DEF TransportInv

\* gem_rpc_send_all(), while the server reads.
LEMMA SendPartStep ==
    ASSUME TransportInv, ClientSend, link[sock].server \notin {"shut", "closed"}
    PROVE  TransportInv'
<1>1. PICK n \in 1..Least(Buffer - Len(link[sock].up), Len(Top.left)) :
         /\ link' = [link EXCEPT ![sock].up = @ \o SubSeq(Top.left, 1, n)]
         /\ stack' = [stack EXCEPT
               ![1].left  = SubSeq(@, n + 1, Len(@)),
               ![1].stage = IF n = Len(Top.left) THEN "receive" ELSE @]
         /\ UNCHANGED <<sock, calls>>
  BY DEF ClientSend
<1>2. /\ stack # <<>> /\ Top.stage = "send" /\ UNCHANGED <<io, drawing, served>>
  BY DEF ClientSend
<1>3. /\ TransportTypeOK /\ Connected /\ Upstream /\ Ready /\ Drawing /\ CalledBack
      /\ Downstream /\ Nesting /\ Sending /\ Unserved
  BY DEF TransportInv
<1>4. /\ stack \in Seq(Requests) /\ Len(stack) \in {1, 2}
      /\ 1 \in 1..Len(stack) /\ Len(stack) \in 1..Len(stack)
      /\ Top \in Requests /\ Top.id \in Calls /\ Top.op \in Ops
      /\ Top.left \in Seq(Pieces) /\ Top.got \in Seq(Pieces)
      /\ Len(stack) = 1 => Outer = Top
      /\ Len(stack) = 2 => Outer = stack[2] /\ Outer.id # Top.id /\ Outer.stage = "callback"
      /\ \A m \in 1..Len(stack) : stack[m] = Top \/ stack[m] = Outer
  BY <1>2, <1>3, StackCases
<1>5. /\ sock \in Links /\ sock # 0 /\ Live(sock) /\ link[sock].up \in Seq(Pieces)
      /\ Len(link[sock].up) \in Nat /\ link[sock] \in Sockets
      /\ link[sock].client = "open"
  <2>1. sock # 0 /\ sock \in Links
    BY <1>2, <1>3 DEF Connected, Talking, TransportTypeOK
  <2>2. link[sock].client = "open" /\ link[sock].server # "none"
    BY <1>3, <2>1 DEF Connected
  <2> QED  BY <1>3, <2>1, <2>2, LinkFacts DEF Live
<1>6. /\ Top.left # <<>> /\ Range(Top.left) \subseteq {Request(Top)}
      /\ Len(Top.left) <= RequestSize[Top.op] + 1 /\ Awaited(Request(Top))
  BY <1>2, <1>3 DEF Sending
<1> DEFINE left == Top.left
           up   == link[sock].up
           a    == SubSeq(left, 1, n)
           b    == SubSeq(left, n + 1, Len(left))
           next == [Top EXCEPT !.left = b, !.stage = IF n = Len(left) THEN "receive" ELSE "send"]
<1>7. /\ Len(left) \in Nat /\ n \in 1..Len(left) /\ n \in 0..Len(left)
      /\ Len(up) + n <= Buffer /\ n \in Nat
  <2>1. Len(left) \in Nat /\ Buffer \in Nat /\ Len(up) \in Nat
    BY <1>4, <1>5, Nothing0, TransportAssumption DEF TransportAssumption
  <2> HIDE DEF left, up
  <2>2. n \in 1..Least(Buffer - Len(up), Len(left))
    BY DEF left, up
  <2> QED  BY <2>1, <2>2 DEF Least
<1>8. /\ a \in Seq(Pieces) /\ Len(a) = n /\ Range(a) \subseteq Range(left)
      /\ b \in Seq(Pieces) /\ Len(b) = Len(left) - n /\ Range(b) \subseteq Range(left)
  BY <1>4, <1>7, Cut
<1>9. /\ up \o a \in Seq(Pieces) /\ Len(up \o a) = Len(up) + n
      /\ Range(up \o a) = Range(up) \cup Range(a)
  BY <1>5, <1>8, Joined
<1>10. /\ link' = [link EXCEPT ![sock] = [link[sock] EXCEPT !.up = up \o a]]
       /\ stack' = [stack EXCEPT ![1] = next]
  <2>1. stack' = [stack EXCEPT ![1] = next]
    BY <1>1, <1>2, <1>4 DEF Top
  <2> QED  BY <1>1, <2>1
<1> HIDE DEF a, b
<1>11. /\ next \in Requests /\ next.id = Top.id /\ next.op = Top.op /\ next.left = b
       /\ next.got = Top.got
       /\ next.stage = IF n = Len(left) THEN "receive" ELSE "send"
  BY <1>4, <1>8 DEF Requests
<1> HIDE DEF next, left, up
<1>12. /\ stack' \in Seq(Requests) /\ Len(stack') = Len(stack) /\ stack' # <<>>
       /\ Top' = next /\ stack'[1] = next
       /\ \A m \in 1..Len(stack) : m # 1 => stack'[m] = stack[m]
       /\ Len(stack) = 1 => Outer' = next
       /\ Len(stack) = 2 => Outer' = Outer
  <2>1. /\ stack' \in Seq(Requests) /\ Len(stack') = Len(stack)
        /\ \A m \in 1..Len(stack) : stack'[m] = IF m = 1 THEN next ELSE stack[m]
    BY <1>4, <1>10, <1>11, ExceptSeq
  <2>2. stack' # <<>>
    BY <1>4, <2>1, StackFacts
  <2>3. stack'[1] = next /\ (Len(stack) = 2 => stack'[2] = stack[2])
    <3>1. Len(stack) = 2 => 2 \in 1..Len(stack)
      BY <1>4
    <3> QED  BY <1>4, <2>1, <3>1
  <2> QED  BY <1>4, <2>1, <2>2, <2>3 DEF Top, Outer
<1>13. \A m \in 1..Len(stack) : /\ stack'[m].id = stack[m].id /\ stack'[m].op = stack[m].op
                                /\ stack'[m].got = stack[m].got
                                /\ stack'[m].stage = "callback" <=> stack[m].stage = "callback"
  <2> SUFFICES ASSUME NEW m \in 1..Len(stack)
               PROVE  /\ stack'[m].id = stack[m].id /\ stack'[m].op = stack[m].op
                      /\ stack'[m].got = stack[m].got
                      /\ stack'[m].stage = "callback" <=> stack[m].stage = "callback"
    OBVIOUS
  <2>1. CASE m = 1
    BY <1>2, <1>11, <1>12, <2>1 DEF Top
  <2>2. CASE m # 1
    BY <1>12, <2>2
  <2> QED  BY <2>1, <2>2
<1>14. \A d \in Links :
           /\ link'[d].up = IF d = sock THEN up \o a ELSE link[d].up
           /\ link'[d].down = link[d].down /\ link'[d].client = link[d].client
           /\ link'[d].server = link[d].server
           /\ d # sock => link'[d] = link[d]
  BY <1>3, <1>5, <1>10 DEF TransportTypeOK, Sockets
<1>15. TransportTypeOK'
  <2>1. [link[sock] EXCEPT !.up = up \o a] \in Sockets
    BY <1>5, <1>9 DEF Sockets
  <2>2. link' \in [Links -> Sockets]
    BY <1>3, <1>10, <2>1 DEF TransportTypeOK
  <2>3. \A d \in Links : Len(link'[d].up) <= Buffer /\ Len(link'[d].down) <= Buffer
    <3>1. \A d \in Links : Len(link[d].up) <= Buffer /\ Len(link[d].down) <= Buffer
      BY <1>3 DEF TransportTypeOK
    <3> QED  BY <1>7, <1>9, <1>14, <3>1
  <2> QED  BY <1>1, <1>2, <1>3, <1>12, <2>2, <2>3 DEF TransportTypeOK
<1>16. Nesting'
  <2>1. Len(stack') <= 2
    BY <1>4, <1>12
  <2>2. (Len(stack) = 1 => Top'.op \in {"plain", "tree"})
    BY <1>3, <1>11, <1>12 DEF Nesting
  <2>3. Len(stack) = 2 => /\ Outer'.stage = "callback" /\ Outer'.id # Top'.id
                          /\ Top'.op \in {"plain", "vdi", "done"}
    BY <1>3, <1>4, <1>11, <1>12 DEF Nesting
  <2>4. \A m \in 1..Len(stack) :
            /\ calls[stack'[m].id] = "asked"
            /\ stack'[m].stage = "callback" => stack'[m].op = "tree" /\ stack'[m].got = <<>>
    BY <1>3, <1>13 DEF Nesting
  <2> QED  BY <1>1, <1>12, <2>1, <2>2, <2>3, <2>4 DEF Nesting
<1>17. Request(Top)' = Request(Top) /\ \A p : Awaited(p) <=> Awaited(p)'
  BY <1>1, <1>2, <1>11, <1>12 DEF Request, Awaited
<1>18. Sending'
  <2> SUFFICES ASSUME next.stage = "send"
               PROVE  /\ b # <<>> /\ Range(b) \subseteq {Request(Top)}
                      /\ Len(b) <= RequestSize[Top.op] + 1
                      /\ Awaited(Request(Top))'
    BY <1>11, <1>12, <1>17 DEF Sending
  <2>1. n # Len(left)
    BY <1>11
  <2>2. Len(b) # 0 /\ Len(b) <= RequestSize[Top.op] + 1
    <3>1. RequestSize[Top.op] \in Nat /\ Len(left) <= RequestSize[Top.op] + 1
      BY <1>4, <1>6, Sizes DEF left
    <3> QED  BY <1>7, <1>8, <2>1, <3>1
  <2>3. Awaited(Request(Top))'
    BY <1>6, <1>17 DEF Awaited
  <2> QED  BY <1>6, <1>8, <2>2, <2>3, Nothing0 DEF left
<1>19. Connected'
  <2>1. sock' # 0 /\ link'[1].client # "none"
    <3>1. 1 \in Links
      BY TransportAssumption DEF TransportAssumption
    <3> QED  BY <1>1, <1>3, <1>5, <1>14, <3>1 DEF Connected
  <2>2. ASSUME NEW d \in Links
        PROVE  /\ link'[d].client = "open" <=> d = sock'
               /\ link'[d].client = "none" => link'[d] = NoLink
               /\ link'[d].server \in {"none", "backlog"} => io'[d] = Idle /\ link'[d].down = <<>>
               /\ link'[d].server = "none" => link'[d].client = "none"
    <3>1. /\ link[d].client = "open" <=> d = sock
          /\ link[d].client = "none" => link[d] = NoLink
          /\ link[d].server \in {"none", "backlog"} => io[d] = Idle /\ link[d].down = <<>>
          /\ link[d].server = "none" => link[d].client = "none"
      BY <1>3 DEF Connected
    <3>2. link'[d].client = "none" => link'[d] = NoLink
      BY <1>5, <1>14, <3>1
    <3> QED  BY <1>1, <1>2, <1>14, <3>1, <3>2
  <2> QED  BY <2>1, <2>2 DEF Connected
<1>20. \A d \in Links : (Live(d)' <=> Live(d)) /\ Reading(d)' = Reading(d)
  BY <1>2, <1>14 DEF Live, Reading
<1>21. Upstream'
  <2>1. Heads(sock)' \subseteq Heads(sock) \cup {Request(Top)}
    <3>1. Heads(sock)' = Range(up) \cup Range(a) \cup Range(Reading(sock))
      <4>1. link'[sock].up = up \o a /\ Live(sock)' /\ Reading(sock)' = Reading(sock)
        BY <1>1, <1>2, <1>5, <1>14 DEF Live, Reading
      <4> QED  BY <1>1, <1>9, <4>1 DEF Heads
    <3>2. Heads(sock) = Range(up) \cup Range(Reading(sock))
      BY <1>5 DEF Heads, up
    <3> QED  BY <1>6, <1>8, <3>1, <3>2 DEF left
  <2>2. \A p \in Heads(sock)' : p = Request(Top)
    <3>1. \A p \in Heads(sock) : p = Request(Top)
      BY <1>3, <1>5 DEF Upstream, Placed
    <3> QED  BY <2>1, <3>1
  <2>3. Load(sock) <= RequestSize[Top.op] + 1
    <3>1. CASE Heads(sock) = {}
      <4>1. Range(up) = {} /\ Range(Reading(sock)) = {}
        BY <1>5, <3>1 DEF Heads, up
      <4>2. up = <<>> /\ Reading(sock) = <<>>
        BY <1>3, <1>5, <4>1, LoadFacts, Nothing0 DEF up
      <4>3. Unsent(sock) = left
        BY <1>2 DEF Unsent, left
      <4>4. Load(sock) = Len(left) + 0 + 0
        BY <4>2, <4>3, Nothing0 DEF Load, up
      <4> QED  BY <1>6, <1>7, <4>4 DEF left
    <3>2. CASE Heads(sock) # {}
      <4>1. PICK p \in Heads(sock) : TRUE
        BY <3>2
      <4>2. Load(sock) <= p.size + 1 /\ p = Request(Top)
        BY <1>3, <1>5, <4>1 DEF Upstream, Placed
      <4> QED  BY <4>2 DEF Request
    <3> QED  BY <3>1, <3>2
  <2>4. Load(sock)' = Load(sock)
    <3>1. Unsent(sock)' = (IF n = Len(left) THEN <<>> ELSE b) /\ Unsent(sock) = left
      BY <1>1, <1>2, <1>11, <1>12 DEF Unsent, left
    <3>2. Len(Unsent(sock)') = Len(left) - n
      <4>1. CASE n = Len(left)
        BY <1>7, <3>1, <4>1, Nothing0
      <4>2. CASE n # Len(left)
        BY <1>8, <3>1, <4>2
      <4> QED  BY <4>1, <4>2
    <3>3. Load(sock)' = (Len(left) - n) + (Len(up) + n) + Len(Reading(sock))
      BY <1>1, <1>5, <1>9, <1>14, <1>20, <3>2 DEF Load
    <3>4. Load(sock) = Len(left) + Len(up) + Len(Reading(sock))
      BY <3>1 DEF Load, up
    <3>5. Len(Reading(sock)) \in Nat /\ Len(up) \in Nat
      BY <1>3, <1>5, LoadFacts DEF up
    <3> QED  BY <1>7, <3>3, <3>4, <3>5
  <2>5. ASSUME NEW d \in Links, d # sock
        PROVE  Heads(d)' = Heads(d) /\ Load(d)' = Load(d)
    <3>1. Unsent(d)' = <<>> /\ Unsent(d) = <<>>
      BY <1>1, <2>5 DEF Unsent
    <3> QED  BY <1>14, <1>20, <2>5, <3>1 DEF Heads, Load
  <2>6. ASSUME NEW d \in Links, d # sock, NEW p \in Heads(d)
        PROVE  /\ p.id # Top.id /\ Awaited(p)' /\ Placed(d, p)'
               /\ Load(d)' <= p.size + 1 /\ \A q \in Heads(d) : q = p
    <3>1. /\ Awaited(p) /\ Placed(d, p) /\ Load(d) <= p.size + 1 /\ \A q \in Heads(d) : q = p
      BY <1>3, <2>6 DEF Upstream
    <3>2. \A m \in 1..Len(stack) : stack[m].id # p.id
      BY <2>6, <3>1 DEF Placed
    <3>3. \A m \in 1..Len(stack') : stack'[m].id # p.id
      BY <1>12, <1>13, <3>2
    <3>4. Placed(d, p)'
      BY <1>1, <2>6, <3>3 DEF Placed
    <3> QED  BY <1>4, <1>17, <2>5, <2>6, <3>1, <3>2, <3>4 DEF Top
  <2>7. ASSUME NEW p \in Heads(sock)'
        PROVE  Awaited(p)' /\ Placed(sock, p)' /\ Load(sock)' <= p.size + 1
    <3>1. p = Request(Top) /\ p.size = RequestSize[Top.op]
      BY <2>2 DEF Request
    <3>2. Awaited(p)'
      BY <1>6, <1>17, <3>1
    <3>3. Talking'
      BY <1>11, <1>12 DEF Talking
    <3>4. Placed(sock, p)'
      BY <1>1, <1>17, <3>1, <3>3 DEF Placed
    <3> QED  BY <2>3, <2>4, <3>1, <3>2, <3>4
  <2>8. Request(Top).id = Top.id
    BY DEF Request
  <2> SUFFICES ASSUME NEW d \in Links, NEW p \in Heads(d)'
               PROVE  /\ Awaited(p)' /\ Placed(d, p)' /\ Load(d)' <= p.size + 1
                      /\ \A q \in Heads(d)' : q = p
                      /\ \A e \in Links \ {d} : \A q \in Heads(e)' : p.id # q.id
    BY DEF Upstream
  <2>9. CASE d = sock
    <3>1. Heads(d)' = Heads(sock)' /\ Load(d)' = Load(sock)' /\ (Placed(d, p)' <=> Placed(sock, p)')
      BY <1>1, <2>9 DEF Heads, Load, Placed, Live, Reading, Unsent
    <3>2. p \in Heads(sock)' /\ \A q \in Heads(d)' : q = p
      BY <2>2, <3>1
    <3>3. \A e \in Links \ {d} : \A q \in Heads(e)' : p.id # q.id
      BY <2>2, <2>5, <2>6, <2>8, <2>9, <3>2
    <3> QED  BY <2>7, <3>1, <3>2, <3>3
  <2>10. CASE d # sock
    <3>1. p \in Heads(d) /\ p.id # Top.id
      BY <2>5, <2>6, <2>10
    <3>2. ASSUME NEW e \in Links \ {d}, NEW q \in Heads(e)' PROVE p.id # q.id
      <4>1. CASE e = sock
        <5>1. Heads(e)' = Heads(sock)'
          BY <1>1, <4>1 DEF Heads, Live, Reading
        <5> QED  BY <2>2, <2>8, <3>1, <3>2, <5>1
      <4>2. CASE e # sock
        BY <1>3, <2>5, <3>1, <3>2, <4>2 DEF Upstream
      <4> QED  BY <4>1, <4>2
    <3> QED  BY <2>5, <2>6, <2>10, <3>1, <3>2
  <2> QED  BY <2>9, <2>10
<1>22. Ready'
  BY <1>2, <1>3 DEF Ready
<1>23. Drawing'
  <2>1. ASSUME drawing.link # 0, sock = 1 PROVE Outer' = Outer
    <3>1. Outer.stage # "send"
      BY <1>3, <2>1 DEF Drawing
    <3> QED  BY <1>2, <1>4, <1>12, <3>1
  <2>2. 1 \in Links
    BY TransportAssumption DEF TransportAssumption
  <2> QED  BY <1>1, <1>2, <1>3, <1>12, <1>14, <2>1, <2>2 DEF Drawing
<1>24. CalledBack'
  <2> SUFFICES ASSUME Outer'.stage = "callback", sock = 1, Live(1)', ~ResultServed'
               PROVE  Asks(Outer)'
    BY <1>1 DEF CalledBack
  <2>1. Outer' = Outer
    BY <1>4, <1>11, <1>12
  <2>2. ~ResultServed /\ Live(1)
    BY <1>2, <1>5, <1>11, <1>12, <1>20 DEF ResultServed
  <2>3. Asks(Outer)
    BY <1>2, <1>3, <2>1, <2>2 DEF CalledBack
  <2> QED  BY <1>1, <1>2, <2>1, <2>3 DEF Asks
<1>25. Downstream'
  <2>1. Silent
    BY <1>2, <1>3, <1>5 DEF Downstream
  <2>2. link'[sock].down = <<>> /\ Pending' = <<>> /\ Top'.got = <<>>
    BY <1>1, <1>2, <1>5, <1>11, <1>12, <1>14, <2>1 DEF Silent, Pending
  <2> QED  BY <1>1, <2>2 DEF Downstream, Silent
<1>26. Unserved'
  BY <1>1, <1>2, <1>3 DEF Unserved
<1> QED
  BY <1>15, <1>16, <1>18, <1>19, <1>21, <1>22, <1>23, <1>24, <1>25, <1>26 DEF TransportInv

\* gem_rpc_disconnect(), and the calls that fail with the connection.
LEMMA GiveUpStep ==
    ASSUME TransportInv, stack # <<>>, GiveUp, sock' = 0,
           \/ sock # 0 /\ Talking /\ link' = [link EXCEPT ![sock].client = "closed"]
           \/ sock = 0 /\ InCallback /\ link' = link,
           UNCHANGED <<io, drawing, served>>
    PROVE  TransportInv'
<1>1. /\ TransportTypeOK /\ Connected /\ Upstream /\ Ready /\ Drawing /\ CalledBack
      /\ Downstream /\ Nesting /\ Sending /\ Unserved
  BY DEF TransportInv
<1>2. /\ stack \in Seq(Requests) /\ Len(stack) \in {1, 2}
      /\ 1 \in 1..Len(stack) /\ Len(stack) \in 1..Len(stack)
      /\ Top.id \in Calls /\ Outer \in Requests /\ Outer.id \in Calls
      /\ calls[Top.id] = "asked" /\ calls[Outer.id] = "asked"
      /\ Len(stack) = 2 => /\ Outer = stack[2] /\ Outer.id # Top.id
                           /\ Outer.op = "tree" /\ Outer.stage = "callback" /\ Outer.got = <<>>
      /\ \A n \in 1..Len(stack) : stack[n] = Top \/ stack[n] = Outer
  BY <1>1, StackCases
<1>3. /\ \/ stack' = <<>> /\ Len(stack') = 0
         \/ /\ Len(stack) = 2 /\ stack' = <<Outer>> /\ Len(stack') = 1 /\ stack'[1] = Outer
            /\ \A n \in 1..Failing : stack[n].id # Outer.id
      /\ stack' \in Seq(Requests)
  <2>1. stack' = SubSeq(stack, Failing + 1, Len(stack)) /\ Failing \in {1, Len(stack)}
    BY DEF GiveUp, Failing
  <2>2. CASE Failing = Len(stack)
    <3>1. stack' = <<>>
      BY <1>2, <2>1, <2>2, SubSeqEmpty
    <3> QED  BY <3>1, EmptySeq
  <2>3. CASE Failing = 1 /\ Len(stack) = 2
    <3>1. stack' = SubSeq(stack, 2, 2) /\ 2 \in Int /\ 2..2 = {2} /\ stack[2] \in Requests
      BY <1>2, <2>1, <2>3
    <3>2. \A i \in 2..2 : stack[i] \in Requests
      BY <3>1
    <3>3. /\ stack' \in Seq(Requests) /\ Len(stack') = IF 2 <= 2 THEN 2 - 2 + 1 ELSE 0
          /\ \A i \in 1..(2 - 2 + 1) : stack'[i] = stack[2 + i - 1]
      BY <3>1, <3>2, SubSeqProperties
    <3>4. Len(stack') = 1 /\ 1 \in 1..(2 - 2 + 1) /\ 2 + 1 - 1 = 2
      BY <3>3
    <3>5. stack'[1] = Outer
      BY <1>2, <2>3, <3>3, <3>4
    <3>6. stack' = <<Outer>>
      <4>1. /\ <<Outer>> \in Seq(Requests) /\ Len(<<Outer>>) = 1 /\ <<Outer>>[1] = Outer
            /\ 1..1 = {1}
        BY <1>2
      <4> QED  BY <3>3, <3>4, <3>5, <4>1, SeqEqual
    <3>7. \A n \in 1..Failing : stack[n].id # Outer.id
      BY <1>2, <2>3 DEF Top
    <3> QED  BY <2>3, <3>3, <3>4, <3>5, <3>6, <3>7
  <2> QED  BY <1>2, <2>1, <2>2, <2>3
<1>4. /\ \A i \in Calls : calls'[i] \in {calls[i], "failed"}
      /\ Len(stack') = 1 => calls'[Outer.id] = calls[Outer.id]
      /\ \A i \in Calls : calls'[i] # calls[i] => calls[i] = "asked"
      /\ calls' \in [Calls -> {"new", "asked", "answered", "failed", "mistaken"}]
  <2>1. calls' = [i \in Calls |->
                    IF \E n \in 1..Failing : stack[n].id = i THEN "failed" ELSE calls[i]]
    BY DEF GiveUp
  <2>2. \A n \in 1..Failing : calls[stack[n].id] = "asked"
    <3>1. \A n \in 1..Failing : n \in 1..Len(stack)
      BY <1>2 DEF Failing
    <3> QED  BY <1>1, <3>1 DEF Nesting
  <2>3. Len(stack') = 1 => \A n \in 1..Failing : stack[n].id # Outer.id
    BY <1>3
  <2> QED  BY <1>1, <1>2, <2>1, <2>2, <2>3 DEF TransportTypeOK
<1>5. \A d \in Links :
          /\ link'[d].up = link[d].up /\ link'[d].down = link[d].down
          /\ link'[d].client = IF d = sock THEN "closed" ELSE link[d].client
          /\ link'[d].server = link[d].server
          /\ d # sock => link'[d] = link[d]
  <2>1. CASE sock = 0 /\ link' = link
    <3>1. \A d \in Links : d # sock
      BY <2>1, TransportAssumption DEF TransportAssumption
    <3> QED  BY <2>1, <3>1
  <2>2. CASE sock # 0 /\ link' = [link EXCEPT ![sock].client = "closed"]
    BY <1>1, <2>2, LinkFacts DEF TransportTypeOK, Sockets
  <2> QED  BY <2>1, <2>2
<1>6. TransportTypeOK'
  <2>1. link' \in [Links -> Sockets]
    <3>1. CASE sock = 0
      BY <1>1, <3>1 DEF TransportTypeOK
    <3>2. CASE sock # 0
      <4>1. sock \in Links
        BY <1>1, <3>2 DEF TransportTypeOK
      <4>2. [link[sock] EXCEPT !.client = "closed"] \in Sockets
        BY <1>1, <4>1, LinkFacts DEF Sockets
      <4>3. link' = [link EXCEPT ![sock] = [link[sock] EXCEPT !.client = "closed"]]
        BY <3>2
      <4> QED  BY <1>1, <4>2, <4>3 DEF TransportTypeOK
    <3> QED  BY <3>1, <3>2
  <2> QED  BY <1>1, <1>3, <1>4, <1>5, <2>1 DEF TransportTypeOK
<1>7. Nesting'
  <2>1. CASE stack' = <<>> /\ Len(stack') = 0
    BY <2>1 DEF Nesting
  <2>2. CASE Len(stack) = 2 /\ Len(stack') = 1 /\ stack'[1] = Outer
    <3>1. 1..Len(stack') = {1} /\ Len(stack') <= 2 /\ Len(stack') # 2
      BY <2>2
    <3> QED  BY <1>2, <1>4, <2>2, <3>1 DEF Nesting, Top
  <2> QED  BY <1>3, <2>1, <2>2
<1>8. stack' # <<>> => /\ Len(stack) = 2 /\ stack'[1] = Outer /\ Len(stack') = 1
                       /\ Outer.stage = "callback"
  BY <1>2, <1>3
<1>9. Sending' /\ ~Talking'
  BY <1>8 DEF Sending, Talking, Top
<1>10. Connected'
  <2>1. (stack # <<>> \/ sock # 0 => link[1].client # "none")'
    <3>1. link[1].client # "none" /\ 1 \in Links
      BY <1>1, TransportAssumption DEF Connected, TransportAssumption
    <3> QED  BY <1>5, <3>1
  <2>2. ASSUME NEW d \in Links
        PROVE  /\ link'[d].client = "open" <=> d = sock'
               /\ link'[d].client = "none" => link'[d] = NoLink
               /\ link'[d].server \in {"none", "backlog"} => io'[d] = Idle /\ link'[d].down = <<>>
               /\ link'[d].server = "none" => link'[d].client = "none"
    <3>1. /\ link[d].client = "open" <=> d = sock
          /\ link[d].client = "none" => link[d] = NoLink
          /\ link[d].server \in {"none", "backlog"} => io[d] = Idle /\ link[d].down = <<>>
          /\ link[d].server = "none" => link[d].client = "none"
      BY <1>1 DEF Connected
    <3>2. d # 0
      BY TransportAssumption DEF TransportAssumption
    <3>3. CASE d = sock
      BY <1>5, <3>1, <3>2, <3>3
    <3>4. CASE d # sock
      BY <1>5, <3>1, <3>2, <3>4
    <3> QED  BY <3>3, <3>4
  <2> QED  BY <1>9, <2>1, <2>2 DEF Connected
<1>11. \A d \in Links : (Live(d)' <=> Live(d)) /\ Reading(d)' = Reading(d)
  BY <1>5 DEF Live, Reading
<1>12. Upstream'
  <2>1. ASSUME NEW d \in Links PROVE Heads(d)' = Heads(d) /\ Load(d)' <= Load(d)
    <3>1. Heads(d)' = Heads(d)
      BY <1>5, <1>11 DEF Heads
    <3>2. Unsent(d)' = <<>>
      BY <1>9 DEF Unsent, Talking
    <3>3. Load(d)' = 0 + Len(link[d].up) + Len(Reading(d))
      BY <1>5, <1>11, <3>2, Nothing0 DEF Load
    <3>4. /\ Load(d) = Len(Unsent(d)) + Len(link[d].up) + Len(Reading(d))
          /\ Len(Unsent(d)) \in Nat /\ Len(link[d].up) \in Nat /\ Len(Reading(d)) \in Nat
      BY <1>1, LinkFacts, LoadFacts DEF Load
    <3> QED  BY <3>1, <3>3, <3>4
  <2>2. ASSUME NEW d \in Links, NEW p \in Heads(d)'
        PROVE  Awaited(p)' /\ Placed(d, p)' /\ Load(d)' <= p.size + 1
    <3>1. p \in Heads(d) /\ Awaited(p) /\ Placed(d, p) /\ Load(d) <= p.size + 1
      BY <1>1, <2>1, <2>2 DEF Upstream
    <3>2. p.id \in Calls /\ p.size \in Nat
      <4>1. p \in Pieces
        BY <1>1, <3>1, LinkFacts, LoadFacts, Nothing0 DEF Heads
      <4> QED  BY <4>1 DEF Pieces
    <3>3. Awaited(p)'
      BY <1>4, <3>1, <3>2 DEF Awaited
    <3>4. d # sock'
      BY TransportAssumption DEF TransportAssumption
    <3>5. \A n \in 1..Len(stack') : stack'[n].id # p.id
      <4>1. ASSUME Len(stack) = 2 PROVE Outer.id # p.id
        <5>1. CASE d = sock
          <6>1. p = Request(Top)
            BY <3>1, <5>1 DEF Placed
          <6> QED  BY <1>2, <4>1, <6>1 DEF Request
        <5>2. CASE d # sock
          <6>1. 2 \in 1..Len(stack)
            BY <4>1
          <6> QED  BY <1>2, <3>1, <4>1, <5>2, <6>1 DEF Placed
        <5> QED  BY <5>1, <5>2
      <4>2. CASE stack' = <<>> /\ Len(stack') = 0
        BY <4>2
      <4>3. CASE Len(stack) = 2 /\ Len(stack') = 1 /\ stack'[1] = Outer
        BY <4>1, <4>3
      <4> QED  BY <1>3, <4>2, <4>3
    <3>6. Placed(d, p)'
      BY <3>4, <3>5 DEF Placed
    <3>7. Load(d)' <= p.size + 1
      <4>1. Load(d) \in Nat /\ Load(d)' \in Nat
        BY <1>1, <1>6, LoadFacts, LoadsLater
      <4> QED  BY <2>1, <3>1, <3>2, <4>1
    <3> QED  BY <3>3, <3>6, <3>7
  <2>3. \A d \in Links : Heads(d)' \subseteq Heads(d)
    BY <2>1
  <2> QED  BY <1>1, <2>2, <2>3, UpstreamKept
<1>13. Ready'
  BY <1>1 DEF Ready
<1>14. Drawing'
  <2>1. 1 \in Links /\ sock' # 1
    BY TransportAssumption DEF TransportAssumption
  <2>2. drawing.link # 0 => calls'[drawing.call] \in {"asked", "failed"}
    BY <1>1, <1>4 DEF Drawing
  <2> QED  BY <1>1, <1>5, <2>1, <2>2 DEF Drawing
<1>15. CalledBack' /\ Downstream'
  BY DEF CalledBack, Downstream
<1>16. Unserved'
  BY <1>1, <1>4 DEF Unserved
<1> QED
  BY <1>6, <1>7, <1>9, <1>10, <1>12, <1>13, <1>14, <1>15, <1>16 DEF TransportInv

\* While a reply is on its way, no request is.
LEMMA NoHeads ==
    ASSUME TransportInv, sock # 0, stack # <<>>, Answered \/ Acknowledged
    PROVE  Heads(sock) = {}
<1> SUFFICES ASSUME NEW p \in Heads(sock) PROVE FALSE
  OBVIOUS
<1>1. sock \in Links /\ Live(sock) /\ Upstream
  BY DEF TransportInv, TransportTypeOK, Heads
<1>2. Awaited(p) /\ p = Request(Top)
  BY <1>1 DEF Upstream, Placed
<1>3. served[Top.id] = 0 /\ (drawing.link # 0 => Top.id # drawing.call)
  BY <1>2 DEF Awaited, Request
<1>4. ~Asked(Top)
  BY <1>1, <1>3 DEF Asked, Asks
<1> QED  BY <1>3, <1>4 DEF Answered, Answer, Acknowledged

\* What a piece is that fits the call.
LEMMA HeardPiece ==
    ASSUME TransportInv, stack # <<>>, Top.stage = "receive", sock # 0,
           link[sock].down # <<>>,
           NEW got, got = Append(Top.got, Head(link[sock].down)), Fits(Top, got[1])
    PROVE  /\ got \in Seq(Pieces) /\ got # <<>>
           /\ \/ \E p \in Pieces : /\ Answer(p, Top) /\ got[1] = p
                                   /\ Comes(got, Tail(link[sock].down), Pending, p)
              \/ /\ Acknowledged /\ got[1] = Reply(Top, 0) /\ Len(got) = 1
                 /\ \E p \in Pieces :
                       Follows(p) /\ Comes(<<>>, Tail(link[sock].down), Pending, p)
<1> DEFINE down == link[sock].down
<1>1. TransportTypeOK /\ Downstream /\ Nesting /\ sock \in Links
  BY DEF TransportInv, TransportTypeOK
<1>2. /\ down \in Seq(Pieces) /\ Pending \in Seq(Pieces) /\ Top.got \in Seq(Pieces)
      /\ Top \in Requests /\ Top.op \in Ops
  BY <1>1, LinkFacts, PendingFacts, StackCases
<1>3. /\ Tail(down) \in Seq(Pieces) /\ Len(Tail(down)) = Len(down) - 1
      /\ Range(Tail(down)) \subseteq Range(down) /\ Len(down) \in Nat /\ Len(down) # 0
      /\ down[1] \in Range(down) /\ down[1] \in Pieces /\ Head(down) = down[1]
  BY <1>2, Popped, Nothing0
<1>4. /\ got \in Seq(Pieces) /\ Len(got) = Len(Top.got) + 1 /\ got # <<>>
      /\ Range(got) = Range(Top.got) \cup {down[1]} /\ got[1] \in Range(got)
      /\ got[1] = IF Top.got = <<>> THEN down[1] ELSE Top.got[1]
      /\ Len(Top.got) \in Nat
  <2>1. /\ got \in Seq(Pieces) /\ Len(got) = Len(Top.got) + 1
        /\ Range(got) = Range(Top.got) \cup {down[1]}
        /\ got[1] = IF Top.got = <<>> THEN down[1] ELSE Top.got[1]
    BY <1>2, <1>3, Added
  <2>2. Len(Top.got) \in Nat
    BY <1>2, Nothing0
  <2>3. got # <<>> /\ got[1] \in Range(got)
    <3>1. Len(got) # 0
      BY <2>1, <2>2
    <3> QED  BY <2>1, <3>1, Nothing0
  <2> QED  BY <2>1, <2>2, <2>3
<1>5. Answered \/ Acknowledged
  BY <1>1 DEF Downstream, Silent
<1> HIDE DEF down
<1>6. CASE Answered
  <2>1. PICK p \in Pieces : Answer(p, Top) /\ Comes(Top.got, down, Pending, p)
    BY <1>6 DEF Answered, down
  <2>2. got[1] = p
    BY <1>3, <1>4, <2>1 DEF Comes
  <2>3. Comes(got, Tail(down), Pending, p)
    <3>1. Range(got) \cup Range(Tail(down)) \cup Range(Pending) \subseteq {p}
      BY <1>3, <1>4, <2>1 DEF Comes
    <3>2. Len(got) + Len(Tail(down)) + Len(Pending) = Len(Top.got) + Len(down) + Len(Pending)
      <4>1. Len(Pending) \in Nat
        BY <1>2, Nothing0
      <4> QED  BY <1>3, <1>4, <4>1
    <3> QED  BY <2>1, <3>1, <3>2 DEF Comes
  <2> QED  BY <1>4, <2>1, <2>2, <2>3 DEF down
<1>7. CASE Acknowledged
  <2>1. Top.got = <<>> /\ Top.op = "done" /\ Outer.op = "tree"
    BY <1>1, <1>7, StackCases DEF Acknowledged
  <2>2. Len(got) = 1 /\ got[1] = down[1]
    <3>1. Len(Top.got) = 0
      BY <2>1, Nothing0
    <3> QED  BY <1>4, <2>1, <3>1
  <2>3. PICK p \in Pieces : Follows(p) /\ Behind(down, p)
    BY <1>7 DEF Acknowledged, down
  <2>4. down[1] # p
    <3>1. \/ p.op = "tree" /\ p.size = 3
          \/ p.op = "ask"
      BY <2>1, <2>3, Sizes DEF Follows, Reply, Question
    <3>2. ~Fits(Top, p)
      BY <2>1, <3>1, Sizes DEF Fits
    <3> QED  BY <2>2, <3>2
  <2>5. ~Comes(<<>>, down, Pending, p)
    BY <1>3, <2>4 DEF Comes
  <2>6. down[1] = Reply(Top, 0) /\ Comes(<<>>, Tail(down), Pending, p)
    BY <2>3, <2>5 DEF Behind
  <2> QED  BY <1>4, <1>7, <2>2, <2>3, <2>6 DEF down
<1> QED  BY <1>5, <1>6, <1>7

\* The client takes a piece of a reply from the socket.
Taken ==
    /\ sock # 0 /\ link[sock].down # <<>> /\ Heads(sock) = {}
    /\ stack # <<>> /\ Top.stage = "receive"
    /\ link' = [link EXCEPT ![sock].down = Tail(@)]
    /\ UNCHANGED <<sock, io, drawing, served>>

\* What it keeps, whatever becomes of the call.
LEMMA ReadKept ==
    ASSUME TransportInv, Taken,
           stack' \in Seq(Requests), stack' # <<>> => Top'.stage # "send",
           \A m \in 1..Len(stack') : \E n \in 1..Len(stack) : stack'[m].id = stack[n].id,
           calls' \in [Calls -> {"new", "asked", "answered", "failed", "mistaken"}],
           \A i \in Calls : i # Top.id => calls'[i] = calls[i],
           calls'[Top.id] # "new"
    PROVE  /\ TransportTypeOK' /\ Sending' /\ Connected' /\ Upstream' /\ Ready' /\ Unserved'
           /\ (Live(1)' <=> Live(1)) /\ (Live(sock)' <=> Live(sock))
           /\ link'[sock].down = Tail(link[sock].down) /\ Pending' = Pending
           /\ \A d \in Links : link'[d].server = link[d].server
<1>1. /\ TransportTypeOK /\ Connected /\ Upstream /\ Ready /\ Unserved /\ Nesting
      /\ sock \in Links
  BY DEF TransportInv, TransportTypeOK, Taken
<1>0. /\ sock # 0 /\ link[sock].down # <<>> /\ Heads(sock) = {} /\ stack # <<>>
      /\ link' = [link EXCEPT ![sock].down = Tail(@)]
      /\ UNCHANGED <<sock, io, drawing, served>>
  BY DEF Taken
<1>2. 1 \in Links /\ 0 \notin Links
  BY <1>0, TransportAssumption DEF TransportAssumption
<1>3. /\ link[sock] \in Sockets /\ Tail(link[sock].down) \in Seq(Pieces)
      /\ Len(Tail(link[sock].down)) = Len(link[sock].down) - 1 /\ Len(link[sock].down) \in Nat
  BY <1>0, <1>1, LinkFacts, Popped
<1>4. \A d \in Links :
          /\ link'[d].up = link[d].up /\ link'[d].client = link[d].client
          /\ link'[d].down = IF d = sock THEN Tail(link[sock].down) ELSE link[d].down
          /\ link'[d].server = link[d].server
          /\ d # sock => link'[d] = link[d]
  BY <1>0, <1>1, <1>3 DEF TransportTypeOK, Sockets
<1>5. TransportTypeOK'
  <2>1. [link[sock] EXCEPT !.down = Tail(link[sock].down)] \in Sockets
    BY <1>0, <1>3 DEF Sockets
  <2>2. link' \in [Links -> Sockets]
    <3>1. link' = [link EXCEPT ![sock] = [link[sock] EXCEPT !.down = Tail(link[sock].down)]]
      BY <1>0
    <3> QED  BY <1>0, <1>1, <2>1, <3>1 DEF TransportTypeOK
  <2>3. \A d \in Links : Len(link'[d].up) <= Buffer /\ Len(link'[d].down) <= Buffer
    <3>1. /\ Buffer \in Nat
          /\ \A d \in Links : Len(link[d].up) <= Buffer /\ Len(link[d].down) <= Buffer
      BY <1>0, <1>1, TransportAssumption DEF TransportTypeOK, TransportAssumption
    <3>2. Len(Tail(link[sock].down)) <= Buffer
      BY <1>0, <1>1, <1>3, <3>1
    <3> QED  BY <1>0, <1>4, <3>1, <3>2
  <2> QED  BY <1>0, <1>1, <2>2, <2>3 DEF TransportTypeOK
<1>6. Sending'
  BY <1>0 DEF Sending
<1>7. Connected'
  <2>1. (Talking => sock # 0)' /\ (stack # <<>> \/ sock # 0 => link[1].client # "none")'
    BY <1>0, <1>1, <1>2, <1>4 DEF Connected
  <2>2. ASSUME NEW d \in Links
        PROVE  /\ link'[d].client = "open" <=> d = sock'
               /\ link'[d].client = "none" => link'[d] = NoLink
               /\ link'[d].server \in {"none", "backlog"} => io'[d] = Idle /\ link'[d].down = <<>>
               /\ link'[d].server = "none" => link'[d].client = "none"
    <3>1. /\ link[d].client = "open" <=> d = sock
          /\ link[d].client = "none" => link[d] = NoLink
          /\ link[d].server \in {"none", "backlog"} => io[d] = Idle /\ link[d].down = <<>>
          /\ link[d].server = "none" => link[d].client = "none"
      BY <1>0, <1>1 DEF Connected
    <3> QED  BY <1>0, <1>4, <3>1
  <2> QED  BY <1>0, <2>1, <2>2 DEF Connected
<1>8. \A d \in Links : (Live(d)' <=> Live(d)) /\ Reading(d)' = Reading(d)
  BY <1>0, <1>4 DEF Live, Reading
<1>9. Upstream'
  <2>1. \A d \in Links : Heads(d)' = Heads(d)
    BY <1>0, <1>4, <1>8 DEF Heads
  <2>2. ASSUME NEW d \in Links, NEW p \in Heads(d)'
        PROVE  Awaited(p)' /\ Placed(d, p)' /\ Load(d)' <= p.size + 1
    <3>1. p \in Heads(d) /\ Awaited(p) /\ Placed(d, p) /\ Load(d) <= p.size + 1
      BY <1>0, <1>1, <2>1, <2>2 DEF Upstream
    <3>2. d # sock
      BY <1>0, <3>1
    <3>3. \A n \in 1..Len(stack) : stack[n].id # p.id
      BY <1>0, <3>1, <3>2 DEF Placed
    <3>4. Placed(d, p)'
      BY <1>0, <3>2, <3>3 DEF Placed
    <3>5. p.id \in Calls /\ p.id # Top.id
      <4>1. p \in Pieces
        BY <1>0, <1>1, <3>1, LinkFacts, LoadFacts, Nothing0 DEF Heads
      <4>2. 1 \in 1..Len(stack)
        BY <1>0, <1>1, StackCases
      <4> QED  BY <1>0, <3>3, <4>1, <4>2 DEF Pieces, Top
    <3>6. Awaited(p)'
      BY <1>0, <3>1, <3>5 DEF Awaited
    <3>7. Load(d)' = Load(d)
      <4>1. Unsent(d)' = <<>> /\ Unsent(d) = <<>>
        BY <1>0, <3>2 DEF Unsent
      <4> QED  BY <1>0, <1>4, <1>8, <4>1 DEF Load
    <3> QED  BY <1>0, <3>1, <3>4, <3>6, <3>7
  <2>3. \A d \in Links : Heads(d)' \subseteq Heads(d)
    BY <1>0, <2>1
  <2> QED  BY <1>0, <1>1, <2>2, <2>3, UpstreamKept
<1>10. Ready'
  BY <1>0, <1>1 DEF Ready
<1>11. Unserved'
  BY <1>0, <1>1 DEF Unserved
<1>12. Pending' = Pending /\ link'[sock].down = Tail(link[sock].down)
  BY <1>0, <1>1, <1>4 DEF Pending
<1> QED
  BY <1>0, <1>1, <1>2, <1>4, <1>5, <1>6, <1>7, <1>8, <1>9, <1>10, <1>11, <1>12

\* The innermost call changes, or returns.
LEMMA TopChanged ==
    ASSUME NEW s \in Seq(Requests), NEW e \in Requests, NEW t, t = [s EXCEPT ![1] = e],
           1 \in 1..Len(s)
    PROVE  /\ t \in Seq(Requests) /\ Len(t) = Len(s) /\ t # <<>> /\ t[1] = e
           /\ \A m \in 1..Len(s) : t[m] = IF m = 1 THEN e ELSE s[m]
<1>1. /\ t \in Seq(Requests) /\ Len(t) = Len(s)
      /\ \A m \in 1..Len(s) : t[m] = IF m = 1 THEN e ELSE s[m]
  BY ExceptSeq
<1>2. t # <<>>
  <2>1. Len(s) # 0
    BY StackFacts
  <2> QED  BY <1>1, <2>1, StackFacts
<1> QED  BY <1>1, <1>2

LEMMA TailOfStack ==
    ASSUME NEW s \in Seq(Requests), Len(s) \in {1, 2}
    PROVE  /\ Tail(s) \in Seq(Requests)
           /\ Len(s) = 1 => Tail(s) = <<>> /\ Len(Tail(s)) = 0
           /\ Len(s) = 2 => Len(Tail(s)) = 1 /\ Tail(s)[1] = s[2] /\ Tail(s) # <<>>
                          /\ 1 \in 1..Len(Tail(s))
<1>1. s # <<>>
  BY StackFacts
<1>2. /\ Tail(s) \in Seq(Requests) /\ Len(Tail(s)) = Len(s) - 1
      /\ \A i \in 1..Len(Tail(s)) : Tail(s)[i] = s[i + 1]
  BY <1>1, HeadTailProperties
<1>3. ASSUME Len(s) = 1 PROVE Tail(s) = <<>> /\ Len(Tail(s)) = 0
  <2>1. Len(Tail(s)) = 0
    BY <1>2, <1>3
  <2> QED  BY <1>2, <2>1, StackFacts
<1>4. ASSUME Len(s) = 2
      PROVE  /\ Len(Tail(s)) = 1 /\ Tail(s)[1] = s[2] /\ Tail(s) # <<>>
             /\ 1 \in 1..Len(Tail(s))
  <2>1. Len(Tail(s)) = 1 /\ 1 \in 1..Len(Tail(s)) /\ 1 + 1 = 2
    BY <1>2, <1>4
  <2>2. Tail(s)[1] = s[1 + 1]
    BY <1>2, <2>1
  <2>3. Tail(s) # <<>>
    BY <1>2, <2>1, StackFacts
  <2> QED  BY <2>1, <2>2, <2>3
<1> QED  BY <1>2, <1>3, <1>4

\* A stack of one call, and none.
LEMMA NestingOne ==
    ASSUME Len(stack') \in {0, 1},
           Len(stack') = 1 =>
              /\ Top'.op \in {"plain", "tree"} /\ calls'[Top'.id] = "asked"
              /\ Top'.stage = "callback" => Top'.op = "tree" /\ Top'.got = <<>>
    PROVE  Nesting'
<1>1. CASE Len(stack') = 0
  BY <1>1 DEF Nesting
<1>2. CASE Len(stack') = 1
  <2>1. Len(stack') <= 2 /\ Len(stack') # 2 /\ \A n \in 1..Len(stack') : n = 1
    BY <1>2
  <2> QED  BY <1>2, <2>1 DEF Nesting, Top
<1> QED  BY <1>1, <1>2

\* Nothing follows the reply.
Over == Tail(link[sock].down) = <<>> /\ Pending = <<>>

\* A piece that is not the last of its reply.
LEMMA PartialStep ==
    ASSUME TransportInv, Taken, calls' = calls,
           NEW got \in Seq(Pieces), stack' = [stack EXCEPT ![1].got = got],
           NEW p \in Pieces, Answer(p, Top), Comes(got, Tail(link[sock].down), Pending, p),
           Len(got) <= p.size
    PROVE  TransportInv'
<1> DEFINE next == [Top EXCEPT !.got = got]
<1>0. /\ sock # 0 /\ stack # <<>> /\ Top.stage = "receive" /\ Heads(sock) = {}
      /\ UNCHANGED <<sock, io, drawing, served>>
  BY DEF Taken
<1>1. TransportTypeOK /\ Nesting /\ Drawing /\ CalledBack
  BY <1>0 DEF TransportInv
<1>2. /\ stack \in Seq(Requests) /\ Len(stack) \in {1, 2}
      /\ 1 \in 1..Len(stack) /\ Len(stack) \in 1..Len(stack)
      /\ Top \in Requests /\ Top.id \in Calls /\ calls[Top.id] = "asked"
      /\ Len(stack) = 1 => Outer = Top
      /\ Len(stack) = 2 => Outer = stack[2]
  BY <1>0, <1>1, StackCases
<1>3. stack' = [stack EXCEPT ![1] = next]
  BY <1>0, <1>2 DEF Top
<1>4. /\ next \in Requests /\ next.id = Top.id /\ next.op = Top.op /\ next.stage = "receive"
      /\ next.got = got
  BY <1>0, <1>2 DEF Requests
<1> HIDE DEF next
<1>5. /\ stack' \in Seq(Requests) /\ Len(stack') = Len(stack) /\ stack' # <<>>
      /\ Top' = next /\ stack'[1] = next
      /\ \A m \in 1..Len(stack) : m # 1 => stack'[m] = stack[m]
      /\ Len(stack) = 1 => Outer' = next
      /\ Len(stack) = 2 => Outer' = Outer
  <2>1. /\ stack' \in Seq(Requests) /\ Len(stack') = Len(stack)
        /\ \A m \in 1..Len(stack) : stack'[m] = IF m = 1 THEN next ELSE stack[m]
    BY <1>2, <1>3, <1>4, TopChanged
  <2>2. stack' # <<>>
    BY <1>2, <1>3, <1>4, TopChanged
  <2>3. stack'[1] = next /\ (Len(stack) = 2 => stack'[2] = stack[2])
    <3>1. Len(stack) = 2 => 2 \in 1..Len(stack)
      BY <1>0, <1>2
    <3> QED  BY <1>0, <1>2, <2>1, <3>1
  <2> QED  BY <1>0, <1>2, <2>1, <2>2, <2>3 DEF Top, Outer
<1>6. \A m \in 1..Len(stack) :
          /\ stack'[m].id = stack[m].id /\ stack'[m].op = stack[m].op
          /\ stack'[m].stage = "callback" => stack'[m].got = stack[m].got
          /\ stack'[m].stage = stack[m].stage
  <2> SUFFICES ASSUME NEW m \in 1..Len(stack)
               PROVE  /\ stack'[m].id = stack[m].id /\ stack'[m].op = stack[m].op
                      /\ stack'[m].stage = "callback" => stack'[m].got = stack[m].got
                      /\ stack'[m].stage = stack[m].stage
    OBVIOUS
  <2>1. CASE m = 1
    BY <1>0, <1>4, <1>5, <2>1 DEF Top
  <2>2. CASE m # 1
    BY <1>0, <1>5, <2>2
  <2> QED  BY <1>0, <2>1, <2>2
<1>7. /\ TransportTypeOK' /\ Sending' /\ Connected' /\ Upstream' /\ Ready' /\ Unserved'
      /\ (Live(1)' <=> Live(1)) /\ (Live(sock)' <=> Live(sock))
      /\ link'[sock].down = Tail(link[sock].down) /\ Pending' = Pending
      /\ \A d \in Links : link'[d].server = link[d].server
  <2>1. \A m \in 1..Len(stack') : \E n \in 1..Len(stack) : stack'[m].id = stack[n].id
    BY <1>0, <1>5, <1>6
  <2>2. /\ calls' \in [Calls -> {"new", "asked", "answered", "failed", "mistaken"}]
        /\ calls'[Top.id] # "new"
    BY <1>0, <1>1, <1>2 DEF TransportTypeOK
  <2>3. Top'.stage # "send"
    BY <1>0, <1>4, <1>5
  <2> QED  BY <1>0, <1>5, <2>1, <2>2, <2>3, ReadKept
<1>8. Nesting'
  <2>1. Len(stack') <= 2 /\ (Len(stack) = 1 => Top'.op \in {"plain", "tree"})
    BY <1>0, <1>1, <1>2, <1>4, <1>5 DEF Nesting
  <2>2. Len(stack) = 2 => /\ Outer'.stage = "callback" /\ Outer'.id # Top'.id
                          /\ Top'.op \in {"plain", "vdi", "done"}
    BY <1>0, <1>1, <1>4, <1>5 DEF Nesting
  <2>3. \A m \in 1..Len(stack) :
            /\ calls[stack'[m].id] = "asked"
            /\ stack'[m].stage = "callback" => stack'[m].op = "tree" /\ stack'[m].got = <<>>
    BY <1>0, <1>1, <1>6 DEF Nesting
  <2> QED  BY <1>0, <1>5, <2>1, <2>2, <2>3 DEF Nesting
<1>9. Outer'.id = Outer.id /\ Outer'.op = Outer.op /\ Outer'.stage = Outer.stage
  BY <1>0, <1>2, <1>4, <1>5
<1>10. Drawing'
  BY <1>0, <1>1, <1>5, <1>7, <1>9, TransportAssumption DEF Drawing, TransportAssumption
<1>11. CalledBack'
  <2> SUFFICES ASSUME Outer'.stage = "callback", sock = 1, Live(1)', ~ResultServed'
               PROVE  Asks(Outer)'
    BY <1>0 DEF CalledBack
  <2>1. ~ResultServed
    BY <1>0, <1>4, <1>5 DEF ResultServed
  <2>2. Asks(Outer)
    BY <1>0, <1>1, <1>7, <1>9, <2>1 DEF CalledBack
  <2> QED  BY <1>0, <1>9, <2>2 DEF Asks
<1>12. Downstream'
  <2>1. Asked(Top)' <=> Asked(Top)
    BY <1>0, <1>4, <1>5, <1>7 DEF Asked, Asks
  <2>2. Answer(p, Top)'
    BY <1>0, <1>4, <1>5, <2>1 DEF Answer, Reply, Question
  <2>3. Comes(got, link'[sock].down, Pending', p)
    BY <1>0, <1>7
  <2>4. Answered'
    BY <1>0, <1>4, <1>5, <2>2, <2>3 DEF Answered, Comes
  <2>5. Top'.stage = "receive"
    BY <1>0, <1>4, <1>5
  <2> QED  BY <1>0, <1>5, <2>4, <2>5 DEF Downstream
<1> QED
  BY <1>0, <1>7, <1>8, <1>10, <1>11, <1>12 DEF TransportInv

\* The server asks: the client is in its call-back.
Called == [Top EXCEPT !.stage = "callback", !.got = <<>>]

LEMMA AskedStep ==
    ASSUME TransportInv, Taken, calls' = calls,
           stack' = [stack EXCEPT ![1] = Called],
           Top.op = "tree", Asked(Top), Over
    PROVE  TransportInv'
<1>0. /\ sock # 0 /\ stack # <<>> /\ Top.stage = "receive" /\ Heads(sock) = {}
      /\ UNCHANGED <<sock, io, drawing, served>>
  BY DEF Taken
<1>1. TransportTypeOK /\ Nesting /\ Drawing /\ CalledBack
  BY <1>0 DEF TransportInv
<1>2. /\ stack \in Seq(Requests) /\ Len(stack) = 1 /\ 1..1 = {1} /\ 1 \in 1..Len(stack)
      /\ Top \in Requests /\ Top.id \in Calls /\ calls[Top.id] = "asked" /\ Outer = Top
  BY <1>0, <1>1, StackCases
<1>3. stack' = [stack EXCEPT ![1] = Called]
  OBVIOUS
<1>4. /\ Called \in Requests /\ Called.id = Top.id /\ Called.op = "tree"
      /\ Called.stage = "callback" /\ Called.got = <<>>
  BY <1>0, <1>2, Nothing0 DEF Requests, Called
<1>5. /\ stack' \in Seq(Requests) /\ Len(stack') = 1 /\ stack' # <<>>
      /\ Top' = Called /\ stack'[1] = Called /\ Outer' = Called
  <2>1. /\ stack' \in Seq(Requests) /\ Len(stack') = Len(stack)
        /\ stack' # <<>> /\ stack'[1] = Called
    <3>1. stack \in Seq(Requests) /\ Called \in Requests /\ 1 \in 1..Len(stack)
      BY <1>2, <1>4
    <3> QED  BY <1>3, <3>1, TopChanged
  <2> QED  BY <1>2, <2>1 DEF Top, Outer
<1>6. /\ TransportTypeOK' /\ Sending' /\ Connected' /\ Upstream' /\ Ready' /\ Unserved'
      /\ (Live(1)' <=> Live(1)) /\ (Live(sock)' <=> Live(sock))
      /\ link'[sock].down = Tail(link[sock].down) /\ Pending' = Pending
      /\ \A d \in Links : link'[d].server = link[d].server
  <2>1. \A m \in 1..Len(stack') : \E n \in 1..Len(stack) : stack'[m].id = stack[n].id
    BY <1>0, <1>2, <1>4, <1>5 DEF Top
  <2>2. /\ calls' \in [Calls -> {"new", "asked", "answered", "failed", "mistaken"}]
        /\ calls'[Top.id] # "new"
    BY <1>0, <1>1, <1>2 DEF TransportTypeOK
  <2>3. Top'.stage # "send"
    BY <1>0, <1>4, <1>5
  <2> QED  BY <1>0, <1>5, <2>1, <2>2, <2>3, ReadKept
<1>7. Nesting'
  BY <1>0, <1>2, <1>4, <1>5, NestingOne
<1>8. Drawing'
  BY <1>0, <1>1, <1>2, <1>4, <1>5, <1>6, TransportAssumption DEF Drawing, TransportAssumption
<1>9. CalledBack'
  <2>1. sock = 1 /\ Live(1)' => Asks(Top)
    BY <1>0, <1>6 DEF Asked
  <2> QED  BY <1>0, <1>4, <1>5, <2>1 DEF CalledBack, Asks
<1>10. Downstream'
  BY <1>0, <1>4, <1>5, <1>6 DEF Downstream, Silent, Over
<1> QED
  BY <1>0, <1>6, <1>7, <1>8, <1>9, <1>10 DEF TransportInv

\* A reply that is not the acknowledgement of a call-back's result.
LEMMA AnsweredStep ==
    ASSUME TransportInv, Taken,
           stack' = Tail(stack), calls' = [calls EXCEPT ![Top.id] = "answered"],
           Top.op # "done", served[Top.id] = 1,
           Over
    PROVE  TransportInv'
<1>0. /\ sock # 0 /\ stack # <<>> /\ Top.stage = "receive" /\ Heads(sock) = {}
      /\ UNCHANGED <<sock, io, drawing, served>>
  BY DEF Taken
<1>1. TransportTypeOK /\ Nesting /\ Drawing /\ CalledBack
  BY <1>0 DEF TransportInv
<1>2. /\ stack \in Seq(Requests) /\ Len(stack) \in {1, 2} /\ 1..1 = {1}
      /\ Top \in Requests /\ Top.id \in Calls /\ calls[Top.id] = "asked"
      /\ Outer \in Requests /\ Outer.id \in Calls /\ calls[Outer.id] = "asked"
      /\ Len(stack) = 1 => Outer = Top
      /\ Len(stack) = 2 => /\ Outer = stack[2] /\ Outer.id # Top.id
                           /\ Outer.op = "tree" /\ Outer.stage = "callback" /\ Outer.got = <<>>
  BY <1>0, <1>1, StackCases
<1>3. /\ stack' \in Seq(Requests)
      /\ \/ Len(stack) = 1 /\ stack' = <<>> /\ Len(stack') = 0
         \/ /\ Len(stack) = 2 /\ Len(stack') = 1 /\ stack' # <<>>
            /\ stack'[1] = Outer /\ Top' = Outer /\ Outer' = Outer
  <2>1. /\ stack' \in Seq(Requests)
        /\ Len(stack) = 1 => stack' = <<>> /\ Len(stack') = 0
        /\ Len(stack) = 2 => Len(stack') = 1 /\ stack'[1] = stack[2] /\ stack' # <<>>
    BY <1>2, TailOfStack
  <2> QED  BY <1>2, <2>1 DEF Top, Outer
<1>4. /\ calls' \in [Calls -> {"new", "asked", "answered", "failed", "mistaken"}]
      /\ \A i \in Calls : i # Top.id => calls'[i] = calls[i]
      /\ calls'[Top.id] = "answered"
  BY <1>0, <1>1, <1>2 DEF TransportTypeOK
<1>5. /\ TransportTypeOK' /\ Sending' /\ Connected' /\ Upstream' /\ Ready' /\ Unserved'
      /\ (Live(1)' <=> Live(1)) /\ (Live(sock)' <=> Live(sock))
      /\ link'[sock].down = Tail(link[sock].down) /\ Pending' = Pending
      /\ \A d \in Links : link'[d].server = link[d].server
  <2>1. \A m \in 1..Len(stack') : \E n \in 1..Len(stack) : stack'[m].id = stack[n].id
    <3>1. CASE Len(stack') = 0
      BY <1>0, <3>1
    <3>2. CASE Len(stack) = 2 /\ Len(stack') = 1 /\ stack'[1] = Outer
      <4>1. 2 \in 1..Len(stack) /\ \A m \in 1..Len(stack') : m = 1
        BY <1>0, <1>2, <3>2
      <4> QED  BY <1>0, <1>2, <3>2, <4>1
    <3> QED  BY <1>0, <1>3, <3>1, <3>2
  <2>2. stack' # <<>> => Top'.stage # "send"
    BY <1>0, <1>2, <1>3
  <2>3. calls'[Top.id] # "new"
    BY <1>0, <1>4
  <2> QED  BY <1>0, <1>3, <1>4, <2>1, <2>2, <2>3, ReadKept
<1>6. Nesting'
  BY <1>2, <1>3, <1>4, NestingOne
<1>7. Drawing'
  <2>1. ASSUME drawing.link # 0
        PROVE  /\ drawing.call # Top.id
               /\ sock = 1 => stack' # <<>> /\ Outer' = Outer
    <3>1. /\ served[drawing.call] = 0
          /\ sock = 1 => Outer.id = drawing.call
      BY <1>0, <1>1, <2>1 DEF Drawing
    <3> QED  BY <1>0, <1>2, <1>3, <3>1
  <2>2. drawing.link # 0 => calls'[drawing.call] = calls[drawing.call]
    BY <1>0, <1>1, <1>4, <2>1 DEF Drawing
  <2> QED  BY <1>0, <1>1, <1>5, <2>1, <2>2, TransportAssumption DEF Drawing, TransportAssumption
<1>8. CalledBack'
  <2> SUFFICES ASSUME stack' # <<>>, Outer'.stage = "callback", sock = 1, Live(1)'
               PROVE  Asks(Outer)'
    BY <1>0 DEF CalledBack
  <2>1. Outer' = Outer /\ Outer.stage = "callback" /\ ~ResultServed
    BY <1>0, <1>2, <1>3 DEF ResultServed
  <2>2. Asks(Outer)
    BY <1>0, <1>1, <1>5, <2>1 DEF CalledBack
  <2> QED  BY <1>0, <2>1, <2>2 DEF Asks
<1>9. Downstream'
  BY <1>0, <1>2, <1>3, <1>5 DEF Downstream, Silent, Over
<1> QED
  BY <1>0, <1>5, <1>6, <1>7, <1>8, <1>9 DEF TransportInv

\* The acknowledgement: the client waits for the reply of its own call again.
Resumed == [Outer EXCEPT !.stage = "receive"]

\* The stack when only the resumed call is left.
LEMMA ResumedStack ==
    ASSUME stack \in Seq(Requests), Len(stack) = 2, Resumed \in Requests,
           stack' = [Tail(stack) EXCEPT ![1] = Resumed]
    PROVE  /\ stack' \in Seq(Requests) /\ Len(stack') = 1 /\ stack' # <<>>
           /\ stack'[1] = Resumed
<1>1. Tail(stack) \in Seq(Requests) /\ Len(Tail(stack)) = 1 /\ 1 \in 1..Len(Tail(stack))
  BY TailOfStack
<1>2. /\ stack' \in Seq(Requests) /\ Len(stack') = Len(Tail(stack)) /\ stack' # <<>>
      /\ stack'[1] = Resumed
  BY <1>1, TopChanged
<1> QED  BY <1>1, <1>2

\* It goes on to wait for its answer, which may follow at once.
LEMMA DoneStep ==
    ASSUME TransportInv, Taken,
           stack' = [Tail(stack) EXCEPT ![1] = Resumed],
           calls' = [calls EXCEPT ![Top.id] = "answered"],
           Top.op = "done", served[Top.id] = 1,
           \/ Over
           \/ \E p \in Pieces :
                 Follows(p) /\ Comes(<<>>, Tail(link[sock].down), Pending, p)
    PROVE  TransportInv'
<1>0. /\ sock # 0 /\ stack # <<>> /\ Top.stage = "receive" /\ Heads(sock) = {}
      /\ UNCHANGED <<sock, io, drawing, served>>
  BY DEF Taken
<1>1. TransportTypeOK /\ Nesting /\ Drawing
  BY <1>0 DEF TransportInv
<1>2. /\ stack \in Seq(Requests) /\ Len(stack) = 2 /\ 1..1 = {1}
      /\ Top \in Requests /\ Top.id \in Calls /\ calls[Top.id] = "asked"
      /\ Outer \in Requests /\ Outer.id \in Calls /\ calls[Outer.id] = "asked"
      /\ Outer = stack[2] /\ Outer.id # Top.id
      /\ Outer.op = "tree" /\ Outer.stage = "callback" /\ Outer.got = <<>>
  BY <1>0, <1>1, StackCases
<1>3. /\ Tail(stack) \in Seq(Requests) /\ Len(Tail(stack)) = 1 /\ Tail(stack)[1] = Outer
      /\ 1 \in 1..Len(Tail(stack))
  BY <1>2, TailOfStack
<1>4. stack' = [Tail(stack) EXCEPT ![1] = Resumed]
  OBVIOUS
<1>5. /\ Resumed \in Requests /\ Resumed.id = Outer.id /\ Resumed.op = "tree"
      /\ Resumed.stage = "receive" /\ Resumed.got = <<>>
  BY <1>0, <1>2 DEF Requests, Resumed
<1>6. /\ stack' \in Seq(Requests) /\ Len(stack') = 1 /\ stack' # <<>>
      /\ Top' = Resumed /\ stack'[1] = Resumed /\ Outer' = Resumed
  <2>1. /\ stack' \in Seq(Requests) /\ Len(stack') = 1 /\ stack' # <<>> /\ stack'[1] = Resumed
    BY <1>2, <1>5, ResumedStack
  <2> QED  BY <1>0, <2>1 DEF Top, Outer
<1>7. /\ calls' \in [Calls -> {"new", "asked", "answered", "failed", "mistaken"}]
      /\ \A i \in Calls : i # Top.id => calls'[i] = calls[i]
      /\ calls'[Top.id] = "answered"
  BY <1>0, <1>1, <1>2 DEF TransportTypeOK
<1>8. /\ TransportTypeOK' /\ Sending' /\ Connected' /\ Upstream' /\ Ready' /\ Unserved'
      /\ (Live(1)' <=> Live(1)) /\ (Live(sock)' <=> Live(sock))
      /\ link'[sock].down = Tail(link[sock].down) /\ Pending' = Pending
      /\ \A d \in Links : link'[d].server = link[d].server
  <2>1. \A m \in 1..Len(stack') : \E n \in 1..Len(stack) : stack'[m].id = stack[n].id
    <3>1. 2 \in 1..Len(stack) /\ \A m \in 1..Len(stack') : m = 1
      BY <1>0, <1>2, <1>6
    <3> QED  BY <1>0, <1>2, <1>5, <1>6, <3>1
  <2>2. Top'.stage # "send" /\ calls'[Top.id] # "new"
    BY <1>0, <1>5, <1>6, <1>7
  <2> QED  BY <1>0, <1>6, <1>7, <2>1, <2>2, ReadKept
<1>9. Nesting'
  <2>1. calls'[Resumed.id] = "asked"
    BY <1>2, <1>5, <1>7
  <2> QED  BY <1>5, <1>6, <2>1, NestingOne
<1>10. Drawing'
  <2>1. ASSUME drawing.link # 0
        PROVE  /\ drawing.call # Top.id
               /\ sock = 1 => Outer.id = drawing.call
    BY <1>0, <1>1, <1>2, <2>1 DEF Drawing
  <2>2. drawing.link # 0 => calls'[drawing.call] = calls[drawing.call]
    BY <1>0, <1>1, <1>7, <2>1 DEF Drawing
  <2> QED
    BY <1>0, <1>1, <1>5, <1>6, <1>8, <2>1, <2>2, TransportAssumption DEF Drawing, TransportAssumption
<1>11. CalledBack'
  BY <1>0, <1>5, <1>6 DEF CalledBack
<1>12. Downstream'
  <2>1. CASE Over
    BY <1>0, <1>5, <1>6, <1>8, <2>1 DEF Downstream, Silent, Over
  <2>2. ASSUME NEW p \in Pieces, Follows(p), Comes(<<>>, Tail(link[sock].down), Pending, p)
        PROVE  Answered' /\ Top'.stage = "receive"
    <3>1. Asked(Outer) <=> Asked(Top)'
      BY <1>0, <1>5, <1>6, <1>8 DEF Asked, Asks
    <3>2. Answer(p, Top)'
      BY <1>0, <1>2, <1>5, <1>6, <2>2, <3>1 DEF Answer, Follows, Reply, Question
    <3>3. Comes(<<>>, link'[sock].down, Pending', p)
      BY <1>0, <1>8, <2>2
    <3>4. Len(<<>>) <= p.size
      BY Nothing0 DEF Pieces
    <3> QED  BY <1>0, <1>5, <1>6, <3>2, <3>3, <3>4 DEF Answered, Comes
  <2> QED  BY <1>0, <1>6, <2>1, <2>2 DEF Downstream
<1> QED
  BY <1>0, <1>8, <1>9, <1>10, <1>11, <1>12 DEF TransportInv

\* How ClientGot writes it.
LEMMA ResumedTop ==
    ASSUME TransportInv, stack # <<>>, Top.op = "done",
           stack' = [Tail(stack) EXCEPT ![1].stage = "receive"]
    PROVE  stack' = [Tail(stack) EXCEPT ![1] = Resumed]
<1>1. stack \in Seq(Requests) /\ Len(stack) = 2 /\ Outer = stack[2]
  BY StackCases DEF TransportInv
<1>2. Tail(stack)[1] = Outer
  BY <1>1, TailOfStack
<1> QED  BY <1>2 DEF Resumed

\* The call fails, waits on, or returns what the server answered to it.
Heard ==
    \/ GiveUp
    \/ calls' = calls
    \/ served[Top.id] = 1 /\ calls' = [calls EXCEPT ![Top.id] = "answered"]

LEMMA ClientReceiveStep ==
    ASSUME TransportInv, ClientReceive
    PROVE  TransportInv' /\ Heard
<1> DEFINE down == link[sock].down
           got  == Append(Top.got, Head(down))
<1>1. /\ stack # <<>> /\ Top.stage = "receive" /\ UNCHANGED <<io, drawing, served>>
      /\ IF down = <<>>
         THEN link[sock].server \in {"shut", "closed"} /\ Disconnected /\ GiveUp
         ELSE IF ~Fits(Top, got[1])
         THEN Disconnected /\ GiveUp
         ELSE /\ link' = [link EXCEPT ![sock].down = Tail(@)]
              /\ UNCHANGED sock
              /\ IF Len(got) < FrameLength(got[1])
                 THEN stack' = [stack EXCEPT ![1].got = got] /\ UNCHANGED calls
                 ELSE ClientGot(got)
  BY DEF ClientReceive
<1>2. Talking /\ sock # 0
  BY <1>1 DEF TransportInv, Connected, Talking
<1>3. CASE Disconnected /\ GiveUp
  BY <1>1, <1>2, <1>3, GiveUpStep DEF Disconnected, Heard
<1>4. CASE down # <<>> /\ Fits(Top, got[1])
  <2>1. /\ link' = [link EXCEPT ![sock].down = Tail(@)]
        /\ sock' = sock
        /\ IF Len(got) < FrameLength(got[1])
           THEN stack' = [stack EXCEPT ![1].got = got] /\ UNCHANGED calls
           ELSE ClientGot(got)
    BY <1>1, <1>4
  <2>2. Answered \/ Acknowledged
    BY <1>2, <1>4 DEF TransportInv, Downstream, Silent
  <2>3. Taken
    <3>1. Heads(sock) = {}
      BY <1>1, <1>2, <2>2, NoHeads
    <3> QED  BY <1>1, <1>2, <1>4, <2>1, <3>1 DEF Taken
  <2>4. /\ got \in Seq(Pieces) /\ got # <<>>
        /\ \/ \E p \in Pieces : /\ Answer(p, Top) /\ got[1] = p
                                /\ Comes(got, Tail(down), Pending, p)
           \/ /\ Acknowledged /\ got[1] = Reply(Top, 0) /\ Len(got) = 1
              /\ \E p \in Pieces : Follows(p) /\ Comes(<<>>, Tail(down), Pending, p)
    BY <1>1, <1>2, <1>4, HeardPiece
  <2>5. /\ stack \in Seq(Requests) /\ 1 \in 1..Len(stack) /\ Top.op \in Ops /\ Top.id \in Calls
        /\ Pending \in Seq(Pieces) /\ Tail(down) \in Seq(Pieces)
    BY <1>1, <1>2, <1>4, StackCases, PendingFacts, LinkFacts, Popped
       DEF TransportInv, TransportTypeOK
  <2> HIDE DEF got, down
  <2>6. ASSUME NEW p \in Pieces, Answer(p, Top), got[1] = p, Comes(got, Tail(down), Pending, p)
        PROVE  TransportInv' /\ Heard
    <3>1. p.size \in Nat /\ Len(got) \in Nat
      BY <2>4, Nothing0 DEF Pieces
    <3>2. FrameLength(got[1]) = p.size + 1
      BY <2>6 DEF FrameLength
    <3>3. CASE Len(got) < FrameLength(got[1])
      <4>1. stack' = [stack EXCEPT ![1].got = got] /\ calls' = calls
        BY <2>1, <3>3
      <4>2. Len(got) <= p.size
        BY <3>1, <3>2, <3>3
      <4> QED  BY <2>3, <2>4, <2>6, <4>1, <4>2, PartialStep DEF down, Heard
    <3>4. CASE ~(Len(got) < FrameLength(got[1]))
      <4>1. ClientGot(got)
        BY <2>1, <3>4
      <4>2. Over
        <5>1. /\ Len(got) + Len(Tail(down)) + Len(Pending) <= p.size + 1
              /\ Len(Tail(down)) \in Nat /\ Len(Pending) \in Nat
          BY <2>5, <2>6, Nothing0 DEF Comes
        <5>2. \A k, m, n, r \in Nat : ~(k < r + 1) /\ k + m + n <= r + 1 => m = 0 /\ n = 0
          OBVIOUS
        <5>3. ~(Len(got) < p.size + 1)
          BY <3>2, <3>4
        <5>4. Len(Tail(down)) = 0 /\ Len(Pending) = 0
          BY <3>1, <5>1, <5>2, <5>3
        <5> QED  BY <2>5, <5>4, Nothing0 DEF Over, down
      <4>3. CASE p.op = "ask"
        <5>1. Top.op = "tree" /\ Asked(Top)
          BY <2>5, <2>6, <4>3, Sizes DEF Answer, Reply
        <5>2. /\ stack' = [stack EXCEPT ![1].stage = "callback", ![1].got = <<>>]
              /\ calls' = calls
          BY <2>6, <4>1, <4>3 DEF ClientGot
        <5>3. stack' = [stack EXCEPT ![1] = Called]
          BY <2>5, <5>2 DEF Called, Top
        <5> QED  BY <2>3, <4>2, <5>1, <5>2, <5>3, AskedStep DEF Heard
      <4>4. CASE p.op # "ask"
        <5>1. served[Top.id] = 1 /\ p.id = Top.id
          BY <2>6, <4>4 DEF Answer, Reply, Question
        <5>2. /\ stack' = IF Top.op = "done"
                          THEN [Tail(stack) EXCEPT ![1].stage = "receive"]
                          ELSE Tail(stack)
              /\ calls' = [calls EXCEPT ![Top.id] = "answered"]
          BY <2>6, <4>1, <4>4, <5>1 DEF ClientGot
        <5>3. CASE Top.op = "done"
          BY <1>1, <2>3, <4>2, <5>1, <5>2, <5>3, ResumedTop, DoneStep DEF Heard
        <5>4. CASE Top.op # "done"
          BY <2>3, <4>2, <5>1, <5>2, <5>4, AnsweredStep DEF Heard
        <5> QED  BY <5>3, <5>4
      <4> QED  BY <4>3, <4>4
    <3> QED  BY <3>3, <3>4
  <2>7. ASSUME Acknowledged, got[1] = Reply(Top, 0), Len(got) = 1,
               \E p \in Pieces : Follows(p) /\ Comes(<<>>, Tail(down), Pending, p)
        PROVE  TransportInv' /\ Heard
    <3>1. Top.op = "done" /\ served[Top.id] = 1
      BY <2>7 DEF Acknowledged
    <3>2. FrameLength(got[1]) = 0 + 1 /\ got[1].op = "done" /\ got[1].id = Top.id
      BY <2>7, <3>1 DEF FrameLength, Reply
    <3>3. ClientGot(got)
      BY <2>1, <2>7, <3>2
    <3>4. /\ stack' = [Tail(stack) EXCEPT ![1].stage = "receive"]
          /\ calls' = [calls EXCEPT ![Top.id] = "answered"]
      BY <3>1, <3>2, <3>3 DEF ClientGot
    <3> QED  BY <1>1, <2>3, <2>7, <3>1, <3>4, ResumedTop, DoneStep DEF down, Heard
  <2> QED  BY <2>4, <2>6, <2>7
<1> QED  BY <1>1, <1>3, <1>4

\* A request is sent, or found to have nobody to go to.
LEMMA ClientSendStep ==
    ASSUME TransportInv, ClientSend
    PROVE  TransportInv'
<1>1. CASE link[sock].server \in {"shut", "closed"}
  <2>1. /\ stack # <<>> /\ Top.stage = "send" /\ Disconnected /\ GiveUp
        /\ UNCHANGED <<io, drawing, served>>
    BY <1>1 DEF ClientSend
  <2>2. Talking /\ sock # 0
    BY <2>1 DEF TransportInv, Connected, Talking
  <2> QED  BY <2>1, <2>2, GiveUpStep DEF Disconnected
<1>2. CASE link[sock].server \notin {"shut", "closed"}
  BY <1>2, SendPartStep
<1> QED  BY <1>1, <1>2

\* Calls begin, or find no server.
LEMMA CallStep ==
    ASSUME TransportInv, Call \/ CallInside \/ CallbackDone \/ CallbackLost
    PROVE  TransportInv'
<1> USE DEF Ops
<1>1. CASE Call
  BY <1>1, BeginStep DEF Call
<1>2. CASE CallInside
  BY <1>2, BeginStep DEF CallInside
<1>3. CASE CallbackDone
  BY <1>3, BeginStep DEF CallbackDone
<1>4. CASE CallbackLost
  BY <1>4, GiveUpStep DEF CallbackLost, InCallback
<1> QED  BY <1>1, <1>2, <1>3, <1>4

\* The main loop's exchanges and a call-back's.
LEMMA ExchangeStep ==
    ASSUME TransportInv, (\E c \in Links : Exchange(c)) \/ CallbackExchange
    PROVE  TransportInv'
<1>1. ASSUME NEW c \in Links, Exchange(c) PROVE TransportInv'
  <2>1. link[c].server = "open" /\ (Receive(c) \/ Send(c)) /\ drawing.link = 0 /\ c # 0
    BY <1>1, TransportAssumption DEF Exchange, Alone, TransportAssumption
  <2> QED  BY <2>1, ReceiveStep, SendStep
<1>2. ASSUME CallbackExchange PROVE TransportInv'
  <2> DEFINE c == drawing.link
  <2>1. drawing.asking /\ link[c].server = "open" /\ (Receive(c) \/ Send(c))
    BY <1>2 DEF CallbackExchange
  <2>2. c \in Links
    BY <2>1, TransportAssumption DEF TransportInv, Drawing, TransportAssumption
  <2>3. PICK d \in Links : d = c
    BY <2>2
  <2>4. link[d].server = "open" /\ (Receive(d) \/ Send(d)) /\ drawing.asking
    BY <2>1, <2>3
  <2> QED  BY <2>4, ReceiveStep, SendStep
<1> QED  BY <1>1, <1>2

-----------------------------------------------------------------------------
(* The invariant                                                              *)

\* Every step keeps it.
LEMMA TransportStep ==
    ASSUME TransportInv, TransportNext
    PROVE  TransportInv'
<1>1. CASE Call \/ CallInside \/ CallbackDone \/ CallbackLost
  BY <1>1, CallStep
<1>2. CASE ClientSend \/ ClientReceive
  BY <1>2, ClientSendStep, ClientReceiveStep
<1>3. CASE \E c \in Links : Accept(c) \/ Close(c) \/ Exchange(c) \/ HandleRequest(c)
  BY <1>3, AcceptStep, CloseStep, ExchangeStep, HandleRequestStep
<1>4. CASE AskUser \/ DrawnTree \/ CallbackExchange \/ CallbackServe \/ CallbackEnds
  BY <1>4, AskUserStep, DrawnTreeStep, ExchangeStep, CallbackServeStep, CallbackEndsStep
<1> QED  BY <1>1, <1>2, <1>3, <1>4 DEF TransportNext, ServerNext

\* It holds at the start.
LEMMA TransportStart == TransportInit => TransportInv
<1> SUFFICES ASSUME TransportInit PROVE TransportInv
  OBVIOUS
<1>1. /\ stack = <<>> /\ Len(stack) = 0 /\ sock = 0 /\ drawing = Nothing
      /\ stack \in Seq(Requests) /\ Idle \in Sessions /\ NoLink \in Sockets
      /\ \A c \in Links : link[c] = NoLink /\ io[c] = Idle
      /\ Range(<<>>) = {} /\ 0 \notin Links /\ Len(<<>>) = 0
  BY Nothing0, EmptySeq, TransportAssumption
     DEF TransportInit, Sessions, Sockets, Idle, NoLink, TransportAssumption
<1>2. TransportTypeOK
  <2>1. Nothing \in Drawings
    BY <1>1, TransportAssumption DEF Nothing, Drawings, TransportAssumption
  <2>2. \A c \in Links : Len(link[c].up) <= Buffer /\ Len(link[c].down) <= Buffer
    BY <1>1, TransportAssumption DEF NoLink, TransportAssumption
  <2> QED  BY <1>1, <2>1, <2>2 DEF TransportInit, TransportTypeOK
<1>3. Nesting /\ Sending /\ CalledBack /\ Downstream
  BY <1>1 DEF Nesting, Sending, CalledBack, Downstream
<1>4. Connected
  <2>1. NoLink.client = "none" /\ NoLink.server = "none" /\ NoLink.down = <<>>
    BY DEF NoLink
  <2>2. ~Talking
    BY <1>1 DEF Talking
  <2> QED  BY <1>1, <2>1, <2>2, Zenon DEF Connected
<1>5. Upstream
  BY <1>1 DEF Upstream, Heads, Live, NoLink
<1>6. Ready /\ Drawing /\ Unserved
  BY <1>1 DEF Ready, Drawing, Nothing, Idle, Unserved, TransportInit
<1> QED  BY <1>2, <1>3, <1>4, <1>5, <1>6 DEF TransportInv

\* And when nothing happens.
LEMMA TransportRests ==
    ASSUME TransportInv, UNCHANGED transportVars
    PROVE  TransportInv'
<1>1. UNCHANGED <<stack, sock, link, io, drawing, calls, served>>
  BY DEF transportVars
<1>2. /\ Top' = Top /\ Outer' = Outer /\ Pending' = Pending
      /\ \A c \in Links : Live(c)' = Live(c) /\ Reading(c)' = Reading(c) /\ Unsent(c)' = Unsent(c)
  BY <1>1 DEF Top, Outer, Pending, Live, Reading, Unsent
<1>3. /\ Talking' = Talking /\ ResultServed' = ResultServed
      /\ \A c \in Links : Heads(c)' = Heads(c) /\ Load(c)' = Load(c)
      /\ \A p : Awaited(p)' = Awaited(p)
      /\ Asks(Outer)' = Asks(Outer) /\ Asks(Top)' = Asks(Top)
  BY <1>1, <1>2 DEF Talking, ResultServed, Heads, Load, Awaited, Asks
<1>4. TransportTypeOK' /\ Nesting' /\ Sending' /\ Connected'
  <2>1. Request(Top)' = Request(Top)
    BY <1>2 DEF Request
  <2> QED
    BY <1>1, <1>2, <1>3, <2>1 DEF TransportInv, TransportTypeOK, Nesting, Sending, Connected
<1>5. Upstream'
  <2>1. \A c \in Links : \A p : Placed(c, p)' = Placed(c, p)
    BY <1>1, <1>2, <1>3 DEF Placed, Request
  <2> QED  BY <1>3, <2>1 DEF TransportInv, Upstream
<1>6. Ready' /\ Drawing' /\ CalledBack' /\ Unserved'
  BY <1>1, <1>2, <1>3, TransportAssumption
     DEF TransportInv, Ready, Drawing, CalledBack, Unserved, Live, TransportAssumption
<1>7. Downstream'
  <2>1. Live(sock)' = Live(sock)
    BY <1>1 DEF Live
  <2>2. \A p : Answer(p, Top)' = Answer(p, Top) /\ Follows(p)' = Follows(p)
    BY <1>1, <1>2, <1>3, <2>1 DEF Answer, Follows, Asked, Reply, Question
  <2>3. /\ Answered' = Answered /\ Acknowledged' = Acknowledged /\ Silent' = Silent
    BY <1>1, <1>2, <2>2 DEF Answered, Acknowledged, Silent, Behind, Reply
  <2> QED  BY <1>1, <1>2, <2>3 DEF TransportInv, Downstream
<1> QED  BY <1>4, <1>5, <1>6, <1>7 DEF TransportInv

\* Whatever comes in pieces, is lost or times out, every piece on its way has
\* the one call it belongs to (client.c:66-181, transport.c:50-160).
THEOREM TransportInvariant == TransportSpec => []TransportInv
<1>1. TransportInv /\ [TransportNext]_transportVars => TransportInv'
  BY TransportStep, TransportRests
<1> QED  BY <1>1, TransportStart, PTL DEF TransportSpec

\* No socket ever holds more than it can, and every frame is of a call.
THEOREM TransportTypes == TransportSpec => []TransportTypeOK
<1>1. TransportInv => TransportTypeOK
  BY DEF TransportInv
<1> QED  BY <1>1, TransportInvariant, PTL

-----------------------------------------------------------------------------
(* What the client sees is a remote call                                      *)

\* gem_rpc_disconnect() fails the calls that waited on the connection.
LEMMA GiveUpFails ==
    ASSUME TransportInv, stack # <<>>, GiveUp, UNCHANGED served
    PROVE  Remote!Next
<1> DEFINE S == {i \in Calls : \E n \in 1..Failing : stack[n].id = i}
<1>1. /\ Len(stack) \in {1, 2} /\ Top.id \in Calls /\ Failing \in {1, Len(stack)}
      /\ \A n \in 1..Len(stack) : calls[stack[n].id] = "asked"
  BY StackCases DEF TransportInv, Nesting, Failing
<1>2. 1 \in 1..Failing /\ 1..Failing \subseteq 1..Len(stack)
  BY <1>1
<1>3. S # {} /\ \A i \in S : calls[i] = "asked"
  BY <1>1, <1>2 DEF Top
<1>4. calls' = [i \in Calls |-> IF i \in S THEN "failed" ELSE calls[i]]
  BY DEF GiveUp
<1>5. Remote!Fail(S)
  BY <1>3, <1>4 DEF Remote!Fail
<1> QED  BY <1>5 DEF Remote!Next

\* A request that is carried out had not been.
LEMMA ServedOnce ==
    ASSUME TransportInv, NEW i \in Calls, served[i] = 0, calls[i] \in {"asked", "failed"},
           served' = [served EXCEPT ![i] = @ + 1], UNCHANGED calls
    PROVE  Remote!Next
<1>1. served' = [served EXCEPT ![i] = 1]
  <2>1. served[i] + 1 = 1
    OBVIOUS
  <2> QED  BY <2>1
<1>2. Remote!Serve(i)
  BY <1>1 DEF Remote!Serve
<1> QED  BY <1>2 DEF Remote!Next

\* A call that begins is new.
LEMMA BeginAsks ==
    ASSUME TransportInv, NEW op \in Ops, Begin(op)
    PROVE  Remote!Next
<1>1. PICK i \in Calls :
          /\ calls[i] = "new" /\ calls' = [calls EXCEPT ![i] = "asked"] /\ served' = served
  BY Begun
<1>2. Remote!Ask(i)
  BY <1>1 DEF Remote!Ask
<1> QED  BY <1>2 DEF Remote!Next

\* A step of the client.
LEMMA ClientIsRemote ==
    ASSUME TransportInv,
           \/ Call \/ CallInside \/ CallbackDone \/ CallbackLost
           \/ ClientSend \/ ClientReceive
    PROVE  Remote!Next \/ UNCHANGED <<calls, served>>
<1> USE DEF Ops
<1>1. CASE Call \/ CallInside \/ CallbackDone
  BY <1>1, BeginAsks DEF Call, CallInside, CallbackDone
<1>2. CASE CallbackLost
  BY <1>2, GiveUpFails DEF CallbackLost, InCallback
<1>3. CASE ClientSend
  <2>1. stack # <<>> /\ UNCHANGED served /\ (GiveUp \/ UNCHANGED calls)
    BY <1>3 DEF ClientSend
  <2> QED  BY <2>1, GiveUpFails
<1>4. CASE ClientReceive
  <2>1. stack # <<>> /\ UNCHANGED served /\ Heard
    <3>1. stack # <<>> /\ UNCHANGED served
      BY <1>4 DEF ClientReceive
    <3> QED  BY <1>4, <3>1, ClientReceiveStep
  <2>2. CASE served[Top.id] = 1 /\ calls' = [calls EXCEPT ![Top.id] = "answered"]
    <3>1. Top.id \in Calls /\ calls[Top.id] = "asked"
      BY <2>1, StackCases DEF TransportInv
    <3>2. Remote!Answer(Top.id)
      BY <2>1, <2>2, <3>1 DEF Remote!Answer
    <3> QED  BY <3>1, <3>2 DEF Remote!Next
  <2> QED  BY <2>1, <2>2, GiveUpFails DEF Heard
<1> QED  BY <1>1, <1>2, <1>3, <1>4

\* A step of the server.
LEMMA ServerIsRemote ==
    ASSUME TransportInv, ServerNext
    PROVE  Remote!Next \/ UNCHANGED <<calls, served>>
<1>1. ASSUME NEW c \in Links, Accept(c) \/ Close(c) \/ Exchange(c)
      PROVE  UNCHANGED <<calls, served>>
  BY <1>1 DEF Accept, Close, Exchange, Receive, Send
<1>2. ASSUME NEW c \in Links, HandleRequest(c)
      PROVE  Remote!Next \/ UNCHANGED <<calls, served>>
  <2> DEFINE i == io[c].got[1].id
  <2>1. /\ drawing.link # c /\ link[c].server = "open" /\ io[c].ready /\ calls' = calls
        /\ served' = served \/ served' = [served EXCEPT ![i] = @ + 1]
    BY <1>2, TransportAssumption DEF HandleRequest, Alone, TransportAssumption
  <2>2. i \in Calls /\ served[i] = 0 /\ calls[i] \in {"asked", "failed"}
    BY <2>1, HeardFacts DEF Awaited, Pieces
  <2> HIDE DEF i
  <2> QED  BY <2>1, <2>2, ServedOnce
<1>3. ASSUME CallbackServe PROVE Remote!Next
  <2>1. /\ drawing.link = 1 /\ 1 \in Links /\ drawing.asking /\ link[1].server \in {"open", "shut"}
        /\ drawing.asking /\ link[1].server = "shut" => ~io[1].ready
    BY <1>3, TransportAssumption
       DEF CallbackServe, TransportInv, Drawing, TransportAssumption
  <2> DEFINE i == io[1].got[1].id
  <2>2. /\ link[1].server = "open" /\ io[1].ready /\ calls' = calls
        /\ served' = [served EXCEPT ![i] = @ + 1]
    BY <1>3, <2>1 DEF CallbackServe
  <2>3. i \in Calls /\ served[i] = 0 /\ calls[i] \in {"asked", "failed"}
    BY <2>1, <2>2, HeardFacts DEF Awaited, Pieces
  <2> HIDE DEF i
  <2> QED  BY <2>2, <2>3, ServedOnce
<1>4. ASSUME DrawnTree PROVE Remote!Next
  <2>1. /\ drawing.call \in Calls /\ served[drawing.call] = 0
        /\ calls[drawing.call] \in {"asked", "failed"}
    BY <1>4 DEF DrawnTree, Alone, TransportInv, Drawing
  <2>2. PICK i \in Calls : i = drawing.call
    BY <2>1
  <2>3. served' = [served EXCEPT ![i] = @ + 1] /\ calls' = calls
    BY <1>4, <2>2 DEF DrawnTree
  <2> QED  BY <2>1, <2>2, <2>3, ServedOnce
<1>5. ASSUME AskUser \/ CallbackExchange \/ CallbackEnds PROVE UNCHANGED <<calls, served>>
  BY <1>5 DEF AskUser, CallbackExchange, CallbackEnds, Receive, Send
<1> QED  BY <1>1, <1>2, <1>3, <1>4, <1>5 DEF ServerNext

\* A call that returns success returns what the server answered to that very
\* call, which it carried out once at most, whatever happens to connections
\* and call-backs (client.c:149-181, dispatch_tree.c:172-224).
THEOREM TransportIsRemoteCall == TransportSpec => ImplementsRemoteCall
<1>1. TransportInit => Remote!Init
  BY DEF TransportInit, Remote!Init
<1>2. TransportInv /\ [TransportNext]_transportVars => [Remote!Next]_<<calls, served>>
  BY ClientIsRemote, ServerIsRemote DEF TransportNext, transportVars
<1> QED
  BY <1>1, <1>2, TransportInvariant, PTL DEF TransportSpec, ImplementsRemoteCall, Remote!Spec

-----------------------------------------------------------------------------
(***************************************************************************)
(* The update lock's properties for any set of applications and any nesting *)
(* bound.  LockInv is the inductive invariant: exclusive holding is what    *)
(* makes the shared counter and the per-application counts agree without a  *)
(* sum, and their agreement is what keeps holding exclusive, so neither is  *)
(* inductive alone.                                                         *)
(***************************************************************************)

USE LockAssumption DEF LockAssumption

\* Only live applications hold; the rest is what the runs check.
LockInv ==
    /\ TypeOK
    /\ ExclusiveHolder
    /\ CounterIsOwed
    /\ DeadOweNothing

\* A count is a natural number, so an application without one has zero.
LEMMA DepthIsNat ==
    ASSUME LockInv, NEW a \in Apps
    PROVE  /\ depth[a] \in Nat
           /\ ~Holds(a) => depth[a] = 0 /\ dragger # a
  <1>1. depth[a] \in Nat
    BY DEF LockInv, TypeOK
  <1>2. QED BY <1>1 DEF Holds

\* What LockInv says of a holder: the counter is its count plus its drag.
LEMMA HolderCount ==
    ASSUME LockInv, NEW a \in Apps, Holds(a)
    PROVE  /\ updateDepth = depth[a] + Tracking
           /\ updateDepth > 0
           /\ a \in live
           /\ dragger \in {a, Nobody}
           /\ \A b \in Apps \ {a} : depth[b] = 0
  <1>1. \A b \in Apps \ {a} : ~Holds(b)
    BY DEF LockInv, ExclusiveHolder
  <1>2. \A b \in Apps \ {a} : depth[b] = 0 /\ dragger # b
    BY <1>1, DepthIsNat
  <1>3. dragger \in {a, Nobody}
    BY <1>2 DEF LockInv, TypeOK
  <1>4. updateDepth = depth[a] + Tracking
    <2>1. CASE \E b \in Apps : depth[b] > 0 /\ updateDepth = depth[b] + Tracking
      BY <2>1, <1>2
    <2>2. CASE (\A b \in Apps : depth[b] = 0) /\ updateDepth = Tracking
      BY <2>2 DEF Tracking
    <2>3. QED BY <2>1, <2>2 DEF LockInv, CounterIsOwed
  <1>5. a \in live
    BY DEF LockInv, DeadOweNothing
  <1>6. depth[a] \in Nat
    BY DepthIsNat
  <1>7. updateDepth > 0
    BY <1>4, <1>6 DEF Holds, Tracking
  <1>8. QED BY <1>2, <1>3, <1>4, <1>5, <1>7

\* While nobody holds, the shared counter is zero, and the converse.
LEMMA FreeIsZero ==
    ASSUME LockInv
    PROVE  updateDepth = 0 <=> \A a \in Apps : ~Holds(a)
  <1>1. ASSUME updateDepth = 0, NEW a \in Apps PROVE ~Holds(a)
    BY <1>1, HolderCount
  <1>2. ASSUME \A a \in Apps : ~Holds(a) PROVE updateDepth = 0
    BY <1>2 DEF LockInv, TypeOK, CounterIsOwed, Holds, Tracking
  <1>3. QED BY <1>1, <1>2

\* An application that may run either holds already or finds the lock free.
LEMMA RunnerHolds ==
    ASSUME LockInv, NEW a \in Apps, MayRun(a)
    PROVE  /\ dragger = Nobody
           /\ \A b \in Apps \ {a} : depth[b] = 0
           /\ updateDepth = depth[a]
  <1>1. CASE updateDepth = 0
    <2>1. \A b \in Apps : ~Holds(b)
      BY <1>1, FreeIsZero
    <2>2. \A b \in Apps : depth[b] = 0
      BY <2>1, DepthIsNat
    <2>3. QED BY <1>1, <2>1, <2>2 DEF Holds, LockInv, TypeOK
  <1>2. CASE a \in live /\ depth[a] > 0
    BY <1>2, HolderCount DEF Holds, MayRun, Tracking, LockInv, TypeOK
  <1>3. QED BY <1>1, <1>2 DEF MayRun

\* Nobody holds at first.
LEMMA InitLockInv == Init => LockInv
  BY DEF Init, LockInv, TypeOK, ExclusiveHolder, CounterIsOwed, DeadOweNothing,
         Holds, Tracking

\* Every step keeps the agreement of the counter and the counts.
LEMMA LockInvInductive == LockInv /\ [Next]_vars => LockInv'
  <1> SUFFICES ASSUME LockInv, [Next]_vars PROVE LockInv'
    OBVIOUS
  <1> USE DEF LockInv
  <1>1. CASE DragEnd
    <2>1. PICK a \in Apps : a = dragger
      BY <1>1 DEF DragEnd, TypeOK
    <2>2. updateDepth = depth[a] + 1 /\ \A b \in Apps \ {a} : depth[b] = 0
      BY <1>1, <2>1, HolderCount DEF DragEnd, Holds, Tracking, TypeOK
    <2>3. updateDepth' = depth[a]
      BY <1>1, <2>2 DEF DragEnd, TypeOK
    <2>4. TypeOK'
      BY <1>1, <2>3 DEF DragEnd, TypeOK
    <2>5. ExclusiveHolder'
      BY <1>1, <2>2 DEF DragEnd, ExclusiveHolder, Holds
    <2>6. CounterIsOwed'
      BY <1>1, <2>2, <2>3 DEF DragEnd, CounterIsOwed, Tracking, TypeOK
    <2>7. DeadOweNothing'
      BY <1>1 DEF DragEnd, DeadOweNothing, Holds
    <2>8. QED BY <2>4, <2>5, <2>6, <2>7
  <1>2. ASSUME NEW a \in Apps, ApplInit(a) PROVE LockInv'
    BY <1>2 DEF ApplInit, TypeOK, ExclusiveHolder, CounterIsOwed, DeadOweNothing,
                Holds, Tracking
  <1>3. ASSUME NEW a \in Apps, Leave(a) PROVE LockInv'
    <2>1. depth'[a] = 0 /\ \A b \in Apps \ {a} : depth'[b] = depth[b]
      BY <1>3 DEF Leave, TypeOK
    <2>2. updateDepth' = updateDepth - depth[a]
      <3>1. CASE depth[a] > 0
        <4>1. updateDepth = depth[a] /\ dragger = Nobody
          BY <3>1, <1>3, HolderCount DEF Holds, Leave, Tracking, TypeOK
        <4>2. QED BY <4>1, <1>3 DEF Leave, Unwound, TypeOK
      <3>2. CASE ~(depth[a] > 0)
        <4>1. depth[a] = 0
          BY <3>2 DEF TypeOK
        <4>2. QED BY <4>1, <1>3 DEF Leave, Unwound, TypeOK
      <3>3. QED BY <3>1, <3>2
    <2>3. TypeOK'
      <3>1. updateDepth' \in 0..(MaxDepth + 1)
        <4>1. updateDepth' \in {0, updateDepth} \/ depth[a] > 0
          BY <2>2 DEF TypeOK
        <4>2. CASE depth[a] > 0
          BY <4>2, <2>2, <1>3, HolderCount DEF Holds, Tracking, TypeOK
        <4>3. CASE updateDepth' \in {0, updateDepth}
          BY <4>3 DEF TypeOK
        <4>4. QED BY <4>1, <4>2, <4>3
      <3>2. QED BY <3>1, <1>3 DEF Leave, TypeOK
    <2>4. ExclusiveHolder'
      BY <1>3, <2>1 DEF Leave, ExclusiveHolder, Holds
    <2>5. CounterIsOwed'
      <3>1. CASE depth[a] > 0
        <4>1. updateDepth = depth[a] /\ dragger = Nobody
              /\ \A b \in Apps \ {a} : depth[b] = 0
          BY <3>1, <1>3, HolderCount DEF Holds, Leave, Tracking, TypeOK
        <4>2. updateDepth' = 0 /\ dragger' = Nobody
          BY <4>1, <2>2, <1>3 DEF Leave, TypeOK
        <4>3. QED BY <4>1, <4>2, <2>1 DEF CounterIsOwed, Tracking
      <3>2. CASE ~(depth[a] > 0)
        <4>1. updateDepth' = updateDepth /\ depth' = depth /\ dragger' = dragger
          BY <3>2, <2>2, <1>3 DEF Leave, TypeOK
        <4>2. QED BY <4>1 DEF CounterIsOwed, Tracking
      <3>3. QED BY <3>1, <3>2
    <2>6. DeadOweNothing'
      BY <1>3, <2>1 DEF Leave, DeadOweNothing, Holds
    <2>7. QED BY <2>3, <2>4, <2>5, <2>6
  <1>4. ASSUME NEW a \in Apps, BegUpdate(a) PROVE LockInv'
    <2>1. dragger = Nobody /\ updateDepth = depth[a]
          /\ \A b \in Apps \ {a} : depth[b] = 0
      BY <1>4, RunnerHolds DEF BegUpdate
    <2>2. /\ depth'[a] = depth[a] + 1
          /\ \A b \in Apps \ {a} : depth'[b] = 0
          /\ updateDepth' = depth'[a]
          /\ dragger' = Nobody
      BY <1>4, <2>1 DEF BegUpdate, TypeOK
    <2>3. TypeOK'
      BY <1>4, <2>1 DEF BegUpdate, TypeOK
    <2>4. ExclusiveHolder'
      BY <2>2 DEF ExclusiveHolder, Holds
    <2>5. CounterIsOwed'
      <3>1. depth'[a] > 0 /\ updateDepth' = depth'[a] + Tracking'
        BY <2>2, <2>3 DEF Tracking, TypeOK
      <3>2. QED BY <3>1 DEF CounterIsOwed
    <2>6. DeadOweNothing'
      BY <1>4, <2>2 DEF BegUpdate, DeadOweNothing, Holds
    <2>7. QED BY <2>3, <2>4, <2>5, <2>6
  <1>5. ASSUME NEW a \in Apps, EndUpdate(a) PROVE LockInv'
    <2>1. dragger = Nobody /\ updateDepth = depth[a]
          /\ \A b \in Apps \ {a} : depth[b] = 0
      BY <1>5, RunnerHolds DEF EndUpdate
    <2>2. /\ depth'[a] = depth[a] - 1
          /\ \A b \in Apps \ {a} : depth'[b] = 0
          /\ updateDepth' = depth'[a]
          /\ dragger' = Nobody
      BY <1>5, <2>1 DEF EndUpdate, TypeOK
    <2>3. TypeOK'
      BY <1>5, <2>1 DEF EndUpdate, TypeOK
    <2>4. ExclusiveHolder'
      BY <2>2 DEF ExclusiveHolder, Holds
    <2>5. CounterIsOwed'
      BY <2>2, <2>3 DEF CounterIsOwed, Tracking, TypeOK
    <2>6. DeadOweNothing'
      BY <1>5, <2>2 DEF EndUpdate, DeadOweNothing, Holds
    <2>7. QED BY <2>3, <2>4, <2>5, <2>6
  <1>6. ASSUME NEW a \in Apps, DragBegin(a) PROVE LockInv'
    <2>1. dragger = Nobody /\ updateDepth = depth[a]
          /\ \A b \in Apps \ {a} : depth[b] = 0
      BY <1>6, RunnerHolds DEF DragBegin
    <2>2. /\ depth' = depth /\ dragger' = a /\ live' = live /\ a \in live
          /\ updateDepth' = depth[a] + 1
      BY <1>6, <2>1 DEF DragBegin
    <2>3. TypeOK'
      BY <2>2 DEF TypeOK
    <2>4. ExclusiveHolder'
      BY <2>1, <2>2 DEF ExclusiveHolder, Holds
    <2>5. CounterIsOwed'
      BY <2>1, <2>2 DEF CounterIsOwed, Tracking, TypeOK
    <2>6. DeadOweNothing'
      BY <2>2 DEF DeadOweNothing, Holds
    <2>7. QED BY <2>3, <2>4, <2>5, <2>6
  <1>7. CASE UNCHANGED vars
    BY <1>7 DEF vars, TypeOK, ExclusiveHolder, CounterIsOwed, DeadOweNothing,
                Holds, Tracking
  <1>8. QED BY <1>1, <1>2, <1>3, <1>4, <1>5, <1>6, <1>7 DEF Next

\* The inductive invariant holds in every behaviour.
THEOREM LockInvariant == Spec => []LockInv
  BY InitLockInv, LockInvInductive, PTL DEF Spec

\* TypeOK for every MaxDepth: the shared WORD never passes MaxDepth + 1.
THEOREM TypeCorrect == Spec => []TypeOK
  BY LockInvariant, PTL DEF LockInv

\* At most one application freezes the desktop (gemd_session_may_run()).
THEOREM Exclusive == Spec => []ExclusiveHolder
  BY LockInvariant, PTL DEF LockInv

\* The shared counter is exactly what live applications owe
\* (gemd_cleanup_app() unwinds no more and no less than the leaver's share).
THEOREM Owed == Spec => []CounterIsOwed
  BY LockInvariant, PTL DEF LockInv

(***************************************************************************)
(* The WORD guard of wind_update() never refuses an authorized BEG_UPDATE:  *)
(* a reply of 0 to BEG_UPDATE always means the 64-level bound.              *)
(***************************************************************************)
THEOREM WordGuardUnreached ==
    ASSUME LockInv, NEW a \in Apps, MayRun(a), depth[a] < MaxDepth
    PROVE  updateDepth < WordLimit /\ depth[a] < WordLimit
  <1>1. updateDepth = depth[a]
    BY RunnerHolds
  <1>2. QED BY <1>1, DepthIsNat

-----------------------------------------------------------------------------
\* Which applications hold after each kind of step; EnteredFree and the
\* refinement both rest on it.
LEMMA HoldersStep ==
    ASSUME LockInv, [Next]_vars
    PROVE  \/ \A b \in Apps : Holds(b)' <=> Holds(b)
           \/ \A b \in Apps : ~Holds(b)'
           \/ updateDepth = 0
  <1>1. CASE DragEnd
    <2>1. PICK a \in Apps : a = dragger
      BY <1>1 DEF DragEnd, LockInv, TypeOK
    <2>2. \A b \in Apps \ {a} : ~Holds(b) /\ ~Holds(b)'
      BY <1>1, <2>1 DEF DragEnd, Holds, LockInv, ExclusiveHolder
    <2>3. QED BY <2>1, <2>2 DEF Holds
  <1>2. ASSUME NEW a \in Apps, ApplInit(a)
        PROVE  \A b \in Apps : Holds(b)' <=> Holds(b)
    BY <1>2 DEF ApplInit, Holds
  <1>3. ASSUME NEW a \in Apps, Leave(a)
        PROVE  \/ \A b \in Apps : Holds(b)' <=> Holds(b)
               \/ \A b \in Apps : ~Holds(b)'
    <2>1. ~Holds(a)' /\ \A b \in Apps \ {a} : Holds(b)' <=> Holds(b)
      BY <1>3 DEF Leave, Holds, LockInv, TypeOK
    <2>2. QED BY <2>1 DEF LockInv, ExclusiveHolder
  <1>4. ASSUME NEW a \in Apps, BegUpdate(a) \/ EndUpdate(a) \/ DragBegin(a),
               updateDepth # 0
        PROVE  \/ \A b \in Apps : Holds(b)' <=> Holds(b)
               \/ \A b \in Apps : ~Holds(b)'
    <2>1. Holds(a) /\ \A b \in Apps \ {a} : ~Holds(b)
      BY <1>4 DEF BegUpdate, EndUpdate, DragBegin, MayRun, Holds, LockInv,
                  ExclusiveHolder
    <2>2. \A b \in Apps \ {a} : ~Holds(b)'
      BY <1>4, <2>1 DEF BegUpdate, EndUpdate, DragBegin, Holds, LockInv, TypeOK
    <2>3. QED BY <2>1, <2>2
  <1>5. CASE UNCHANGED vars
    BY <1>5 DEF vars, Holds
  <1>6. QED BY <1>1, <1>2, <1>3, <1>4, <1>5 DEF Next

\* No application starts drawing while another one owns the screen.
THEOREM EnteredOnlyFree == Spec => EnteredFree
  <1>1. LockInv /\ [Next]_vars
        => [\A a \in Apps : ~Holds(a) /\ Holds(a)' => updateDepth = 0]_vars
    <2> SUFFICES ASSUME LockInv, [Next]_vars, NEW a \in Apps,
                        ~Holds(a), Holds(a)'
                 PROVE  updateDepth = 0
      OBVIOUS
    <2>1. QED BY HoldersStep
  <1>2. QED BY <1>1, LockInvariant, PTL DEF Spec, EnteredFree

\* While anybody holds, the shared counter is up.
HeldIsUp == \A a \in Apps : Holds(a) => updateDepth > 0

\* Somebody else's exit never thaws the desktop under a holder.
THEOREM HolderKeepsItsLock == Spec => HolderKeepsLock
  <1>1. LockInv => HeldIsUp
    BY HolderCount DEF HeldIsUp
  <1>2. HeldIsUp'
        => [\A a \in Apps : Holds(a) /\ Holds(a)' => updateDepth' > 0]_vars
    BY DEF HeldIsUp
  <1>3. QED BY <1>1, <1>2, LockInvariant, PTL DEF Spec, HolderKeepsLock

-----------------------------------------------------------------------------
\* Under the invariant the holder of the abstract lock is well defined.
LEMMA HolderIs ==
    ASSUME ExclusiveHolder
    PROVE  /\ \A a \in Apps : Holds(a) => Holder = a
           /\ (\A a \in Apps : ~Holds(a)) => Holder = Nobody
           /\ Holder # Nobody => \E a \in Apps : Holds(a)
  BY DEF ExclusiveHolder, Holder

\* After a step, the abstract owner of the screen is whoever holds.
LEMMA HolderIsNext ==
    ASSUME ExclusiveHolder'
    PROVE  /\ \A a \in Apps : Holds(a)' => Holder' = a
           /\ (\A a \in Apps : ~Holds(a)') => Holder' = Nobody
           /\ Holder' # Nobody => \E a \in Apps : Holds(a)'
  BY DEF ExclusiveHolder, Holder, Holds

\* Every step of the counting lock takes, gives back or keeps the screen.
LEMMA ScreenStep ==
    ASSUME LockInv, LockInv', [Next]_vars
    PROVE  [Screen!Next]_Holder
  <1>1. ExclusiveHolder /\ ExclusiveHolder'
    BY DEF LockInv
  <1>2. CASE \A b \in Apps : Holds(b)' <=> Holds(b)
    <2>1. Holder' = Holder
      BY <1>1, <1>2, HolderIs, HolderIsNext
    <2>2. QED BY <2>1
  <1>3. CASE \A b \in Apps : ~Holds(b)'
    <2>1. Holder' = Nobody
      BY <1>1, <1>3, HolderIsNext
    <2>2. QED BY <2>1 DEF Screen!Next, Screen!GiveBack
  <1>4. CASE updateDepth = 0
    <2>1. Holder = Nobody
      BY <1>1, <1>4, FreeIsZero, HolderIs
    <2>2. Holder' = Nobody \/ \E a \in Apps : Holder' = a
      BY <1>1, HolderIsNext
    <2>3. QED BY <2>1, <2>2 DEF Screen!Next, Screen!Take
  <1>5. QED BY <1>2, <1>3, <1>4, HoldersStep

(***************************************************************************)
(* The counting lock of gemd implements the abstract one: the screen passes *)
(* from one application to another only through nobody, however updates     *)
(* nest, drags open under them and applications disappear in between.       *)
(***************************************************************************)
THEOREM ImplementsScreenOwner == Spec => OwnsScreen
  <1>1. Init => Screen!Init
    BY DEF Init, Screen!Init, Holder, Holds
  <1>2. LockInv /\ LockInv' /\ [Next]_vars => [Screen!Next]_Holder
    BY ScreenStep
  <1>3. QED BY <1>1, <1>2, LockInvariant, PTL DEF Spec, OwnsScreen, Screen!Spec
=============================================================================
