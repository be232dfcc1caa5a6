---------------------------- MODULE AppServerProofs ----------------------------
(***************************************************************************)
(* Proofs about AppServer.tla, for any scripts, any number of clients and  *)
(* I/O threads, and any sizes of the buffer and of the largest body.       *)
(***************************************************************************)
EXTENDS AppServer, TLAPS, SequenceTheorems, FiniteSetTheorems, WellFoundedInduction

-----------------------------------------------------------------------------
(* The inductive invariant: how the bytes a client has sent, the bytes his *)
(* thread has taken off the socket and the body it has put together agree. *)

Places == {"connecting", "reading", "body", "chunks", "static", "creating", "finding", "extracting",
           "calling", "running", "closed", "undefined"}
After == {"static", "creating", "finding", "extracting", "calling"}

Marks(c) == Range(Head4) \cup Range(wants[c].body)

Typed ==
    /\ \A c \in Client : IsRequest(wants[c])
    /\ sent \in [Client -> Nat] /\ gone \in [Client -> BOOLEAN] /\ pc \in [Client -> Places]
    /\ DOMAIN local = Client /\ DOMAIN answer = Client
    /\ \A c \in Client : /\ DOMAIN local[c] = DOMAIN NoLocal
                         /\ local[c].taken \in Nat /\ local[c].first \in Nat
                         /\ local[c].body \in Seq(Marks(c))

NoZero(c) == ~Contains(wants[c].body, Zero)
Plain(c) == /\ ~wants[c].chunked /\ wants[c].length = Len(wants[c].body) /\ Len(wants[c].body) <= MaxBody
            /\ NoZero(c)
\* The client went away before he had sent it all.
Lost(c) == gone[c] /\ sent[c] < Len(Stream(c))

\* A body of an announced length, while it is read: the head came in pieces, or all
\* that was taken after it is in the body, or more than the length came with the head.
Got(c) ==
    LET l == local[c]
    IN  \/ l.first = 3 /\ Len(l.body) = l.taken - 3
        \/ l.first >= 4 /\ l.body = SubSeq(wants[c].body, 1, l.taken - 4)
        \/ l.first - 4 > wants[c].length /\ Len(l.body) = wants[c].length

Positions(c) ==
    /\ local[c].first <= local[c].taken /\ local[c].taken <= sent[c] /\ sent[c] <= Len(Stream(c))
    /\ pc[c] \in {"connecting", "reading"} => local[c].taken = 0 /\ local[c].first = 0
Reading(c) ==
    /\ pc[c] = "body" => /\ wants[c].length \in 1 .. MaxBody /\ ~wants[c].chunked
                         /\ NoZero(c) => Got(c)
    /\ pc[c] = "chunks" => /\ wants[c].chunked
                           /\ \/ local[c].taken = local[c].first \/ local[c].taken < Len(Stream(c))
                              \/ Last(Stream(c)) # LastChunk
Delivered(c) ==
    Plain(c) =>
      /\ pc[c] \in After /\ local[c].first >= 4 => local[c].body = wants[c].body \/ Lost(c)
      /\ answer[c].kind = "handler" /\ answer[c].fields => answer[c].body = wants[c].body \/ Lost(c)

Known(c) == Positions(c) /\ Reading(c) /\ Delivered(c)

BodyInv == Typed /\ \A c \in Client : Known(c)

-----------------------------------------------------------------------------
(* Operators *)

LEMMA FourIsSeq ==
  ASSUME NEW S, NEW a \in S, NEW b \in S, NEW c \in S, NEW d \in S
  PROVE  <<a, b, c, d>> \in Seq(S)
OBVIOUS

LEMMA Joined ==
  ASSUME NEW S, NEW s \in Seq(S), NEW t \in Seq(S)
  PROVE  /\ s \o t \in Seq(S) /\ Len(s \o t) = Len(s) + Len(t)
         /\ \A i \in 1 .. Len(s) : (s \o t)[i] = s[i]
         /\ \A i \in 1 .. Len(t) : (s \o t)[i + Len(s)] = t[i]
OBVIOUS

\* What a client sends: the four marks of the head, then the body.
LEMMA StreamIs ==
  ASSUME NEW c \in Client, IsRequest(wants[c])
  PROVE  /\ Stream(c) \in Seq(Marks(c)) /\ wants[c].body \in Seq(Marks(c))
         /\ Len(Stream(c)) = Len(wants[c].body) + 4
         /\ \A i \in 1 .. Len(wants[c].body) : Stream(c)[i + 4] = wants[c].body[i]
         /\ Len(wants[c].body) = 0 => Last(Stream(c)) # LastChunk
<1>1. Len(Head4) = 4 /\ DOMAIN Head4 = 1 .. 4 /\ Head4[4] = "end"
  BY DEF Head4
<1>2. Head4 \in Seq(Marks(c))
  <2>1. \A i \in 1 .. 4 : Head4[i] \in Marks(c)
    BY <1>1 DEF Marks, Range
  <2>2. Head4[1] \in Marks(c) /\ Head4[2] \in Marks(c) /\ Head4[3] \in Marks(c) /\ Head4[4] \in Marks(c)
    BY <2>1
  <2>3. Head4 = <<Head4[1], Head4[2], Head4[3], Head4[4]>>
    BY DEF Head4
  <2> HIDE DEF Head4
  <2>4. <<Head4[1], Head4[2], Head4[3], Head4[4]>> \in Seq(Marks(c))
    BY <2>2, FourIsSeq
  <2> QED  BY <2>3, <2>4
<1>3. wants[c].body \in Seq(Marks(c))
  BY DEF IsRequest, IsText, Marks
<1>4. /\ Stream(c) \in Seq(Marks(c)) /\ Len(Stream(c)) = Len(wants[c].body) + 4
      /\ \A i \in 1 .. 4 : Stream(c)[i] = Head4[i]
      /\ \A i \in 1 .. Len(wants[c].body) : Stream(c)[i + 4] = wants[c].body[i]
  <2>1. Stream(c) = Head4 \o wants[c].body
    BY DEF Stream
  <2> HIDE DEF Head4
  <2>2. Head4 \o wants[c].body \in Seq(Marks(c))
    BY <1>2, <1>3, Joined
  <2>3. Len(Head4 \o wants[c].body) = Len(Head4) + Len(wants[c].body)
    BY <1>2, <1>3, Joined
  <2>4. \A i \in 1 .. Len(Head4) : (Head4 \o wants[c].body)[i] = Head4[i]
    BY <1>2, <1>3, Joined
  <2>5. \A i \in 1 .. Len(wants[c].body) : (Head4 \o wants[c].body)[i + Len(Head4)] = wants[c].body[i]
    BY <1>2, <1>3, Joined
  <2>6. Len(wants[c].body) \in Nat
    BY <1>3, LenProperties
  <2> QED  BY <1>1, <2>1, <2>2, <2>3, <2>4, <2>5, <2>6
<1>5. Len(wants[c].body) = 0 => Last(Stream(c)) = "end"
  BY <1>1, <1>4 DEF Last
<1> QED
  BY <1>3, <1>4, <1>5 DEF LastChunk

LEMMA PartIs ==
  ASSUME NEW S, NEW s \in Seq(S), NEW m \in 1 .. Len(s) + 1, NEW n \in m - 1 .. Len(s)
  PROVE  /\ SubSeq(s, m, n) \in Seq(S) /\ Len(SubSeq(s, m, n)) = n - m + 1
         /\ \A i \in 1 .. n - m + 1 : SubSeq(s, m, n)[i] = s[m - 1 + i]
OBVIOUS

LEMMA MinIs ==
  ASSUME NEW S \in SUBSET Nat, S # {}
  PROVE  Min(S) \in S /\ \A i \in S : Min(S) <= i
<1>1. IsWellFoundedOn(OpToRel(<, Nat), Nat)  BY NatLessThanWellFounded
<1>2. PICK m \in S : \A i \in S : <<i, m>> \notin OpToRel(<, Nat)
  BY <1>1, WFMin
<1>3. \A i \in S : ~(i < m)  BY <1>2 DEF OpToRel
<1>4. \A i \in S : m <= i  BY <1>3
<1> QED  BY <1>4 DEF Min

LEMMA MinOfTwo ==
  ASSUME NEW a \in Int, NEW b \in Int
  PROVE  Min({a, b}) = IF a <= b THEN a ELSE b
BY DEF Min

\* A text without a zero byte is taken whole, and so is each part of it.
LEMMA ToZeroIs ==
  ASSUME NEW text, ~Contains(text, Zero)
  PROVE  ToZero(text) = text
BY DEF ToZero

LEMMA ToZeroIsSeq ==
  ASSUME NEW S, NEW text \in Seq(S)
  PROVE  ToZero(text) \in Seq(S)
<1>1. CASE Contains(text, Zero)
  <2> DEFINE I == {i \in 1 .. Len(text) : text[i] = Zero}
             k == SelectInSeq(text, LAMBDA b : b = Zero)
  <2>1. I # {} /\ I \subseteq Nat
    BY <1>1 DEF Contains
  <2>2. k = Min(I)
    BY <2>1 DEF SelectInSeq
  <2>3. k \in I
    BY <2>1, <2>2, MinIs
  <2>4. k \in 1 .. Len(text)
    BY <2>3
  <2> HIDE DEF k
  <2>5. SubSeq(text, 1, k - 1) \in Seq(S)
    BY <2>4, PartIs
  <2> QED  BY <1>1, <2>5 DEF ToZero, k
<1>2. CASE ~Contains(text, Zero)
  BY <1>2 DEF ToZero
<1> QED  BY <1>1, <1>2

LEMMA PartHasNoZero ==
  ASSUME NEW S, NEW text \in Seq(S), NEW m \in 1 .. Len(text) + 1, NEW n \in m - 1 .. Len(text), ~Contains(text, Zero)
  PROVE  ~Contains(SubSeq(text, m, n), Zero)
BY DEF Contains

\* Marks of the stream behind the head are those of the body.
LEMMA StreamPart ==
  ASSUME NEW c \in Client, IsRequest(wants[c]),
         NEW m \in Nat, NEW n \in Nat, 4 <= m, m <= n, n <= Len(Stream(c))
  PROVE  /\ SubSeq(Stream(c), m + 1, n) = SubSeq(wants[c].body, m - 3, n - 4)
         /\ SubSeq(wants[c].body, 1, m - 4) \o SubSeq(Stream(c), m + 1, n) = SubSeq(wants[c].body, 1, n - 4)
<1> DEFINE S == Stream(c)
           B == wants[c].body
<1>1. /\ S \in Seq(Marks(c)) /\ B \in Seq(Marks(c)) /\ Len(S) = Len(B) + 4
      /\ \A i \in 1 .. Len(B) : S[i + 4] = B[i]
      /\ Len(B) \in Nat
  BY StreamIs, LenProperties
<1>0. n <= Len(S)
  OBVIOUS
<1> HIDE DEF S, B
<1>2. SubSeq(S, m + 1, n) = SubSeq(B, m - 3, n - 4)
  <2>1. /\ SubSeq(S, m + 1, n) \in Seq(Marks(c)) /\ Len(SubSeq(S, m + 1, n)) = n - m
        /\ \A i \in 1 .. n - m : SubSeq(S, m + 1, n)[i] = S[m + i]
    <3>1. m + 1 \in 1 .. Len(S) + 1 /\ n \in (m + 1) - 1 .. Len(S) /\ n - (m + 1) + 1 = n - m /\ (m + 1) - 1 = m
      BY <1>0, <1>1
    <3> QED  BY <1>1, <3>1, PartIs
  <2>2. /\ SubSeq(B, m - 3, n - 4) \in Seq(Marks(c)) /\ Len(SubSeq(B, m - 3, n - 4)) = n - m
        /\ \A i \in 1 .. n - m : SubSeq(B, m - 3, n - 4)[i] = B[m - 4 + i]
    <3>1. m - 3 \in 1 .. Len(B) + 1 /\ n - 4 \in (m - 3) - 1 .. Len(B) /\ (n - 4) - (m - 3) + 1 = n - m /\ (m - 3) - 1 = m - 4
      BY <1>0, <1>1
    <3> QED  BY <1>1, <3>1, PartIs
  <2>3. \A i \in 1 .. n - m : S[m + i] = B[m - 4 + i]
    <3>1. \A i \in 1 .. n - m : m - 4 + i \in 1 .. Len(B) /\ (m - 4 + i) + 4 = m + i
      BY <1>0, <1>1
    <3> QED  BY <1>1, <3>1
  <2>4. \A i \in 1 .. n - m : SubSeq(S, m + 1, n)[i] = SubSeq(B, m - 3, n - 4)[i]
    BY <2>1, <2>2, <2>3
  <2> DEFINE X == SubSeq(S, m + 1, n)
             Y == SubSeq(B, m - 3, n - 4)
  <2>5. X \in Seq(Marks(c)) /\ Y \in Seq(Marks(c)) /\ Len(X) = Len(Y) /\ \A i \in 1 .. Len(X) : X[i] = Y[i]
    BY <2>1, <2>2, <2>4
  <2> HIDE DEF X, Y
  <2>6. X = Y  BY <2>5, SeqEqual
  <2> QED  BY <2>6 DEF X, Y
<1>3. SubSeq(B, 1, m - 4) \o SubSeq(B, m - 3, n - 4) = SubSeq(B, 1, n - 4)
  <2>1. 1 \in 1 .. Len(B) + 1 /\ m - 4 \in 1 - 1 .. Len(B) /\ n - 4 \in m - 4 .. Len(B) /\ (m - 4) + 1 = m - 3
    BY <1>0, <1>1
  <2> QED  BY <1>1, <2>1, ConcatAdjacentSubSeq
<1> QED  BY <1>2, <1>3 DEF S, B

-----------------------------------------------------------------------------
(* Steps *)

LEMMA BodyStarts == Init => BodyInv
<1> SUFFICES ASSUME Init PROVE BodyInv
  OBVIOUS
<1>1. \A c \in Client : IsRequest(wants[c])
  <2>1. PICK s \in Scenarios : wants \in s.traffic
    BY DEF Init
  <2> QED  BY <2>1, TrafficAssumption
<1>2. Typed
  <2>1. NoLocal.taken = 0 /\ NoLocal.first = 0 /\ NoLocal.body = <<>>
    BY DEF NoLocal
  <2> HIDE DEF NoLocal
  <2>2. \A c \in Client : <<>> \in Seq(Marks(c))
    BY EmptySeq
  <2>3. sent \in [Client -> Nat] /\ gone \in [Client -> BOOLEAN] /\ pc \in [Client -> Places]
    BY DEF Init, Places
  <2>4. DOMAIN local = Client /\ DOMAIN answer = Client /\ \A c \in Client : local[c] = NoLocal
    BY DEF Init
  <2>5. ASSUME NEW c \in Client
        PROVE  /\ DOMAIN local[c] = DOMAIN NoLocal /\ local[c].taken \in Nat
               /\ local[c].first \in Nat /\ local[c].body \in Seq(Marks(c))
    <3>1. local[c] = NoLocal  BY <2>4
    <3>2. local[c].body = <<>>  BY <2>1, <3>1
    <3>3. local[c].body \in Seq(Marks(c))  BY <2>2, <3>2
    <3>4. local[c].taken = 0 /\ local[c].first = 0  BY <2>1, <3>1
    <3> QED  BY <3>1, <3>3, <3>4
  <2> QED  BY <1>1, <2>3, <2>4, <2>5 DEF Typed
<1>3. ASSUME NEW c \in Client PROVE Known(c)
  <2>1. NoLocal.taken = 0 /\ NoLocal.first = 0 /\ NoAnswer.kind # "handler"
    BY DEF NoLocal, NoAnswer
  <2>2. Len(Stream(c)) \in Nat
    BY <1>1, StreamIs, LenProperties
  <2> HIDE DEF NoLocal
  <2> QED  BY <2>1, <2>2 DEF Init, Known, Positions, Reading, Delivered, After
<1> QED  BY <1>2, <1>3 DEF BodyInv

\* What a step leaves alone it does not disturb.
Same(c) ==
    /\ wants' = wants /\ sent'[c] = sent[c] /\ gone'[c] = gone[c]
    /\ pc'[c] = pc[c] /\ local'[c] = local[c] /\ answer'[c] = answer[c]

LEMMA SameKnown ==
  ASSUME NEW c \in Client, Known(c), Same(c)
  PROVE  Known(c)'
BY DEF Known, Same, Positions, Reading, Delivered, Got, Plain, NoZero, Lost, Stream

\* A step of one client or of his thread: who takes it knows the same afterwards.
Alone(c) == wants' = wants /\ \A d \in Client \ {c} : Same(d)

LEMMA AloneIsEnough ==
  ASSUME BodyInv, NEW c \in Client, Alone(c), Typed', Known(c)'
  PROVE  BodyInv'
BY SameKnown DEF BodyInv, Alone

\* From the body to the answer nothing is read and the body stays what it is.
Onward(c) ==
    /\ Alone(c) /\ sent'[c] = sent[c] /\ gone'[c] = gone[c]
    /\ pc[c] \in After \cup {"running"} /\ pc'[c] \in After \cup {"running", "closed", "undefined"}
    /\ pc'[c] \in After => pc[c] \in After
    /\ \A f \in {"taken", "first", "body"} : local'[c][f] = local[c][f]
    /\ answer'[c] = answer[c] \/ answer'[c].kind # "handler"

LEMMA OnwardKnown ==
  ASSUME NEW c \in Client, Known(c), Onward(c)
  PROVE  Known(c)'
<1>1. local'[c].taken = local[c].taken /\ local'[c].first = local[c].first /\ local'[c].body = local[c].body
  BY DEF Onward
<1> QED
  BY <1>1 DEF Onward, Alone, Known, Positions, Reading, Delivered, Plain, NoZero, Lost, Stream, After

\* The thread answers, looks for a route, or calls its handler.
LEMMA LaterStep ==
  ASSUME BodyInv, NEW c \in Client,
         \/ AnswerStatic(c) \/ NotStatic(c) \/ Create(c) \/ Find(c) \/ UseMoved(c) \/ Extract(c) \/ HandlerReturns(c)
  PROVE  Typed' /\ Onward(c)
<1> DEFINE L == DOMAIN NoLocal
<1>0. Typed  BY DEF BodyInv
<1>1. L = {"taken", "first", "body", "room", "registry", "route", "moves", "params"}
  BY DEF NoLocal
<1> HIDE DEF L
<1>2. UNCHANGED <<wants, sent, gone>>
  BY DEF AnswerStatic, NotStatic, Create, Find, UseMoved, Extract, HandlerReturns, ThreadOnly, clientVars
<1>3. \E p \in {"creating", "finding", "extracting", "calling", "closed", "undefined"} : Goes(c, p)
  BY DEF AnswerStatic, NotStatic, Create, Find, UseMoved, Extract, HandlerReturns, Answers
<1>4. pc[c] \in After \cup {"running"} /\ (pc'[c] \in After => pc[c] \in After)
  BY <1>0 DEF AnswerStatic, NotStatic, Create, Find, UseMoved, Extract, HandlerReturns, Answers, Goes, At, After, Typed
<1>5. \/ answer' = answer
      \/ \E a : a.kind # "handler" /\ answer' = [answer EXCEPT ![c] = a]
      \/ answer' = [answer EXCEPT ![c] = answer[c]]
  <2>1. CASE AnswerStatic(c)
    <3>1. PICK try, status, body : answer' = [answer EXCEPT ![c] = [kind |-> "file", try |-> try, status |-> status, body |-> body]]
      BY <2>1 DEF AnswerStatic, Answers
    <3> QED  BY <3>1
  <2>2. CASE Find(c)
    BY <2>2 DEF Find, Answers
  <2>3. CASE HandlerReturns(c)
    BY <2>3 DEF HandlerReturns, Answers
  <2>4. CASE NotStatic(c) \/ Create(c) \/ UseMoved(c) \/ Extract(c)
    BY <2>4 DEF NotStatic, Create, UseMoved, Extract
  <2> QED  BY <2>1, <2>2, <2>3, <2>4
<1>6. \/ local' = local
      \/ \E l : /\ local' = [local EXCEPT ![c] = l] /\ DOMAIN l = L
               /\ \A f \in {"taken", "first", "body"} : l[f] = local[c][f]
  <2>1. DOMAIN local[c] = L
    BY <1>0 DEF Typed, L
  <2>2. CASE NotStatic(c)
    BY <1>1, <2>1, <2>2 DEF NotStatic, Keeps
  <2>3. CASE Create(c)
    BY <1>1, <2>1, <2>3 DEF Create, Keeps
  <2>4. CASE Find(c)
    BY <1>1, <2>1, <2>4 DEF Find, Keeps
  <2>5. CASE Extract(c)
    BY <1>1, <2>1, <2>5 DEF Extract, Keeps
  <2>6. CASE AnswerStatic(c) \/ UseMoved(c) \/ HandlerReturns(c)
    BY <2>6 DEF AnswerStatic, UseMoved, HandlerReturns
  <2> QED  BY <2>2, <2>3, <2>4, <2>5, <2>6
<1>7. DOMAIN local' = Client /\ DOMAIN answer' = Client
  BY <1>0, <1>5, <1>6 DEF Typed
<1>8. /\ DOMAIN local'[c] = L /\ \A f \in {"taken", "first", "body"} : local'[c][f] = local[c][f]
      /\ \A d \in Client \ {c} : local'[d] = local[d]
  BY <1>0, <1>6 DEF Typed, L
<1>9. Typed'
  <2>1. pc' \in [Client -> Places]
    BY <1>0, <1>3 DEF Typed, Goes, Places
  <2>2. \A d \in Client : /\ DOMAIN local'[d] = L /\ local'[d].taken = local[d].taken
                           /\ local'[d].first = local[d].first /\ local'[d].body = local[d].body
    BY <1>0, <1>8 DEF Typed, L
  <2> QED  BY <1>0, <1>2, <1>7, <2>1, <2>2 DEF Typed, Marks, L
<1>10. Onward(c)
  <2>1. \A d \in Client \ {c} : pc'[d] = pc[d] /\ answer'[d] = answer[d]
    BY <1>0, <1>3, <1>5 DEF Typed, Goes
  <2>2. answer'[c] = answer[c] \/ answer'[c].kind # "handler"
    BY <1>0, <1>5 DEF Typed
  <2>3. pc'[c] \in After \cup {"running", "closed", "undefined"}
    BY <1>0, <1>3 DEF Typed, Goes, After
  <2> QED  BY <1>2, <1>4, <1>8, <2>1, <2>2, <2>3 DEF Onward, Alone, Same
<1> QED  BY <1>9, <1>10

\* A read: what changes, and that it is well typed.
Reads(c, place, n, f, b) ==
    /\ UNCHANGED <<wants, sent, gone, answer>> /\ Goes(c, place)
    /\ DOMAIN local' = Client /\ \A d \in Client \ {c} : local'[d] = local[d]
    /\ DOMAIN local'[c] = DOMAIN NoLocal
    /\ local'[c].taken = n /\ local'[c].first = f /\ local'[c].body = b

LEMMA ReadsTyped ==
  ASSUME Typed, NEW c \in Client, NEW place \in Places, NEW n \in Nat, NEW f \in Nat,
         NEW b \in Seq(Marks(c)), Reads(c, place, n, f, b)
  PROVE  /\ Typed' /\ Alone(c) /\ sent'[c] = sent[c] /\ gone'[c] = gone[c] /\ answer'[c] = answer[c]
         /\ pc'[c] = place /\ local'[c].taken = n /\ local'[c].first = f /\ local'[c].body = b
<1> HIDE DEF NoLocal
<1>2. /\ DOMAIN local' = Client /\ \A d \in Client \ {c} : local'[d] = local[d]
      /\ DOMAIN local'[c] = DOMAIN NoLocal
      /\ local'[c].taken = n /\ local'[c].first = f /\ local'[c].body = b
  BY DEF Reads
<1>3. pc' \in [Client -> Places] /\ pc'[c] = place /\ \A d \in Client \ {c} : pc'[d] = pc[d]
  BY DEF Reads, Goes, Typed
<1>4. UNCHANGED <<wants, sent, gone, answer>>
  BY DEF Reads
<1>5. \A d \in Client : /\ DOMAIN local'[d] = DOMAIN NoLocal /\ local'[d].taken \in Nat
                         /\ local'[d].first \in Nat /\ local'[d].body \in Seq(Marks(d))
  <2>1. ASSUME NEW d \in Client, d # c
        PROVE  /\ DOMAIN local'[d] = DOMAIN NoLocal /\ local'[d].taken \in Nat
               /\ local'[d].first \in Nat /\ local'[d].body \in Seq(Marks(d))
    BY <1>2, <2>1 DEF Typed
  <2>2. /\ DOMAIN local'[c] = DOMAIN NoLocal /\ local'[c].taken \in Nat
        /\ local'[c].first \in Nat /\ local'[c].body \in Seq(Marks(c))
    BY <1>2
  <2> QED  BY <2>1, <2>2
<1>6. Typed'
  BY <1>2, <1>3, <1>4, <1>5 DEF Typed, Marks
<1> QED
  BY <1>2, <1>3, <1>4, <1>6 DEF Alone, Same

LEMMA ReadNothingStep ==
  ASSUME BodyInv, NEW c \in Client, ReadNothing(c)
  PROVE  Typed' /\ Alone(c) /\ Known(c)'
<1> HIDE DEF NoLocal
<1>0. Typed /\ Known(c)  BY DEF BodyInv
<1>1. PICK n \in Nat : n <= sent[c] /\ Reads(c, "closed", n, local[c].first, local[c].body)
  <2>1. CASE Unread(c) = 0 /\ gone[c] /\ UNCHANGED local
    <3>1. Reads(c, "closed", local[c].taken, local[c].first, local[c].body)
      BY <1>0, <2>1 DEF ReadNothing, Reads, Typed, ThreadOnly, clientVars
    <3> QED  BY <1>0, <3>1 DEF Typed, Known, Positions
  <2>2. CASE Unread(c) = 1 /\ Keeps(c, [local[c] EXCEPT !.taken = 1])
    <3>1. DOMAIN local[c] = {"taken", "first", "body", "room", "registry", "route", "moves", "params"}
      BY <1>0 DEF Typed, NoLocal
    <3>2. Reads(c, "closed", 1, local[c].first, local[c].body)
      BY <1>0, <2>2, <3>1 DEF ReadNothing, Reads, Keeps, Typed, ThreadOnly, clientVars
    <3>3. sent[c] \in Nat /\ local[c].taken = 0 /\ sent[c] = 1
      BY <1>0, <2>2 DEF ReadNothing, At, Known, Positions, Typed, Unread
    <3> QED  BY <3>2, <3>3
  <2> QED  BY <2>1, <2>2 DEF ReadNothing
<1>2. local[c].first = 0 /\ pc[c] = "reading"
  BY <1>0 DEF ReadNothing, At, Known, Positions
<1>3. "closed" \in Places /\ local[c].first \in Nat /\ local[c].body \in Seq(Marks(c))
  BY <1>0 DEF Places, Typed
<1>4. /\ Typed' /\ Alone(c) /\ sent'[c] = sent[c] /\ gone'[c] = gone[c] /\ answer'[c] = answer[c]
      /\ pc'[c] = "closed" /\ local'[c].taken = n /\ local'[c].first = local[c].first
  BY <1>0, <1>1, <1>3, ReadsTyped
<1>5. Known(c)'
  BY <1>0, <1>1, <1>2, <1>4 DEF Known, Positions, Reading, Delivered, After, Alone, Plain, NoZero, Lost, Stream
<1> QED  BY <1>4, <1>5

\* What a read can take is a positive number of the bytes that are there.
LEMMA ReadSize ==
  ASSUME Typed, NEW c \in Client, Positions(c), Unread(c) > 0, NEW m \in Nat, m > 0
  PROVE  LET n == Min({m, Unread(c)})
         IN  /\ n \in 1 .. Len(Stream(c)) /\ n <= m /\ local[c].taken + n <= sent[c]
             /\ Unread(c) \in Nat /\ (n = m \/ n = Unread(c))
<1>1. sent[c] \in Nat /\ local[c].taken \in Nat /\ Len(Stream(c)) \in Nat
  BY StreamIs, LenProperties DEF Typed
<1>2. Unread(c) \in Nat /\ Unread(c) <= Len(Stream(c)) /\ local[c].taken + Unread(c) = sent[c]
  BY <1>1 DEF Positions, Unread
<1> QED
  BY <1>1, <1>2, MinOfTwo

\* The part of the body that came with the head.
LEMMA InitialIs ==
  ASSUME NEW c \in Client, IsRequest(wants[c]), NEW n \in 1 .. Len(Stream(c))
  PROVE  /\ Initial(c, n) \in Seq(Marks(c))
         /\ n < 4 => Initial(c, n) = <<>>
         /\ n >= 4 /\ NoZero(c) => Initial(c, n) = SubSeq(wants[c].body, 1, n - 4)
<1> DEFINE B == wants[c].body
           S == Stream(c)
<1>0. Len(Head4) = 4  BY DEF Head4
<1>1. S \in Seq(Marks(c)) /\ B \in Seq(Marks(c)) /\ Len(S) = Len(B) + 4 /\ Len(B) \in Nat
  BY StreamIs, LenProperties
<1>2. CASE n < 4
  BY <1>0, <1>2, EmptySeq DEF Initial
<1>3. CASE n >= 4
  <2>1. Initial(c, n) = ToZero(SubSeq(S, 5, n))
    BY <1>0, <1>3 DEF Initial
  <2>2. SubSeq(S, 5, n) = SubSeq(B, 1, n - 4)
    <3>1. 4 \in Nat /\ n \in Nat /\ 4 <= 4 /\ 4 <= n /\ n <= Len(S) /\ 4 + 1 = 5 /\ 4 - 3 = 1
      BY <1>1, <1>3
    <3>2. SubSeq(S, 4 + 1, n) = SubSeq(B, 4 - 3, n - 4)
      BY <3>1, StreamPart
    <3> QED  BY <3>1, <3>2
  <2>3. SubSeq(B, 1, n - 4) \in Seq(Marks(c))
    BY <1>1, <1>3, PartIs
  <2>4. NoZero(c) => ~Contains(SubSeq(B, 1, n - 4), Zero)
    BY <1>1, <1>3, PartHasNoZero DEF NoZero
  <2>5. Initial(c, n) \in Seq(Marks(c))
    BY <2>1, <2>2, <2>3, ToZeroIsSeq
  <2>6. NoZero(c) => Initial(c, n) = SubSeq(B, 1, n - 4)
    BY <2>1, <2>2, <2>4, ToZeroIs
  <2> QED  BY <1>3, <2>5, <2>6
<1> QED  BY <1>2, <1>3

\* The first read, and how it begins the body.
LEMMA ReadHeadStep ==
  ASSUME BodyInv, NEW c \in Client, ReadHead(c)
  PROVE  Typed' /\ Alone(c) /\ Known(c)'
<1> HIDE DEF NoLocal
<1> DEFINE n == Min({Buffer - 1, Unread(c)})
           B == wants[c].body
           length == IF n >= 3 THEN wants[c].length ELSE None
           chunked == n >= 3 /\ wants[c].chunked
           initial == Initial(c, n)
<1>0. Typed /\ Known(c) /\ IsRequest(wants[c]) /\ pc[c] = "reading" /\ local[c].taken = 0
  BY DEF BodyInv, ReadHead, At, Typed, Known, Positions
<1>1. n \in 1 .. Len(Stream(c)) /\ n <= sent[c]
  <2>1. Buffer - 1 \in Nat /\ Buffer - 1 > 0  BY LimitsAssumption
  <2>2. Unread(c) > 0 /\ Positions(c)
    BY <1>0 DEF ReadHead, Known, Positions, Typed, Unread
  <2>3. n \in 1 .. Len(Stream(c)) /\ local[c].taken + n <= sent[c]
    BY <1>0, <2>1, <2>2, ReadSize
  <2> QED  BY <1>0, <2>3
<1>2. /\ B \in Seq(Marks(c)) /\ Len(Stream(c)) = Len(B) + 4 /\ Len(B) \in Nat
      /\ sent[c] \in Nat /\ sent[c] <= Len(Stream(c))
      /\ wants[c].length \in Int
  BY <1>0, StreamIs, LenProperties DEF Typed, Known, Positions, IsRequest
<1>3. /\ initial \in Seq(Marks(c)) /\ (n < 4 => initial = <<>>)
      /\ n >= 4 /\ NoZero(c) => initial = SubSeq(B, 1, n - 4)
  BY <1>0, <1>1, InitialIs
<1>4. DOMAIN local[c] = {"taken", "first", "body", "room", "registry", "route", "moves", "params"}
  BY <1>0 DEF Typed, NoLocal
<1> DEFINE Begins(b, place) == Reads(c, place, n, n, b)
<1>5. ASSUME NEW b, NEW place,
             Keeps(c, [local[c] EXCEPT !.taken = n, !.first = n, !.body = b, !.room = Buffer]), Goes(c, place)
      PROVE  Begins(b, place)
  <2> HIDE DEF n
  <2> QED  BY <1>0, <1>4, <1>5 DEF ReadHead, ThreadOnly, clientVars, Keeps, Typed, Reads
<1>6. \/ length = 0 /\ Begins(<<>>, "static")
      \/ length # 0 /\ chunked /\ Begins(initial, "chunks")
      \/ length > MaxBody /\ ~chunked /\ Begins(<<>>, "static")
      \/ length \in 1 .. MaxBody /\ ~chunked /\ Begins(Prefix(initial, length), "body")
      \/ length < 0 /\ ~chunked /\ Begins(initial, "static")
  BY <1>5 DEF ReadHead
<1> HIDE DEF n, Begins, initial
<1>7. ASSUME NEW b \in Seq(Marks(c)), NEW place \in Places \ {"connecting", "reading"}, Begins(b, place)
      PROVE  /\ Typed' /\ Alone(c) /\ gone'[c] = gone[c] /\ sent'[c] = sent[c] /\ answer'[c] = answer[c]
             /\ pc'[c] = place /\ local'[c].taken = n /\ local'[c].first = n /\ local'[c].body = b
             /\ Positions(c)'
  <2>1. n \in Nat  BY <1>1
  <2>2. /\ Typed' /\ Alone(c) /\ gone'[c] = gone[c] /\ sent'[c] = sent[c] /\ answer'[c] = answer[c]
        /\ pc'[c] = place /\ local'[c].taken = n /\ local'[c].first = n /\ local'[c].body = b
    BY <1>0, <1>7, <2>1, ReadsTyped DEF Begins
  <2>3. Positions(c)'
    BY <1>1, <1>2, <2>2 DEF Positions, Alone, Stream
  <2> QED  BY <2>2, <2>3
\* A place after the body.
<1>8. ASSUME NEW b \in Seq(Marks(c)), Begins(b, "static"), Plain(c) /\ n >= 4 => b = B
      PROVE  Typed' /\ Alone(c) /\ Known(c)'
  <2>1. "static" \in Places \ {"connecting", "reading"}  BY DEF Places
  <2>2. /\ Typed' /\ Alone(c) /\ gone'[c] = gone[c] /\ sent'[c] = sent[c] /\ answer'[c] = answer[c]
        /\ pc'[c] = "static" /\ local'[c].first = n /\ local'[c].body = b /\ Positions(c)'
    BY <1>7, <1>8, <2>1
  <2>3. Reading(c)'
    BY <2>2 DEF Reading
  <2>4. Delivered(c)'
    BY <1>0, <1>8, <2>2 DEF Delivered, Known, Alone, Plain, NoZero, Lost, Stream
  <2> QED  BY <2>2, <2>3, <2>4 DEF Known
<1>9. CASE length = 0 /\ Begins(<<>>, "static")
  <2>1. wants[c].length = 0  BY <1>9 DEF None
  <2>2. Plain(c) => <<>> = B
    BY <1>2, <2>1, EmptySeq DEF Plain
  <2>3. <<>> \in Seq(Marks(c))  BY EmptySeq
  <2> QED  BY <1>8, <1>9, <2>2, <2>3
<1>10. CASE length > MaxBody /\ Begins(<<>>, "static")
  <2>1. wants[c].length > MaxBody  BY <1>10, LimitsAssumption DEF None
  <2>2. ~Plain(c)
    BY <1>2, <2>1, LimitsAssumption DEF Plain
  <2>3. <<>> \in Seq(Marks(c))  BY EmptySeq
  <2> QED  BY <1>8, <1>10, <2>2, <2>3
<1>11. CASE length < 0 /\ Begins(initial, "static")
  <2>1. n >= 4 => n >= 3  BY <1>1
  <2>2. n >= 4 => wants[c].length < 0
    BY <1>11, <2>1
  <2>3. n >= 4 => ~Plain(c)
    BY <1>2, <2>2 DEF Plain
  <2> QED  BY <1>3, <1>8, <1>11, <2>3
<1>12. CASE chunked /\ Begins(initial, "chunks")
  <2>1. "chunks" \in Places \ {"connecting", "reading"}  BY DEF Places
  <2>2. /\ Typed' /\ Alone(c) /\ gone'[c] = gone[c] /\ sent'[c] = sent[c] /\ answer'[c] = answer[c]
        /\ pc'[c] = "chunks" /\ local'[c].taken = n /\ local'[c].first = n /\ Positions(c)'
    BY <1>3, <1>7, <1>12, <2>1
  <2>3. Reading(c)'
    BY <1>12, <2>2 DEF Reading, Alone
  <2>4. Delivered(c)'
    BY <1>0, <2>2 DEF Delivered, Known, Alone, Plain, NoZero, Lost, Stream, After
  <2> QED  BY <2>2, <2>3, <2>4 DEF Known
<1>13. CASE length \in 1 .. MaxBody /\ ~chunked /\ Begins(Prefix(initial, length), "body")
  <2>1. n >= 3 /\ wants[c].length \in 1 .. MaxBody /\ ~wants[c].chunked /\ length = wants[c].length
    BY <1>13, LimitsAssumption DEF None
  <2> DEFINE k == Min({length, Len(initial)})
             b == Prefix(initial, length)
  <2>2. Len(initial) \in Nat /\ length \in Nat
    BY <1>3, <2>1, LenProperties, LimitsAssumption
  <2>3. k \in 0 .. Len(initial) /\ k = IF length <= Len(initial) THEN length ELSE Len(initial)
    BY <2>2, MinOfTwo
  <2>4. b = SubSeq(initial, 1, k)
    BY DEF Prefix
  <2> HIDE DEF k, b, length
  <2>5. b \in Seq(Marks(c)) /\ Len(b) = k
    BY <1>3, <2>2, <2>3, <2>4, PartIs
  <2>6. "body" \in Places \ {"connecting", "reading"}  BY DEF Places
  <2>7. /\ Typed' /\ Alone(c) /\ gone'[c] = gone[c] /\ sent'[c] = sent[c] /\ answer'[c] = answer[c]
        /\ pc'[c] = "body" /\ local'[c].taken = n /\ local'[c].first = n /\ local'[c].body = b /\ Positions(c)'
    BY <1>7, <1>13, <2>5, <2>6 DEF b
  <2>8. ASSUME NoZero(c) PROVE Got(c)'
    <3>1. CASE n = 3
      <4>1. Len(initial) = 0  BY <1>3, <3>1, EmptySeq
      <4> QED  BY <2>3, <2>5, <2>7, <3>1, <4>1 DEF Got
    <3>2. CASE n >= 4
      <4>1. initial = SubSeq(B, 1, n - 4) /\ Len(initial) = n - 4
        BY <1>1, <1>2, <1>3, <2>8, <3>2, PartIs
      <4>2. CASE length < n - 4
        <5>1. k = length /\ n - 4 > length
          BY <1>1, <2>2, <2>3, <4>1, <4>2
        <5> QED  BY <2>1, <2>5, <2>7, <5>1 DEF Got, Alone
      <4>3. CASE length >= n - 4
        <5>1. k = Len(initial)
          BY <1>1, <2>2, <2>3, <4>1, <4>3
        <5>2. b = initial
          BY <1>3, <2>4, <5>1, SubSeqFull
        <5> QED  BY <2>7, <3>2, <4>1, <5>2 DEF Got, Alone
      <4> QED  BY <2>2, <1>1, <4>2, <4>3
    <3> QED  BY <1>1, <2>1, <3>1, <3>2
  <2>9. Reading(c)'
    BY <2>1, <2>7, <2>8 DEF Reading, Alone, NoZero
  <2>10. Delivered(c)'
    BY <1>0, <2>7 DEF Delivered, Known, Alone, Plain, NoZero, Lost, Stream, After
  <2> QED  BY <2>7, <2>9, <2>10 DEF Known
<1> QED  BY <1>6, <1>9, <1>10, <1>11, <1>12, <1>13

\* What a read brings.
LEMMA ChunkIs ==
  ASSUME NEW c \in Client, IsRequest(wants[c]), local[c].taken \in Nat, NEW n \in Nat, n > 0,
         local[c].taken + n <= Len(Stream(c))
  PROVE  /\ Chunk(c, n) = SubSeq(Stream(c), local[c].taken + 1, local[c].taken + n)
         /\ Chunk(c, n) \in Seq(Marks(c)) /\ Len(Chunk(c, n)) = n
         /\ Chunk(c, n)[n] = Stream(c)[local[c].taken + n]
<1> DEFINE S == Stream(c)
           t == local[c].taken
<1>1. S \in Seq(Marks(c)) /\ Len(S) \in Nat  BY StreamIs, LenProperties
<1>2. t \in Nat /\ t + n <= Len(S)  OBVIOUS
<1>3. Chunk(c, n) = SubSeq(S, t + 1, t + n)  BY DEF Chunk
<1> HIDE DEF S, t
<1>4. t + 1 \in 1 .. Len(S) + 1  BY <1>1, <1>2
<1>5. t + n \in (t + 1) - 1 .. Len(S)  BY <1>1, <1>2
<1>6. (t + n) - (t + 1) + 1 = n /\ (t + 1) - 1 + n = t + n /\ n \in 1 .. n  BY <1>2
<1>7. /\ SubSeq(S, t + 1, t + n) \in Seq(Marks(c)) /\ Len(SubSeq(S, t + 1, t + n)) = n
      /\ SubSeq(S, t + 1, t + n)[n] = S[t + n]
  BY <1>1, <1>4, <1>5, <1>6, PartIs
<1> QED  BY <1>3, <1>7 DEF S, t

\* A further read of a body of an announced length.
LEMMA ReadBodyStep ==
  ASSUME BodyInv, NEW c \in Client, ReadBody(c)
  PROVE  Typed' /\ Alone(c) /\ Known(c)'
<1> HIDE DEF NoLocal
<1> DEFINE B == wants[c].body
           l == local[c]
           m == wants[c].length - Len(l.body)
           n == Min({m, Unread(c)})
<1>0. /\ Typed /\ Known(c) /\ IsRequest(wants[c]) /\ pc[c] = "body"
      /\ wants[c].length \in 1 .. MaxBody /\ ~wants[c].chunked /\ (NoZero(c) => Got(c))
  BY DEF BodyInv, ReadBody, At, Typed, Known, Reading
<1>1. /\ B \in Seq(Marks(c)) /\ Len(Stream(c)) = Len(B) + 4 /\ Len(B) \in Nat
      /\ Stream(c) \in Seq(Marks(c)) /\ l.body \in Seq(Marks(c)) /\ Len(l.body) \in Nat
      /\ l.taken \in Nat /\ l.first \in Nat /\ sent[c] \in Nat
      /\ l.first <= l.taken /\ l.taken <= sent[c] /\ sent[c] <= Len(Stream(c))
  BY <1>0, StreamIs, LenProperties DEF Typed, Known, Positions
<1>n. /\ Len(Stream(c)) \in Nat /\ l.taken \in Nat /\ l.first \in Nat /\ sent[c] \in Nat /\ Len(l.body) \in Nat
      /\ l.first <= l.taken /\ l.taken <= sent[c] /\ sent[c] <= Len(Stream(c))
      /\ wants[c].length \in Nat
  BY <1>0, <1>1, LimitsAssumption
<1>2. m \in Nat /\ m > 0
  <2>1. ~(Len(l.body) >= wants[c].length)
    BY DEF ReadBody, Whole
  <2> QED  BY <1>n, <2>1
<1>3. n \in Nat /\ n > 0 /\ n <= m /\ l.taken + n <= sent[c]
  <2> HIDE DEF m
  <2>1. n \in 1 .. Len(Stream(c)) /\ n <= m /\ l.taken + n <= sent[c]
    BY <1>0, <1>2, ReadSize DEF ReadBody, Known
  <2> HIDE DEF n
  <2> QED  BY <1>n, <2>1
<1>4. DOMAIN l = {"taken", "first", "body", "room", "registry", "route", "moves", "params"}
  BY <1>0 DEF Typed, NoLocal
<1> DEFINE b == l.body \o Chunk(c, n)
<1>5. Reads(c, "body", l.taken + n, l.first, b)
  <2>1. local' = [local EXCEPT ![c] = [local[c] EXCEPT !.taken = @ + n, !.body = @ \o Chunk(c, n)]]
    BY DEF ReadBody, Keeps
  <2>2. UNCHANGED <<wants, sent, gone, answer>> /\ Goes(c, "body")
    BY <1>0 DEF ReadBody, ThreadOnly, clientVars, Goes, Typed
  <2> HIDE DEF n
  <2> QED  BY <1>0, <1>4, <2>1, <2>2 DEF Typed, Reads
<1> HIDE DEF n, m
<1>6. /\ Chunk(c, n) = SubSeq(Stream(c), l.taken + 1, l.taken + n)
      /\ Chunk(c, n) \in Seq(Marks(c)) /\ Len(Chunk(c, n)) = n
  <2>1. l.taken + n <= Len(Stream(c))  BY <1>n, <1>3
  <2> QED  BY <1>0, <1>n, <1>3, <2>1, ChunkIs
<1>7. b \in Seq(Marks(c)) /\ Len(b) = Len(l.body) + n
  <2> DEFINE s == l.body
             u == Chunk(c, n)
  <2>1. s \in Seq(Marks(c))  BY <1>1
  <2>2. u \in Seq(Marks(c)) /\ Len(u) = n  BY <1>6
  <2> HIDE DEF s, u
  <2>3. s \o u \in Seq(Marks(c)) /\ Len(s \o u) = Len(s) + Len(u)
    BY <2>1, <2>2, Joined
  <2> QED  BY <2>2, <2>3 DEF s, u
<1>8. "body" \in Places /\ l.taken + n \in Nat
  BY <1>1, <1>3 DEF Places
<1>9. /\ Typed' /\ Alone(c) /\ sent'[c] = sent[c] /\ gone'[c] = gone[c] /\ answer'[c] = answer[c]
      /\ pc'[c] = "body" /\ local'[c].taken = l.taken + n /\ local'[c].first = l.first /\ local'[c].body = b
  <2> HIDE DEF b, l
  <2>1. l.first \in Nat  BY <1>1
  <2> QED  BY <1>0, <1>5, <1>7, <1>8, <2>1, ReadsTyped
<1> HIDE DEF b
<1>10. Positions(c)'
  BY <1>1, <1>3, <1>9 DEF Positions, Alone, Stream
<1>11. ASSUME NoZero(c) PROVE Got(c)'
  <2>1. CASE l.first = 3 /\ Len(l.body) = l.taken - 3
    <3>1. Len(l.body) + n = (l.taken + n) - 3
      BY <1>n, <1>3, <2>1
    <3> QED  BY <1>7, <1>9, <2>1, <3>1 DEF Got
  <2>2. CASE l.first >= 4 /\ l.body = SubSeq(B, 1, l.taken - 4)
    <3>1. b = SubSeq(B, 1, (l.taken + n) - 4)
      <4>1. l.taken + n \in Nat /\ l.taken <= l.taken + n
        BY <1>n, <1>3
      <4>2. 4 <= l.taken
        BY <1>n, <2>2
      <4>3. l.taken + n <= Len(Stream(c))
        BY <1>n, <1>3
      <4>4. SubSeq(B, 1, l.taken - 4) \o SubSeq(Stream(c), l.taken + 1, l.taken + n) = SubSeq(B, 1, (l.taken + n) - 4)
        BY <1>0, <1>n, <4>1, <4>2, <4>3, StreamPart
      <4> QED  BY <1>6, <2>2, <4>4 DEF b
    <3> QED  BY <1>9, <2>2, <3>1 DEF Got, Alone
  <2>3. CASE Len(l.body) = wants[c].length
    BY <1>0, <1>2, <2>3, LimitsAssumption DEF m
  <2> QED  BY <1>0, <1>11, <2>1, <2>2, <2>3 DEF Got
<1>12. Reading(c)'
  BY <1>0, <1>9, <1>11 DEF Reading, Alone, NoZero
<1>13. Delivered(c)'
  BY <1>0, <1>9 DEF Delivered, Known, Alone, Plain, NoZero, Lost, Stream, After
<1> QED  BY <1>9, <1>10, <1>12, <1>13 DEF Known

\* What every place knows of numbers.
LEMMA NumbersAre ==
  ASSUME Typed, NEW c \in Client, Positions(c)
  PROVE  /\ IsRequest(wants[c]) /\ sent[c] \in Nat /\ gone[c] \in BOOLEAN
         /\ wants[c].body \in Seq(Marks(c)) /\ Len(wants[c].body) \in Nat
         /\ Len(Stream(c)) = Len(wants[c].body) + 4
         /\ local[c].taken \in Nat /\ local[c].first \in Nat /\ local[c].body \in Seq(Marks(c))
         /\ Len(local[c].body) \in Nat
         /\ local[c].first <= local[c].taken /\ local[c].taken <= sent[c]
         /\ sent[c] <= Len(wants[c].body) + 4
BY StreamIs, LenProperties DEF Typed, Positions

\* The thread moves on without touching what it has read.
LEMMA MovesTyped ==
  ASSUME Typed, NEW c \in Client, NEW place \in Places, Goes(c, place),
         UNCHANGED <<wants, sent, gone, local, answer>>
  PROVE  Typed' /\ Alone(c) /\ pc'[c] = place
<1>1. pc' \in [Client -> Places] /\ pc'[c] = place /\ \A d \in Client \ {c} : pc'[d] = pc[d]
  BY DEF Goes, Typed
<1> QED  BY <1>1 DEF Typed, Alone, Same, Marks

\* The body is whole, or the client has gone before he sent it.
LEMMA BodyEndsStep ==
  ASSUME BodyInv, NEW c \in Client, BodyEnds(c)
  PROVE  Typed' /\ Alone(c) /\ Known(c)'
<1> DEFINE B == wants[c].body
           l == local[c]
<1>0. /\ Typed /\ Known(c) /\ Positions(c) /\ pc[c] = "body"
      /\ wants[c].length \in 1 .. MaxBody /\ (NoZero(c) => Got(c))
  BY DEF BodyInv, BodyEnds, At, Known, Reading
<1>1. /\ UNCHANGED <<wants, sent, gone, local, answer>> /\ Goes(c, "static")
  BY DEF BodyEnds, ThreadOnly, clientVars
<1>2. Typed' /\ Alone(c) /\ pc'[c] = "static"
  <2>1. "static" \in Places  BY DEF Places
  <2> QED  BY <1>0, <1>1, <2>1, MovesTyped
<1>3. ASSUME Plain(c), l.first >= 4 PROVE l.body = B \/ Lost(c)
  <2>1. /\ B \in Seq(Marks(c)) /\ Len(B) \in Nat /\ Len(Stream(c)) = Len(B) + 4
        /\ l.taken \in Nat /\ l.first \in Nat /\ l.first <= l.taken /\ sent[c] \in Nat
        /\ l.taken <= sent[c] /\ sent[c] <= Len(B) + 4
    BY <1>0, NumbersAre
  <2>2. l.body = SubSeq(B, 1, l.taken - 4)
    <3>1. wants[c].length = Len(B) /\ NoZero(c)
      BY <1>3 DEF Plain
    <3> QED  BY <1>0, <1>3, <2>1, <3>1 DEF Got
  <2>3. Len(l.body) = l.taken - 4
    <3>1. 1 \in 1 .. Len(B) + 1 /\ l.taken - 4 \in 1 - 1 .. Len(B)
      BY <1>3, <2>1
    <3> QED  BY <2>1, <2>2, <3>1, PartIs
  <2>4. ASSUME l.taken = Len(B) + 4 PROVE l.body = B
    <3>1. l.taken - 4 = Len(B)  BY <2>1, <2>4
    <3> QED  BY <2>1, <2>2, <3>1, SubSeqFull
  <2>5. CASE Whole(c)
    <3>1. l.taken = Len(B) + 4
      BY <1>3, <2>1, <2>3, <2>5 DEF Whole, Plain
    <3> QED  BY <2>4, <3>1
  <2>6. CASE Unread(c) = 0 /\ gone[c]
    <3>1. l.taken = sent[c]
      BY <2>1, <2>6 DEF Unread
    <3> QED  BY <2>1, <2>4, <2>6, <3>1 DEF Lost
  <2> QED  BY <2>5, <2>6 DEF BodyEnds
<1>4. Positions(c)'
  BY <1>0, <1>1, <1>2 DEF Positions, Stream
<1>5. Reading(c)'
  BY <1>2 DEF Reading
<1>6. Delivered(c)'
  BY <1>0, <1>1, <1>3 DEF Delivered, Known, Plain, NoZero, Lost, Stream
<1> QED  BY <1>2, <1>4, <1>5, <1>6 DEF Known

LEMMA ReadChunkStep ==
  ASSUME BodyInv, NEW c \in Client, ReadChunk(c)
  PROVE  Typed' /\ Alone(c) /\ Known(c)'
<1> HIDE DEF NoLocal
<1> DEFINE l == local[c]
           n == Min({Buffer - 1, Unread(c)})
           body == l.body \o Chunk(c, n)
<1>0. Typed /\ Known(c) /\ Positions(c) /\ pc[c] = "chunks" /\ wants[c].chunked
  BY DEF BodyInv, ReadChunk, At, Known, Reading
<1>1. /\ IsRequest(wants[c]) /\ l.taken \in Nat /\ l.first \in Nat /\ l.first <= l.taken
      /\ l.body \in Seq(Marks(c)) /\ Len(l.body) \in Nat
  BY <1>0, NumbersAre
<1>2. Len(Stream(c)) \in Nat /\ sent[c] <= Len(Stream(c)) /\ sent[c] \in Nat
  BY <1>0, NumbersAre DEF Positions
<1>3. n \in Nat /\ n > 0 /\ l.taken + n <= sent[c]
  <2>1. Buffer - 1 \in Nat /\ Buffer - 1 > 0  BY LimitsAssumption
  <2>2. n \in 1 .. Len(Stream(c)) /\ l.taken + n <= sent[c]
    BY <1>0, <2>1, ReadSize DEF ReadChunk
  <2> HIDE DEF n
  <2> QED  BY <1>2, <2>2
<1>4. PICK over \in BOOLEAN : \E room :
        /\ Keeps(c, [l EXCEPT !.taken = @ + n, !.room = room, !.body = IF over THEN <<>> ELSE body])
        /\ Goes(c, IF over \/ Last(body) = LastChunk THEN "static" ELSE "chunks")
  BY DEF ReadChunk
<1>5. UNCHANGED <<wants, sent, gone, answer>>
  BY DEF ReadChunk, ThreadOnly, clientVars
<1> HIDE DEF n
<1>6. /\ Chunk(c, n) \in Seq(Marks(c)) /\ Len(Chunk(c, n)) = n /\ Chunk(c, n)[n] = Stream(c)[l.taken + n]
  <2>1. l.taken + n <= Len(Stream(c))  BY <1>1, <1>2, <1>3
  <2> QED  BY <1>1, <1>3, <2>1, ChunkIs
<1>7. body \in Seq(Marks(c)) /\ Last(body) = Stream(c)[l.taken + n]
  <2> DEFINE s == l.body
             u == Chunk(c, n)
  <2>1. s \in Seq(Marks(c)) /\ Len(s) \in Nat  BY <1>1
  <2>2. u \in Seq(Marks(c)) /\ Len(u) = n  BY <1>6
  <2> HIDE DEF s, u
  <2>3. s \o u \in Seq(Marks(c)) /\ Len(s \o u) = Len(s) + Len(u)
    BY <2>1, <2>2, Joined
  <2>4. (s \o u)[n + Len(s)] = u[n]
    BY <1>3, <2>1, <2>2, Joined
  <2>5. Last(s \o u) = u[n]
    BY <1>3, <2>1, <2>2, <2>3, <2>4 DEF Last
  <2> QED  BY <1>6, <2>3, <2>5 DEF s, u
<1> HIDE DEF body
<1> DEFINE b == IF over THEN <<>> ELSE body
           place == IF over \/ Last(body) = LastChunk THEN "static" ELSE "chunks"
<1>8. Reads(c, place, l.taken + n, l.first, b)
  <2>1. DOMAIN l = {"taken", "first", "body", "room", "registry", "route", "moves", "params"}
    BY <1>0 DEF Typed, NoLocal
  <2> QED  BY <1>0, <1>4, <1>5, <2>1 DEF Typed, Reads, Keeps
<1>9. b \in Seq(Marks(c)) /\ place \in Places /\ l.taken + n \in Nat
  BY <1>1, <1>3, <1>7, EmptySeq DEF Places
<1>10. place \in {"static", "chunks"} /\ (place = "chunks" => Last(body) # LastChunk)
  OBVIOUS
<1> HIDE DEF b, place
<1>11. /\ Typed' /\ Alone(c) /\ sent'[c] = sent[c] /\ gone'[c] = gone[c] /\ answer'[c] = answer[c]
       /\ pc'[c] = place /\ local'[c].taken = l.taken + n /\ local'[c].first = l.first
  BY <1>0, <1>1, <1>8, <1>9, ReadsTyped
<1>12. Positions(c)'
  BY <1>1, <1>2, <1>3, <1>10, <1>11 DEF Positions, Alone, Stream
<1>13. Reading(c)'
  <2>1. place = "chunks" => l.taken + n < Len(Stream(c)) \/ Last(Stream(c)) # LastChunk
    BY <1>1, <1>2, <1>3, <1>7, <1>10 DEF Last
  <2> QED  BY <1>0, <1>10, <1>11, <2>1 DEF Reading, Alone, Stream
<1>14. Delivered(c)'
  BY <1>0, <1>11 DEF Delivered, Alone, Plain
<1> QED  BY <1>11, <1>12, <1>13, <1>14 DEF Known

LEMMA ChunksEndStep ==
  ASSUME BodyInv, NEW c \in Client, ChunksEnd(c)
  PROVE  Typed' /\ Alone(c) /\ Known(c)'
<1>0. Typed /\ Known(c) /\ Positions(c) /\ pc[c] = "chunks" /\ wants[c].chunked /\ "static" \in Places
  BY DEF BodyInv, ChunksEnd, At, Known, Reading, Places
<1>1. UNCHANGED <<wants, sent, gone, local, answer>> /\ Goes(c, "static")
  BY DEF ChunksEnd, ThreadOnly, clientVars
<1>2. Typed' /\ Alone(c) /\ pc'[c] = "static"
  BY <1>0, <1>1, MovesTyped
<1> QED
  BY <1>0, <1>1, <1>2 DEF Known, Positions, Reading, Delivered, Plain, Stream

LEMMA AcceptStep ==
  ASSUME BodyInv, NEW c \in Client, Accept(c)
  PROVE  Typed' /\ Alone(c) /\ Known(c)'
<1>0. Typed /\ Known(c) /\ pc[c] = "connecting" /\ "reading" \in Places
  BY DEF BodyInv, Accept, At, Places
<1>1. UNCHANGED <<wants, sent, gone, local, answer>> /\ Goes(c, "reading")
  BY DEF Accept, clientVars
<1>2. Typed' /\ Alone(c) /\ pc'[c] = "reading"
  BY <1>0, <1>1, MovesTyped
<1> QED
  BY <1>0, <1>1, <1>2 DEF Known, Positions, Reading, Delivered, Plain, NoZero, Lost, Stream, After

\* The handler is called with the body, up to a zero byte, or there is none to call.
LEMMA CallStep ==
  ASSUME BodyInv, NEW c \in Client, Call(c)
  PROVE  Typed' /\ Alone(c) /\ Known(c)'
<1>0. Typed /\ Known(c) /\ Positions(c) /\ pc[c] = "calling"
  BY DEF BodyInv, Call, At, Known
<1>1. UNCHANGED <<wants, sent, gone, local>>
  BY DEF Call, ThreadOnly, clientVars
<1>2. PICK place \in {"running", "closed"}, a \in {answer'[c]} :
        /\ answer' = [answer EXCEPT ![c] = a] /\ Goes(c, place)
        /\ \/ a.kind # "handler"
           \/ a.fields = (local[c].first >= 4) /\ a.body = ToZero(local[c].body)
  <2>1. Len(Head4) = 4  BY DEF Head4
  <2>2. CASE vm /\ Chosen(c).handler \in globals
    <3> DEFINE a == [kind |-> "handler", handler |-> Chosen(c).handler, params |-> local[c].params,
                     query |-> Query(wants[c].query), fields |-> local[c].first >= Len(Head4),
                     body |-> ToZero(local[c].body)]
    <3>1. answer' = [answer EXCEPT ![c] = a] /\ Goes(c, "running")
      BY <2>2 DEF Call
    <3>2. a.fields = (local[c].first >= 4) /\ a.body = ToZero(local[c].body)
      BY <2>1
    <3> HIDE DEF a
    <3>3. answer'[c] = a
      BY <1>0, <3>1 DEF Typed
    <3> QED  BY <3>1, <3>2, <3>3
  <2>3. CASE ~(vm /\ Chosen(c).handler \in globals)
    <3>1. answer' = [answer EXCEPT ![c] = [kind |-> "500"]] /\ Goes(c, "closed") /\ [kind |-> "500"].kind # "handler"
      BY <2>3 DEF Call, Answers
    <3>2. answer'[c] = [kind |-> "500"]
      BY <1>0, <3>1 DEF Typed
    <3> QED  BY <3>1, <3>2
  <2> QED  BY <2>2, <2>3
<1>3. /\ pc' \in [Client -> Places] /\ pc'[c] = place /\ answer'[c] = a /\ DOMAIN answer' = Client
      /\ \A d \in Client \ {c} : pc'[d] = pc[d] /\ answer'[d] = answer[d]
  BY <1>0, <1>2 DEF Typed, Goes, Places
<1>4. Typed' /\ Alone(c)
  BY <1>0, <1>1, <1>3 DEF Typed, Alone, Same, Marks
<1>5. Positions(c)' /\ Reading(c)'
  BY <1>0, <1>1, <1>3 DEF Positions, Reading, Stream
<1>6. Delivered(c)'
  <2>1. SUFFICES ASSUME Plain(c), a.kind = "handler", a.fields PROVE a.body = wants[c].body \/ Lost(c)
    BY <1>1, <1>3 DEF Delivered, Plain, NoZero, Lost, Stream, After
  <2>2. local[c].first >= 4 /\ a.body = ToZero(local[c].body)
    BY <1>2, <2>1
  <2>3. local[c].body = wants[c].body \/ Lost(c)
    BY <1>0, <2>1, <2>2 DEF Known, Delivered, After
  <2>4. ToZero(wants[c].body) = wants[c].body
    BY <2>1, ToZeroIs DEF Plain, NoZero
  <2> QED  BY <2>2, <2>3, <2>4
<1> QED  BY <1>4, <1>5, <1>6 DEF Known

LEMMA SendStep ==
  ASSUME BodyInv, NEW c \in Client, Send(c)
  PROVE  Typed' /\ Alone(c) /\ Known(c)'
<1>0. Typed /\ Known(c) /\ Positions(c) /\ ~gone[c] /\ pc[c] # "connecting"
  BY DEF BodyInv, Send, Known
<1>1. UNCHANGED <<wants, gone, pc, local, answer>>
  BY DEF Send
<1>2. PICK n \in wants[c].cuts \cup {Len(Stream(c))} : n > sent[c] /\ sent' = [sent EXCEPT ![c] = n]
  BY DEF Send
<1>3. n \in Nat /\ n <= Len(Stream(c))
  BY <1>0, NumbersAre DEF IsRequest
<1>4. /\ sent' \in [Client -> Nat] /\ sent'[c] = n /\ \A d \in Client \ {c} : sent'[d] = sent[d]
  BY <1>0, <1>2, <1>3 DEF Typed
<1>5. Typed' /\ Alone(c)
  BY <1>0, <1>1, <1>4 DEF Typed, Alone, Same, Marks
<1>6. Positions(c)'
  <2>1. local[c].taken <= n
    BY <1>0, <1>2, <1>3, NumbersAre
  <2> QED  BY <1>0, <1>1, <1>3, <1>4, <2>1 DEF Positions, Stream
<1>7. Reading(c)'
  BY <1>0, <1>1 DEF Known, Reading, NoZero, Got, Stream
<1>8. Delivered(c)'
  BY <1>0, <1>1 DEF Known, Delivered, Plain, NoZero, Lost
<1> QED  BY <1>5, <1>6, <1>7, <1>8 DEF Known

LEMMA HangUpStep ==
  ASSUME BodyInv, NEW c \in Client, HangUp(c)
  PROVE  Typed' /\ Alone(c) /\ Known(c)'
<1>0. Typed /\ Known(c) /\ ~gone[c]
  BY DEF BodyInv, HangUp
<1>1. UNCHANGED <<wants, sent, pc, local, answer>> /\ gone' = [gone EXCEPT ![c] = TRUE]
  BY DEF HangUp
<1>2. Typed' /\ Alone(c)
  BY <1>0, <1>1 DEF Typed, Alone, Same, Marks
<1>3. Positions(c)' /\ Reading(c)'
  BY <1>0, <1>1 DEF Known, Positions, Reading, NoZero, Got, Stream
<1>4. Delivered(c)'
  BY <1>0, <1>1 DEF Known, Delivered, Plain, NoZero, Lost
<1> QED  BY <1>2, <1>3, <1>4 DEF Known

LEMMA ScriptStays ==
  ASSUME ScriptStep
  PROVE  UNCHANGED <<wants, sent, gone, pc, local, answer>>
<1>1. ServerOnly
  BY DEF ScriptStep, Interpret, Define, StartServer, SetVm, StaticAdd, FindNoRegistry, MakeRegistry, Register,
         AskFind, AskList, AskParams, BridgeInvoke, Tells, ScriptOnly
<1> QED  BY <1>1 DEF ServerOnly, clientVars

LEMMA BodyStays == BodyInv /\ [Next]_vars => BodyInv'
<1> SUFFICES ASSUME BodyInv, [Next]_vars PROVE BodyInv'
  OBVIOUS
<1>1. CASE ScriptStep \/ UNCHANGED vars
  <2>1. UNCHANGED <<wants, sent, gone, pc, local, answer>>
    BY <1>1, ScriptStays DEF vars, clientVars
  <2>2. Typed'
    BY <2>1 DEF BodyInv, Typed, Marks
  <2>3. \A c \in Client : Same(c)
    BY <2>1 DEF Same
  <2> QED  BY <2>2, <2>3, SameKnown DEF BodyInv
<1>2. ASSUME NEW c \in Client, Send(c) \/ HangUp(c) \/ ThreadStep(c)
      PROVE  BodyInv'
  <2>1. Typed' /\ Alone(c) /\ Known(c)'
    <3>1. CASE \/ AnswerStatic(c) \/ NotStatic(c) \/ Create(c) \/ Find(c) \/ UseMoved(c) \/ Extract(c)
               \/ HandlerReturns(c)
      BY <3>1, LaterStep, OnwardKnown DEF BodyInv, Onward
    <3>2. CASE Send(c) \/ HangUp(c) \/ Accept(c) \/ Call(c)
      BY <3>2, SendStep, HangUpStep, AcceptStep, CallStep
    <3>3. CASE ReadNothing(c) \/ ReadHead(c) \/ ReadBody(c)
      BY <3>3, ReadNothingStep, ReadHeadStep, ReadBodyStep
    <3>4. CASE BodyEnds(c) \/ ReadChunk(c) \/ ChunksEnd(c)
      BY <3>4, BodyEndsStep, ReadChunkStep, ChunksEndStep
    <3> QED  BY <1>2, <3>1, <3>2, <3>3, <3>4 DEF ThreadStep
  <2> QED  BY <2>1, AloneIsEnough
<1> QED  BY <1>1, <1>2 DEF Next

-----------------------------------------------------------------------------
(* Theorems *)

\* The bytes sent, those taken off the socket and the body made of them agree.
THEOREM BodiesAgree == Spec => []BodyInv
BY BodyStarts, BodyStays, PTL DEF Spec

\* However the network cuts a request, the handler gets the body that was announced.
THEOREM BodyIsWhole == Spec => []BodyArrives
<1>1. BodyInv => BodyArrives
  <2> SUFFICES ASSUME BodyInv, NEW c \in Client,
                      answer[c].kind = "handler", answer[c].fields, ~wants[c].chunked,
                      wants[c].length = Len(wants[c].body), Len(wants[c].body) <= MaxBody,
                      ~Contains(wants[c].body, Zero), sent[c] = Len(Stream(c))
               PROVE  answer[c].body = wants[c].body
    BY DEF BodyArrives
  <2>1. Typed /\ Known(c) /\ Plain(c)
    BY DEF BodyInv, Plain, NoZero
  <2>2. answer[c].body = wants[c].body \/ Lost(c)
    BY <2>1 DEF Known, Delivered
  <2>3. ~Lost(c)
    BY <2>1, NumbersAre DEF Lost, Known
  <2> QED  BY <2>2, <2>3
<1> QED  BY <1>1, BodiesAgree, PTL

\* No thread waits for a byte of a request that it has already taken.
THEOREM ReadsAreForMore == Spec => []NoReadInVain
<1>1. BodyInv => NoReadInVain
  <2> SUFFICES ASSUME BodyInv, NEW c \in Client, sent[c] = Len(Stream(c)), NoZero(c),
                      wants[c].chunked => local[c].first < Len(Stream(c)) /\ LastChunk = Last(Stream(c)),
                      ~wants[c].chunked => wants[c].length <= Len(wants[c].body) \/ wants[c].length > MaxBody
               PROVE  /\ pc[c] \in {"reading", "chunks"} => Unread(c) > 0
                      /\ pc[c] = "body" => Unread(c) > 0 \/ Whole(c)
    BY DEF NoReadInVain, NoZero
  <2> DEFINE B == wants[c].body
             l == local[c]
  <2>1. Typed /\ Known(c) /\ Positions(c) /\ Reading(c)
    BY DEF BodyInv, Known
  <2>2. /\ B \in Seq(Marks(c)) /\ Len(B) \in Nat /\ Len(Stream(c)) = Len(B) + 4
        /\ l.taken \in Nat /\ l.first \in Nat /\ l.first <= l.taken /\ l.taken <= Len(B) + 4
        /\ Len(l.body) \in Nat /\ sent[c] = Len(B) + 4
    BY <2>1, NumbersAre
  <2>3. Unread(c) = (Len(B) + 4) - l.taken
    BY <2>2 DEF Unread
  <2>4. ASSUME pc[c] = "reading" PROVE Unread(c) > 0
    BY <2>1, <2>2, <2>3, <2>4 DEF Positions
  <2>5. ASSUME pc[c] = "chunks" PROVE Unread(c) > 0
    BY <2>1, <2>2, <2>3, <2>5 DEF Reading
  <2>6. ASSUME pc[c] = "body", Unread(c) = 0 PROVE Whole(c)
    <3>1. wants[c].length \in 1 .. MaxBody /\ wants[c].length <= Len(B) /\ Got(c)
      BY <2>1, <2>6, LimitsAssumption DEF Reading
    <3>2. l.taken = Len(B) + 4
      BY <2>2, <2>3, <2>6
    <3>3. CASE l.first = 3 /\ Len(l.body) = l.taken - 3
      BY <2>2, <3>1, <3>2, <3>3, LimitsAssumption DEF Whole
    <3>4. CASE l.body = SubSeq(B, 1, l.taken - 4)
      <4>1. l.body = B
        BY <2>2, <3>2, <3>4, SubSeqFull
      <4> QED  BY <2>2, <3>1, <4>1, LimitsAssumption DEF Whole
    <3>5. CASE Len(l.body) = wants[c].length
      BY <3>1, <3>5, LimitsAssumption DEF Whole
    <3> QED  BY <3>1, <3>3, <3>4, <3>5 DEF Got
  <2> QED  BY <2>2, <2>3, <2>4, <2>5, <2>6
<1> QED  BY <1>1, BodiesAgree, PTL

-----------------------------------------------------------------------------
(* The second inductive invariant: what a thread and an answer have to do  *)
(* with the routes and mounts, which the script's thread goes on adding.   *)

Declared == UNION {Range(RoutesOf(entity)) : entity \in Loaded}
Callable == Given \cup Declared \cup {[call |-> "setVm"]}
Mountable == {[prefix |-> x.prefix, directory |-> x.directory] : x \in {y \in Given : y.call = "mount"}}
Routable == {x.route : x \in {y \in Callable : y.call = "register"}}
Registry == [routes : Seq(Routable), capacity : Nat, moves : Nat]

ScriptTyped ==
    /\ script \in Seq(Callable) /\ metadata \in Seq(Loaded)
    /\ mounts \in Seq(Mountable) /\ vm \in BOOLEAN
    /\ registries \in Seq(Registry)
    /\ current \in 0 .. Len(registries) /\ held \in 0 .. Len(registries)
    /\ registries # <<>> => current # 0
ThreadsTyped ==
    /\ DOMAIN pc = Client /\ DOMAIN local = Client /\ DOMAIN answer = Client /\ DOMAIN seen = Client
    /\ \A c \in Client :
         /\ IsRequest(wants[c])
         /\ DOMAIN local[c] = DOMAIN NoLocal
         /\ seen[c].mounts \in Nat /\ seen[c].routes \in Nat
         /\ answer[c].kind \in {"none", "file", "404", "500", "handler"}
RouteTyped == ScriptTyped /\ ThreadsTyped

OneRegistry == Len(registries) <= 1
Fitting(c) == {i \in DOMAIN Configured : Fits(Configured[i], wants[c].method, wants[c].path)}
IsFirst(i, S) == i \in S /\ \A j \in S : i <= j
ParamsOf(i, c) == ExtractParams(Configured[i].path, wants[c].path)

Saw(c) ==
    /\ seen[c].mounts <= Len(mounts)
    /\ OneRegistry => seen[c].routes <= Len(Configured)
    /\ seen[c].ready \subseteq globals /\ (seen[c].ready # {} => vm)

Looking(c) ==
    /\ pc[c] = "connecting" => answer[c].kind = "none"
    /\ pc[c] \in {"finding", "extracting", "calling"} => local[c].registry \in 1 .. Len(registries)
    /\ OneRegistry /\ pc[c] \in {"extracting", "calling"} => IsFirst(local[c].route, Fitting(c))
    /\ OneRegistry /\ pc[c] = "calling" => local[c].params = ParamsOf(local[c].route, c)

Told(c) ==
    OneRegistry =>
      /\ answer[c].kind = "handler" =>
           \E i \in Fitting(c) : /\ IsFirst(i, Fitting(c)) /\ answer[c].handler = Configured[i].handler
                                 /\ answer[c].params = ParamsOf(i, c)
      /\ answer[c].kind = "500" =>
           \E i \in Fitting(c) : IsFirst(i, Fitting(c)) /\ Configured[i].handler \notin seen[c].ready
      /\ answer[c].kind = "404" => \A i \in Fitting(c) : i > seen[c].routes

\* No file answers, and none will.
NotServed(c) ==
    pc[c] \in {"creating", "finding", "extracting", "calling"} \/ answer[c].kind \in {"404", "500", "handler"}
Filed(c) ==
    /\ NotServed(c) /\ wants[c].method = "GET" => \A m \in Opening(wants[c].path) : m > seen[c].mounts
    /\ answer[c].kind = "file" =>
         /\ wants[c].method = "GET"
         /\ \E m \in Opening(wants[c].path) : /\ IsFirst(m, Opening(wants[c].path))
                                              /\ answer[c].try.directory = mounts[m].directory

RouteKnown(c) == Saw(c) /\ Looking(c) /\ Told(c) /\ Filed(c)
RouteInv == RouteTyped /\ \A c \in Client : RouteKnown(c)

-----------------------------------------------------------------------------
(* Positions in order *)

Count(I, i) == Cardinality({j \in I : j <= i})

LEMMA CountIs ==
  ASSUME NEW I \in SUBSET Nat, IsFiniteSet(I), NEW i \in I
  PROVE  /\ Count(I, i) \in 1 .. Cardinality(I)
         /\ \A k \in I : i < k => Count(I, i) < Count(I, k)
<1> DEFINE Upto(k) == {j \in I : j <= k}
<1>1. \A k \in I : /\ IsFiniteSet(Upto(k)) /\ Cardinality(Upto(k)) \in Nat
                   /\ Cardinality(Upto(k)) <= Cardinality(I)
  BY FS_Subset, FS_CardinalityType
<1>2. i \in Upto(i)  OBVIOUS
<1>3. Cardinality(Upto(i)) # 0
  BY <1>1, <1>2, FS_EmptySet
<1>4. ASSUME NEW k \in I, i < k PROVE Cardinality(Upto(i)) < Cardinality(Upto(k))
  <2>0. i \in Nat /\ k \in Nat /\ \A j \in I : j \in Nat
    OBVIOUS
  <2>1. Upto(i) \in SUBSET Upto(k) /\ k \in Upto(k) /\ k \notin Upto(i)
    <3>1. (\A j \in I : j <= i => j <= k) /\ k <= k /\ ~(k <= i)
      BY <1>4, <2>0
    <3> QED  BY <3>1
  <2>2. Cardinality(Upto(i)) <= Cardinality(Upto(k)) /\ Cardinality(Upto(i)) # Cardinality(Upto(k))
    BY <1>1, <2>1, FS_Subset
  <2> QED  BY <1>1, <2>2
<1>5. Cardinality(I) \in Nat  BY FS_CardinalityType
<1> QED  BY <1>1, <1>3, <1>4, <1>5 DEF Count

\* The position that so many precede.
LEMMA NthIs ==
  ASSUME NEW I \in SUBSET Nat, IsFiniteSet(I), NEW i \in I
  PROVE  Nth(I, Count(I, i)) = i
<1>1. \A k \in I : Count(I, k) = Count(I, i) => k = i
  <2>1. ASSUME NEW k \in I, Count(I, k) = Count(I, i), k # i PROVE FALSE
    <3>1. Count(I, i) \in Nat /\ Count(I, k) \in Nat
      BY CountIs, FS_CardinalityType
    <3>2. i < k \/ k < i  BY <2>1
    <3> QED  BY <2>1, <3>1, <3>2, CountIs
  <2> QED  BY <2>1
<1>2. Nth(I, Count(I, i)) = CHOOSE k \in I : Count(I, k) = Count(I, i)
  BY DEF Nth, Count
<1> QED  BY <1>1, <1>2

\* There is one for each number.
LEMMA NthIn ==
  ASSUME NEW I \in SUBSET Nat, IsFiniteSet(I), NEW k \in 1 .. Cardinality(I)
  PROVE  Nth(I, k) \in I /\ Count(I, Nth(I, k)) = k
<1> DEFINE n == Cardinality(I)
           f == [i \in I |-> Count(I, i)]
<1>0. n \in Nat  BY FS_CardinalityType
<1>1. f \in Injection(I, 1 .. n)
  <2>1. f \in [I -> 1 .. n]  BY CountIs
  <2>2. ASSUME NEW i \in I, NEW j \in I, f[i] = f[j] PROVE i = j
    <3>1. Count(I, i) = Count(I, j)  BY <2>2
    <3> QED  BY <3>1, NthIs
  <2> QED  BY <2>1, <2>2 DEF Injection, IsInjective
<1>2. IsFiniteSet(1 .. n) /\ Cardinality(1 .. n) = n
  BY <1>0, FS_Interval
<1>3. f \in Surjection(I, 1 .. n)
  <2> HIDE DEF f
  <2> QED  BY <1>1, <1>2, FS_Injection
<1>4. PICK i \in I : f[i] = k
  BY <1>3 DEF Surjection
<1>5. Count(I, i) = k  BY <1>4
<1> QED  BY <1>5, NthIs

LEMMA SeqOfFunction ==
  ASSUME NEW S, NEW n \in Nat, NEW f \in [1 .. n -> S]
  PROVE  f \in Seq(S) /\ Len(f) = n
<1>1. f \in Seq(S)  BY SeqDef
<1> QED  BY <1>1, LenProperties

\* The elements at some positions.
LEMMA PickedIs ==
  ASSUME NEW S, NEW s \in Seq(S), NEW I \in SUBSET (1 .. Len(s))
  PROVE  /\ IsFiniteSet(I) /\ Cardinality(I) \in Nat /\ I \in SUBSET Nat
         /\ Picked(s, I) \in Seq(S) /\ Len(Picked(s, I)) = Cardinality(I)
         /\ \A k \in 1 .. Cardinality(I) : Picked(s, I)[k] = s[Nth(I, k)]
<1>1. Len(s) \in Nat  BY LenProperties
<1>2. IsFiniteSet(I) /\ Cardinality(I) \in Nat /\ I \in SUBSET Nat
  <2>1. IsFiniteSet(1 .. Len(s))  BY <1>1, FS_Interval
  <2>2. IsFiniteSet(I)  BY <2>1, FS_Subset
  <2> QED  BY <1>1, <2>2, FS_CardinalityType
<1> DEFINE n == Cardinality(I)
<1>3. \A k \in 1 .. n : s[Nth(I, k)] \in S
  BY <1>2, NthIn, ElementOfSeq
<1>4. Picked(s, I) = [k \in 1 .. n |-> s[Nth(I, k)]]
  BY DEF Picked
<1> HIDE DEF n
<1>5. n \in Nat  BY <1>2 DEF n
<1>6. Picked(s, I) \in [1 .. n -> S]  BY <1>3, <1>4
<1>7. Picked(s, I) \in Seq(S) /\ Len(Picked(s, I)) = n
  BY <1>5, <1>6, SeqOfFunction
<1> QED  BY <1>2, <1>4, <1>7 DEF n

-----------------------------------------------------------------------------
(* Paths and patterns *)

LEMMA SeqIsText ==
  ASSUME NEW S, NEW s \in Seq(S)
  PROVE  IsText(s)
<1>1. Len(s) \in Nat /\ DOMAIN s = 1 .. Len(s) /\ s \in [1 .. Len(s) -> S]  BY LenProperties
<1>2. s \in [1 .. Len(s) -> Range(s)]  BY <1>1 DEF Range
<1> QED  BY <1>1, <1>2, SeqOfFunction DEF IsText

LEMMA TextIs ==
  ASSUME NEW s, IsText(s)
  PROVE  Len(s) \in Nat /\ DOMAIN s = 1 .. Len(s) /\ s \in [1 .. Len(s) -> Range(s)]
BY LenProperties DEF IsText

LEMMA SplitIsText ==
  ASSUME NEW path, IsText(path)
  PROVE  IsText(SplitPath(path))
<1>1. CASE path = <<>> \/ path[1] # Slash
  <2>1. SplitPath(path) = <<>>  BY <1>1 DEF SplitPath
  <2> QED  BY <2>1, EmptySeq DEF IsText
<1>2. CASE ~(path = <<>> \/ path[1] # Slash)
  <2> DEFINE runs == [i \in 1 .. Len(path) |-> RunTo(path, i)]
  <2>1. Len(path) \in Nat  BY TextIs
  <2>2. runs \in [1 .. Len(path) -> Range(runs)]  BY DEF Range
  <2>3. runs \in Seq(Range(runs)) /\ Len(runs) = Len(path)
    <3> HIDE DEF runs
    <3> QED  BY <2>1, <2>2, SeqOfFunction
  <2>4. SplitPath(path) = Picked(runs, Ends(path))
    BY <1>2 DEF SplitPath
  <2>5. Ends(path) \in SUBSET (1 .. Len(path))
    BY DEF Ends
  <2>6. Picked(runs, Ends(path)) \in Seq(Range(runs))
    <3> HIDE DEF runs
    <3> QED  BY <2>3, <2>5, PickedIs
  <2> QED  BY <2>4, <2>6, SeqIsText
<1> QED  BY <1>1, <1>2

\* The segments of a pattern that are parameters.
ParamsIn(pattern) == {i \in DOMAIN SplitPath(pattern) : IsParam(SplitPath(pattern)[i])}

LEMMA ParamsInAre ==
  ASSUME NEW pattern, IsText(pattern)
  PROVE  /\ IsFiniteSet(ParamsIn(pattern)) /\ ParamsIn(pattern) \in SUBSET Nat
         /\ ParamsIn(pattern) \in SUBSET (1 .. Len(SplitPath(pattern)))
         /\ Cardinality(ParamsIn(pattern)) \in Nat
         /\ Cardinality(ParamsIn(pattern)) <= Len(SplitPath(pattern))
<1> DEFINE n == Len(SplitPath(pattern))
<1>1. n \in Nat /\ DOMAIN SplitPath(pattern) = 1 .. n
  BY SplitIsText, TextIs
<1>2. ParamsIn(pattern) \in SUBSET (1 .. n)
  BY <1>1 DEF ParamsIn
<1>3. IsFiniteSet(1 .. n) /\ Cardinality(1 .. n) = n
  <2> HIDE DEF n
  <2> QED  BY <1>1, FS_Interval
<1>4. IsFiniteSet(ParamsIn(pattern)) /\ Cardinality(ParamsIn(pattern)) <= n
  BY <1>2, <1>3, FS_Subset
<1> QED  BY <1>1, <1>2, <1>4, FS_CardinalityType

\* A pattern filled with the segments of a path that it fits is the path.
LEMMA FilledIs ==
  ASSUME NEW pattern, IsText(pattern), NEW segments, IsText(segments), NEW params, Len(params) \in Nat,
         Len(SplitPath(pattern)) = Len(segments), Cardinality(ParamsIn(pattern)) <= Len(params),
         \A i \in 1 .. Len(segments) :
           IF i \in ParamsIn(pattern) THEN params[Count(ParamsIn(pattern), i)][2] = segments[i]
           ELSE SplitPath(pattern)[i] = segments[i]
  PROVE  Filled(pattern, params) = segments
<1> DEFINE N == SplitPath(pattern)
           P == ParamsIn(pattern)
           before(i) == Cardinality({j \in 1 .. i : IsParam(N[j])})
<1>1. Len(N) \in Nat /\ DOMAIN N = 1 .. Len(N) /\ segments \in [1 .. Len(N) -> Range(segments)]
  BY SplitIsText, TextIs
<1>2. ASSUME NEW i \in 1 .. Len(N) PROVE before(i) = Count(P, i)
  <2>1. {j \in 1 .. i : IsParam(N[j])} = {j \in P : j <= i}
    BY <1>1 DEF ParamsIn
  <2> QED  BY <2>1 DEF Count
<1>3. ASSUME NEW i \in 1 .. Len(N)
      PROVE  (IF IsParam(N[i]) /\ before(i) <= Len(params) THEN params[before(i)][2] ELSE N[i]) = segments[i]
  <2>1. CASE i \in P
    <3>1. Count(P, i) \in 1 .. Cardinality(P) /\ Cardinality(P) \in Nat
      BY <2>1, ParamsInAre, CountIs
    <3>2. IsParam(N[i]) /\ before(i) <= Len(params)
      BY <1>2, <2>1, <3>1 DEF ParamsIn
    <3> QED  BY <1>2, <2>1, <3>2
  <2>2. CASE i \notin P
    <3>1. ~IsParam(N[i])  BY <1>1, <2>2 DEF ParamsIn
    <3> QED  BY <2>2, <3>1
  <2> QED  BY <2>1, <2>2
<1>4. Filled(pattern, params) = [i \in 1 .. Len(N) |-> IF IsParam(N[i]) /\ before(i) <= Len(params)
                                                       THEN params[before(i)][2] ELSE N[i]]
  BY <1>1 DEF Filled
<1>5. segments = [i \in 1 .. Len(N) |-> segments[i]]  BY <1>1
<1> QED  BY <1>3, <1>4, <1>5

LEMMA SameDomain ==
  ASSUME NEW s, IsText(s), NEW t, IsText(t), \A i : i \in DOMAIN s <=> i \in DOMAIN t
  PROVE  Len(s) = Len(t)
<1>1. /\ Len(s) \in Nat /\ \A i : i \in DOMAIN s <=> i \in 1 .. Len(s)
      /\ Len(t) \in Nat /\ \A i : i \in DOMAIN t <=> i \in 1 .. Len(t)
  BY TextIs
<1>2. Len(s) < Len(t) => Len(t) \in 1 .. Len(t) /\ Len(t) \notin 1 .. Len(s)  BY <1>1
<1>3. Len(t) < Len(s) => Len(s) \in 1 .. Len(s) /\ Len(s) \notin 1 .. Len(t)  BY <1>1
<1> QED  BY <1>1, <1>2, <1>3

\* A route fits exactly when some values of its parameters make it the path, and the values
\* that are extracted do.
LEMMA ServesIs ==
  ASSUME NEW route, IsText(route.path), NEW c \in Client, IsText(wants[c].path)
  PROVE  /\ MayServe(route, c) <=> Fits(route, wants[c].method, wants[c].path)
         /\ Fits(route, wants[c].method, wants[c].path)
              => Wanted(route, c, ExtractParams(route.path, wants[c].path))
<1> DEFINE pattern == route.path
           N == SplitPath(pattern)
           segments == SplitPath(wants[c].path)
           values == {<<"value", segments[i]>> : i \in DOMAIN segments}
           P == ParamsIn(pattern)
<1>1. /\ IsText(N) /\ Len(N) \in Nat /\ DOMAIN N = 1 .. Len(N)
      /\ IsText(segments) /\ Len(segments) \in Nat /\ DOMAIN segments = 1 .. Len(segments)
  BY SplitIsText, TextIs
<1>2. /\ IsFiniteSet(P) /\ P \in SUBSET Nat /\ P \in SUBSET (1 .. Len(N))
      /\ Cardinality(P) \in Nat /\ Cardinality(P) <= Len(N)
  BY ParamsInAre
<1>3. ASSUME Fits(route, wants[c].method, wants[c].path)
      PROVE  /\ route.method \in {wants[c].method, "*"} /\ Len(N) = Len(segments)
             /\ \A i \in 1 .. Len(N) : i \notin P => N[i] = segments[i]
  BY <1>1, <1>3 DEF Fits, SegmentMatches, ParamsIn
<1>4. ASSUME NEW params, Len(params) \in Nat, Cardinality(P) <= Len(params),
             Fits(route, wants[c].method, wants[c].path),
             \A i \in P : params[Count(P, i)][2] = segments[i]
      PROVE  Wanted(route, c, params)
  <2>1. /\ Len(N) = Len(segments)
        /\ \A i \in 1 .. Len(segments) : IF i \in P THEN params[Count(P, i)][2] = segments[i] ELSE N[i] = segments[i]
    BY <1>3, <1>4
  <2>2. Filled(pattern, params) = segments
    <3> HIDE DEF segments, pattern
    <3>1. IsText(pattern)  BY DEF pattern
    <3> QED  BY <1>1, <1>4, <2>1, <3>1, FilledIs
  <2> QED  BY <1>3, <1>4, <2>2 DEF Wanted
<1>5. ASSUME MayServe(route, c) PROVE Fits(route, wants[c].method, wants[c].path)
  <2>1. PICK params \in [DOMAIN N -> values] : Wanted(route, c, params)
    BY <1>5 DEF MayServe
  <2>2. route.method \in {wants[c].method, "*"} /\ Filled(pattern, params) = segments
    BY <2>1 DEF Wanted
  <2>3. DOMAIN Filled(pattern, params) = DOMAIN N /\ \A i \in DOMAIN N : IsParam(N[i]) \/ Filled(pattern, params)[i] = N[i]
    BY DEF Filled
  <2>4. Len(N) = Len(segments)
    <3>1. \A i : i \in DOMAIN N <=> i \in DOMAIN segments  BY <2>2, <2>3
    <3>2. IsText(N) /\ IsText(segments)  BY <1>1
    <3> HIDE DEF N, segments
    <3> QED  BY <3>1, <3>2, SameDomain
  <2>5. \A i \in DOMAIN N : SegmentMatches(N[i], segments[i])
    BY <2>2, <2>3 DEF SegmentMatches
  <2> QED  BY <2>2, <2>4, <2>5 DEF Fits
<1>6. ASSUME Fits(route, wants[c].method, wants[c].path) PROVE MayServe(route, c)
  <2> DEFINE at(k) == IF k \in 1 .. Cardinality(P) THEN Nth(P, k) ELSE 1
             params == [k \in 1 .. Len(N) |-> <<"value", segments[at(k)]>>]
  <2>1. Len(N) = Len(segments)  BY <1>3, <1>6
  <2>2. ASSUME NEW k \in 1 .. Len(N) PROVE at(k) \in 1 .. Len(N)
    <3> HIDE DEF N, P
    <3>1. 1 \in 1 .. Len(N)  BY <1>1
    <3>2. CASE k \in 1 .. Cardinality(P)  BY <1>2, <3>2, NthIn
    <3> QED  BY <3>1, <3>2
  <2>3. params \in [1 .. Len(N) -> values]
    BY <1>1, <2>1, <2>2
  <2>4. Len(params) = Len(N)
    <3> HIDE DEF params, values, N
    <3> QED  BY <1>1, <2>3, SeqOfFunction
  <2>5. ASSUME NEW i \in P PROVE params[Count(P, i)][2] = segments[i]
    <3> HIDE DEF N, P, segments
    <3>1. Count(P, i) \in 1 .. Cardinality(P) /\ Nth(P, Count(P, i)) = i
      BY <1>2, CountIs, NthIs
    <3>2. Count(P, i) \in 1 .. Len(N)  BY <1>1, <1>2, <3>1
    <3>3. at(Count(P, i)) = i  BY <3>1
    <3> QED  BY <3>2, <3>3
  <2>6. Wanted(route, c, params)
    <3> HIDE DEF params
    <3> QED  BY <1>1, <1>2, <1>4, <1>6, <2>4, <2>5
  <2> QED  BY <1>1, <2>3, <2>6 DEF MayServe
<1>7. ASSUME Fits(route, wants[c].method, wants[c].path)
      PROVE  Wanted(route, c, ExtractParams(pattern, wants[c].path))
  <2> DEFINE pairs == [i \in DOMAIN N |-> <<Tail(N[i]), segments[i]>>]
  <2>1. Len(N) = Len(segments)  BY <1>3, <1>7
  <2>2. ExtractParams(pattern, wants[c].path) = Picked(pairs, P)
    BY <2>1 DEF ExtractParams, ParamsIn
  <2>3. pairs \in Seq(Range(pairs)) /\ Len(pairs) = Len(N)
    <3>1. pairs \in [1 .. Len(N) -> Range(pairs)]  BY <1>1 DEF Range
    <3> HIDE DEF pairs, N
    <3> QED  BY <1>1, <3>1, SeqOfFunction
  <2>4. /\ Len(Picked(pairs, P)) = Cardinality(P)
        /\ \A k \in 1 .. Cardinality(P) : Picked(pairs, P)[k] = pairs[Nth(P, k)]
    <3> HIDE DEF pairs, P, N
    <3> QED  BY <1>2, <2>3, PickedIs
  <2>5. ASSUME NEW i \in P PROVE Picked(pairs, P)[Count(P, i)][2] = segments[i]
    <3>1. Count(P, i) \in 1 .. Cardinality(P) /\ Nth(P, Count(P, i)) = i
      <4> HIDE DEF P
      <4> QED  BY <1>2, CountIs, NthIs
    <3>2. pairs[i][2] = segments[i]  BY <1>1, <1>2
    <3> HIDE DEF pairs, P
    <3> QED  BY <2>4, <3>1, <3>2
  <2>6. Wanted(route, c, Picked(pairs, P))
    <3> HIDE DEF pairs
    <3> QED  BY <1>2, <1>4, <1>7, <2>4, <2>5
  <2> QED  BY <2>2, <2>6
<1> QED  BY <1>5, <1>6, <1>7

LEMMA MaxIsThat ==
  ASSUME NEW S \in SUBSET Nat, NEW m \in S, \A i \in S : i <= m
  PROVE  Max(S) = m
<1>1. \A x \in S : (\A y \in S : x >= y) => x = m
  OBVIOUS
<1> QED  BY <1>1 DEF Max

LEMMA MaxIs ==
  ASSUME NEW S \in SUBSET Nat, S # {}, NEW n \in Nat, \A i \in S : i <= n
  PROVE  Max(S) \in S /\ \A i \in S : i <= Max(S)
<1> DEFINE U == {u \in Nat : \A i \in S : i <= u}
           m == Min(U)
<1>1. U \in SUBSET Nat /\ U # {}  OBVIOUS
<1>2. m \in U /\ \A u \in U : m <= u
  <2> HIDE DEF U
  <2> QED  BY <1>1, MinIs
<1>3. m \in Nat /\ \A i \in S : i <= m  BY <1>2
<1> HIDE DEF m
<1>4. ASSUME m \notin S PROVE FALSE
  <2>1. \A i \in S : i \in Nat /\ i < m  BY <1>3, <1>4
  <2>0. m - 1 \in Nat
    <3>1. PICK i \in S : TRUE  OBVIOUS
    <3> QED  BY <1>3, <2>1, <3>1
  <2>2. m - 1 \in Nat /\ \A i \in S : i <= m - 1
    <3>1. \A i \in S : i <= m - 1  BY <1>3, <2>1
    <3> QED  BY <2>0, <3>1
  <2>3. m - 1 \in U  BY <2>2
  <2> HIDE DEF U
  <2> QED  BY <1>2, <1>3, <2>3
<1> QED  BY <1>3, <1>4, MaxIsThat

\* A set of positions, further on.
LEMMA ShiftedSize ==
  ASSUME NEW I \in SUBSET Nat, IsFiniteSet(I), NEW n \in Nat
  PROVE  IsFiniteSet({i + n : i \in I}) /\ Cardinality({i + n : i \in I}) = Cardinality(I)
<1> DEFINE J == {i + n : i \in I}
           f == [i \in I |-> i + n]
<1>1. f \in [I -> J]  OBVIOUS
<1>2. \A i, k \in I : f[i] = f[k] => i = k  OBVIOUS
<1>3. \A j \in J : \E i \in I : f[i] = j  OBVIOUS
<1> HIDE DEF f, J
<1>4. f \in Bijection(I, J)
  BY <1>1, <1>2, <1>3 DEF Bijection, Injection, Surjection, IsInjective
<1>5. ExistsBijection(I, J)  BY <1>4 DEF ExistsBijection
<1>6. IsFiniteSet(J) /\ Cardinality(J) = Cardinality(I)  BY <1>5, FS_Bijection
<1> QED  BY <1>6 DEF J

LEMMA ShiftedIs ==
  ASSUME NEW I \in SUBSET Nat, IsFiniteSet(I), NEW n \in Nat,
         NEW J, \A j : j \in J <=> \E i \in I : j = i + n
  PROVE  /\ J \in SUBSET Nat /\ IsFiniteSet(J) /\ Cardinality(J) = Cardinality(I)
         /\ \A k \in 1 .. Cardinality(I) : Nth(J, k) = Nth(I, k) + n
<1>1. J \in SUBSET Nat /\ J = {i + n : i \in I}  OBVIOUS
<1>2. IsFiniteSet(J) /\ Cardinality(J) = Cardinality(I)  BY <1>1, ShiftedSize
<1>3. ASSUME NEW k \in 1 .. Cardinality(I) PROVE Nth(J, k) = Nth(I, k) + n
  <2> DEFINE i == Nth(I, k)
             below == {j \in I : j <= i}
  <2>1. i \in I /\ Cardinality(below) = k  BY NthIn DEF Count
  <2> HIDE DEF i
  <2>2. {j \in J : j <= i + n} = {j + n : j \in below}
    <3>1. \A j \in I : j \in Nat /\ (j + n <= i + n <=> j <= i)  BY <2>1
    <3> QED  BY <3>1
  <2>3. below \in SUBSET Nat /\ IsFiniteSet(below)  BY FS_Subset
  <2>4. Cardinality({j + n : j \in below}) = k
    <3> HIDE DEF below
    <3> QED  BY <2>1, <2>3, ShiftedSize
  <2>5. Count(J, i + n) = k  BY <2>2, <2>4 DEF Count
  <2>6. i + n \in J  BY <2>1
  <2>7. Nth(J, Count(J, i + n)) = i + n  BY <1>1, <1>2, <2>6, NthIs
  <2> QED  BY <2>5, <2>7 DEF i
<1> QED  BY <1>1, <1>2, <1>3

LEMMA SameText ==
  ASSUME NEW s, IsText(s), NEW t, IsText(t), Len(s) = Len(t), \A i \in 1 .. Len(s) : s[i] = t[i]
  PROVE  s = t
<1>1. s \in [1 .. Len(s) -> Range(s)] /\ t \in [1 .. Len(s) -> Range(t)]  BY TextIs
<1>2. s = [i \in 1 .. Len(s) |-> s[i]] /\ t = [i \in 1 .. Len(s) |-> t[i]]  BY <1>1
<1> QED  BY <1>2

\* The runs of a path that begins with a slash, or is none.
LEMMA SplitIs ==
  ASSUME NEW path, IsText(path), path = <<>> \/ path[1] = Slash
  PROVE  /\ Ends(path) \in SUBSET Nat /\ IsFiniteSet(Ends(path)) /\ Cardinality(Ends(path)) \in Nat
         /\ Len(SplitPath(path)) = Cardinality(Ends(path))
         /\ \A k \in 1 .. Cardinality(Ends(path)) :
              SplitPath(path)[k] = RunTo(path, Nth(Ends(path), k))
<1> DEFINE runs == [i \in 1 .. Len(path) |-> RunTo(path, i)]
           E == Ends(path)
<1>1. Len(path) \in Nat  BY TextIs
<1>2. runs \in Seq(Range(runs)) /\ Len(runs) = Len(path)
  <2>1. runs \in [1 .. Len(path) -> Range(runs)]  BY DEF Range
  <2> HIDE DEF runs
  <2> QED  BY <1>1, <2>1, SeqOfFunction
<1>3. E \in SUBSET (1 .. Len(path))  BY DEF Ends
<1>4. /\ IsFiniteSet(E) /\ Cardinality(E) \in Nat /\ E \in SUBSET Nat
      /\ Len(Picked(runs, E)) = Cardinality(E) /\ Picked(runs, E) \in Seq(Range(runs))
      /\ \A k \in 1 .. Cardinality(E) : Picked(runs, E)[k] = runs[Nth(E, k)]
  <2> HIDE DEF runs, E
  <2> QED  BY <1>2, <1>3, PickedIs
<1>5. \A k \in 1 .. Cardinality(E) : runs[Nth(E, k)] = RunTo(path, Nth(E, k))
  <2>1. \A k \in 1 .. Cardinality(E) : Nth(E, k) \in 1 .. Len(path)
    <3> HIDE DEF E
    <3> QED  BY <1>3, <1>4, NthIn
  <2> HIDE DEF E
  <2> QED  BY <2>1
<1>6. CASE path = <<>>
  <2>1. Len(path) = 0  BY <1>6, EmptySeq
  <2>2. E = {}  BY <1>1, <1>3, <2>1
  <2>3. Cardinality(E) = 0  BY <2>2, FS_EmptySet
  <2>4. SplitPath(path) = <<>>  BY <1>6 DEF SplitPath
  <2> HIDE DEF E
  <2>5. Len(SplitPath(path)) = Cardinality(E) /\ ~(\E k : k \in 1 .. Cardinality(E))
    BY <2>3, <2>4, EmptySeq
  <2> QED  BY <1>4, <2>5 DEF E
<1>7. CASE path # <<>>
  <2>1. SplitPath(path) = Picked(runs, E)  BY <1>7 DEF SplitPath
  <2> HIDE DEF runs
  <2> QED  BY <1>4, <1>5, <2>1
<1> QED  BY <1>6, <1>7

\* Slashes at the start of a path make no segments.
LEMMA SplitShifted ==
  ASSUME NEW path, IsText(path), NEW rest, IsText(rest), rest # <<>>, rest[1] = Slash,
         NEW n \in Nat, Len(path) = n + Len(rest), \A i \in 1 .. n : path[i] = Slash,
         \A i \in 1 .. Len(rest) : path[i + n] = rest[i]
  PROVE  SplitPath(path) = SplitPath(rest)
<1> DEFINE r == Len(rest)
           E == Ends(rest)
<1>1. r \in Nat /\ r > 0 /\ 1 \in 1 .. r
  <2>1. r \in Nat  BY TextIs
  <2>2. r # 0  BY EmptySeq DEF IsText
  <2> QED  BY <2>1, <2>2
<1>2. Len(path) \in Nat /\ Len(path) = n + r  BY TextIs
<1>3. path[1] = Slash /\ path # <<>>
  <2>1. path # <<>>  BY <1>1, <1>2, EmptySeq
  <2>2. CASE n = 0
    <3>1. path[1 + 0] = rest[1]  BY <1>1, <2>2
    <3> QED  BY <2>1, <3>1
  <2>3. CASE n # 0
    <3>1. 1 \in 1 .. n  BY <2>3
    <3> QED  BY <2>1, <3>1
  <2> QED  BY <2>2, <2>3
<1> HIDE DEF r
<1>4. \A i \in 1 .. r : path[i + n] = rest[i]  BY DEF r
<1>5. ASSUME NEW i \in 1 .. n + r PROVE i \in Ends(path) <=> \E j \in E : i = j + n
  <2>1. CASE i <= n
    <3>1. i \notin Ends(path)
      <4>1. i \in 1 .. n  BY <1>1, <2>1
      <4> QED  BY <4>1 DEF Ends
    <3>2. \A j \in E : j \in Nat /\ j > 0  BY DEF Ends
    <3> QED  BY <1>1, <2>1, <3>1, <3>2
  <2>2. CASE i > n
    <3> DEFINE j == i - n
    <3>1. j \in 1 .. r /\ i = j + n /\ path[i] = rest[j]  BY <1>1, <1>4, <2>2
    <3>2. (i = n + r <=> j = r) /\ (j # r => path[i + 1] = rest[j + 1])
      <4>1. i = n + r <=> j = r  BY <1>1, <3>1
      <4>2. j # r => j + 1 \in 1 .. r /\ (j + 1) + n = i + 1  BY <1>1, <3>1
      <4> QED  BY <1>4, <4>1, <4>2
    <3>3. i \in Ends(path) <=> j \in E
      BY <1>1, <1>2, <3>1, <3>2 DEF Ends, r
    <3>4. \A k \in E : i = k + n => k = j  BY <1>1, <3>1 DEF Ends
    <3> QED  BY <3>1, <3>3, <3>4
  <2> QED  BY <1>1, <2>1, <2>2
<1>6. \A i : i \in Ends(path) <=> \E j \in E : i = j + n
  <2>1. \A i \in Ends(path) : i \in 1 .. n + r  BY <1>2 DEF Ends
  <2>2. \A j \in E : j \in 1 .. r  BY DEF Ends, r
  <2>3. \A j \in E : j + n \in 1 .. n + r  BY <1>1, <2>2
  <2> QED  BY <1>5, <2>1, <2>3
<1>7. ASSUME NEW j \in E PROVE RunTo(path, j + n) = RunTo(rest, j)
  <2> DEFINE A == {i \in 1 .. j : rest[i] = Slash}
             B == {i \in 1 .. j + n : path[i] = Slash}
             m == Max(A)
  <2>1. j \in 1 .. r /\ j \in Nat /\ 1 \in 1 .. j  BY <1>1 DEF Ends, r
  <2>2. A \in SUBSET Nat /\ 1 \in A /\ \A i \in A : i <= j  BY <2>1
  <2>3. m \in A /\ \A i \in A : i <= m
    <3> HIDE DEF A
    <3> QED  BY <2>1, <2>2, MaxIs
  <2>4. m \in 1 .. j /\ rest[m] = Slash  BY <2>3
  <2>5. \A i \in 1 .. j : rest[i] = Slash => i <= m  BY <2>3
  <2> HIDE DEF m
  <2>6. B \in SUBSET Nat /\ m + n \in B
    <3>1. m \in 1 .. r  BY <1>1, <2>1, <2>4
    <3>2. path[m + n] = Slash  BY <1>4, <2>4, <3>1
    <3>3. m + n \in 1 .. j + n  BY <2>1, <2>4
    <3> QED  BY <2>1, <3>2, <3>3
  <2>7. ASSUME NEW i \in B PROVE i <= m + n
    <3>1. i \in 1 .. j + n /\ path[i] = Slash  BY <2>7
    <3>2. CASE i <= n  BY <2>1, <2>4, <3>1, <3>2
    <3>3. CASE i > n
      <4>1. i - n \in 1 .. j /\ i - n \in 1 .. r /\ (i - n) + n = i  BY <1>1, <2>1, <3>1, <3>3
      <4>2. rest[i - n] = Slash  BY <1>4, <3>1, <4>1
      <4>3. i - n <= m  BY <2>5, <4>1, <4>2
      <4> QED  BY <2>1, <2>4, <3>1, <4>3
    <3> QED  BY <2>1, <3>1, <3>2, <3>3
  <2>8. Max(B) = m + n
    <3> HIDE DEF B
    <3> QED  BY <2>6, <2>7, MaxIsThat
  <2>9. RunTo(path, j + n) = SubSeq(path, (m + n) + 1, j + n) /\ RunTo(rest, j) = SubSeq(rest, m + 1, j)
    BY <2>8 DEF RunTo, m
  <2>10. SubSeq(path, (m + n) + 1, j + n) = SubSeq(rest, m + 1, j)
    <3> DEFINE x == SubSeq(path, (m + n) + 1, j + n)
               y == SubSeq(rest, m + 1, j)
    <3>1. (m + n) + 1 \in 1 .. Len(path) + 1 /\ j + n \in ((m + n) + 1) - 1 .. Len(path)
      BY <1>1, <1>2, <2>1, <2>4
    <3>2. m + 1 \in 1 .. Len(rest) + 1 /\ j \in (m + 1) - 1 .. Len(rest)
      BY <1>1, <2>1, <2>4 DEF r
    <3>3. (j + n) - ((m + n) + 1) + 1 = j - m /\ j - (m + 1) + 1 = j - m /\ ((m + n) + 1) - 1 = m + n /\ (m + 1) - 1 = m
      BY <2>1, <2>4
    <3>a. path \in Seq(Range(path)) /\ rest \in Seq(Range(rest))  BY DEF IsText
    <3>4. x \in Seq(Range(path)) /\ Len(x) = j - m /\ \A i \in 1 .. j - m : x[i] = path[(m + n) + i]
      <4> DEFINE from == (m + n) + 1
                 to == j + n
      <4>1. from \in 1 .. Len(path) + 1 /\ to \in from - 1 .. Len(path)  BY <3>1
      <4>2. to - from + 1 = j - m /\ from - 1 = m + n  BY <3>3
      <4> HIDE DEF from, to
      <4>3. /\ SubSeq(path, from, to) \in Seq(Range(path)) /\ Len(SubSeq(path, from, to)) = to - from + 1
            /\ \A i \in 1 .. to - from + 1 : SubSeq(path, from, to)[i] = path[from - 1 + i]
        BY <3>a, <4>1, PartIs
      <4>4. /\ SubSeq(path, from, to) \in Seq(Range(path)) /\ Len(SubSeq(path, from, to)) = j - m
            /\ \A i \in 1 .. j - m : SubSeq(path, from, to)[i] = path[(m + n) + i]
        BY <4>2, <4>3
      <4> QED  BY <4>4 DEF from, to
    <3>5. y \in Seq(Range(rest)) /\ Len(y) = j - m /\ \A i \in 1 .. j - m : y[i] = rest[m + i]
      <4>1. /\ SubSeq(rest, m + 1, j) \in Seq(Range(rest)) /\ Len(SubSeq(rest, m + 1, j)) = j - (m + 1) + 1
            /\ \A i \in 1 .. j - (m + 1) + 1 : SubSeq(rest, m + 1, j)[i] = rest[(m + 1) - 1 + i]
        BY <3>a, <3>2, PartIs
      <4> QED  BY <3>3, <4>1
    <3>6. \A i \in 1 .. j - m : path[(m + n) + i] = rest[m + i]
      <4>1. \A i \in 1 .. j - m : m + i \in 1 .. r /\ (m + i) + n = (m + n) + i  BY <1>1, <2>1, <2>4
      <4> QED  BY <1>4, <4>1
    <3> HIDE DEF x, y
    <3>7. x = y  BY <3>4, <3>5, <3>6, SeqIsText, SameText
    <3> QED  BY <3>7 DEF x, y
  <2> QED  BY <2>9, <2>10
<1>8. /\ E \in SUBSET Nat /\ IsFiniteSet(E) /\ Len(SplitPath(rest)) = Cardinality(E)
      /\ \A k \in 1 .. Cardinality(E) : SplitPath(rest)[k] = RunTo(rest, Nth(E, k))
  BY SplitIs
<1>9. /\ Len(SplitPath(path)) = Cardinality(Ends(path))
      /\ \A k \in 1 .. Cardinality(Ends(path)) : SplitPath(path)[k] = RunTo(path, Nth(Ends(path), k))
  BY <1>3, SplitIs
<1>10. /\ Cardinality(Ends(path)) = Cardinality(E)
       /\ \A k \in 1 .. Cardinality(E) : Nth(Ends(path), k) = Nth(E, k) + n
  <2> HIDE DEF E
  <2> QED  BY <1>6, <1>8, ShiftedIs
<1>11. \A k \in 1 .. Cardinality(E) : Nth(E, k) \in E
  <2> HIDE DEF E
  <2> QED  BY <1>8, NthIn
<1>12. \A k \in 1 .. Cardinality(E) : SplitPath(path)[k] = SplitPath(rest)[k]
  <2> HIDE DEF E
  <2> QED  BY <1>7, <1>8, <1>9, <1>10, <1>11
<1> QED  BY <1>8, <1>9, <1>10, <1>12, SplitIsText, SameText

\* The index file of a folder is one segment more.
LEMMA SplitOfIndex ==
  ASSUME NEW path, IsText(path), path = <<>> \/ path[1] = Slash,
         NEW file, IsText(file), NEW n \in Nat, Len(path) = n, Len(file) = n + 2,
         \A i \in 1 .. n : file[i] = path[i], file[n + 1] = Slash, file[n + 2] = "index.html"
  PROVE  SplitPath(file) = Append(SplitPath(path), Index)
<1> DEFINE E == Ends(path)
           F == Ends(file)
           size == Cardinality(E)
<1>0. file # <<>> /\ file[1] = Slash
  <2>1. file # <<>>  BY EmptySeq
  <2>2. CASE path = <<>>
    <3>1. n = 0  BY <2>2, EmptySeq
    <3>2. file[0 + 1] = Slash  BY <3>1
    <3> QED  BY <2>1, <3>2
  <2>3. CASE path # <<>>
    <3>1. n # 0  BY <2>3, EmptySeq DEF IsText
    <3>2. 1 \in 1 .. n  BY <3>1
    <3> QED  BY <2>1, <2>3, <3>2
  <2> QED  BY <2>2, <2>3
<1>1. "index.html" # Slash  BY DEF Slash
<1>2. ASSUME NEW i \in 1 .. n + 2 PROVE i \in F <=> i \in E \/ i = n + 2
  <2>1. CASE i < n
    <3>1. i \in 1 .. n /\ i + 1 \in 1 .. n /\ i # n /\ i # n + 2  BY <2>1
    <3> QED  BY <3>1 DEF Ends
  <2>2. CASE i = n
    <3>1. i \in 1 .. n /\ i # n + 2 /\ i \in 1 .. n + 2  BY <2>2
    <3> QED  BY <2>2, <3>1 DEF Ends
  <2>3. CASE i = n + 1
    <3>1. i \notin 1 .. n /\ i # n + 2  BY <2>3
    <3> QED  BY <2>3, <3>1 DEF Ends
  <2>4. CASE i = n + 2
    <3>1. i \in 1 .. n + 2  BY <2>4
    <3> QED  BY <1>1, <2>4, <3>1 DEF Ends
  <2> QED  BY <2>1, <2>2, <2>3, <2>4
<1>3. F = E \cup {n + 2}
  <2>1. \A i \in F : i \in 1 .. n + 2  BY DEF Ends
  <2>2. \A i \in E : i \in 1 .. n /\ i \in 1 .. n + 2  BY DEF Ends
  <2>3. n + 2 \in 1 .. n + 2  OBVIOUS
  <2> HIDE DEF E, F
  <2> QED  BY <1>2, <2>1, <2>2, <2>3
<1>4. /\ E \in SUBSET Nat /\ IsFiniteSet(E) /\ size \in Nat /\ Len(SplitPath(path)) = size
      /\ \A k \in 1 .. size : SplitPath(path)[k] = RunTo(path, Nth(E, k))
  BY SplitIs
<1>5. /\ F \in SUBSET Nat /\ IsFiniteSet(F) /\ Len(SplitPath(file)) = Cardinality(F)
      /\ \A k \in 1 .. Cardinality(F) : SplitPath(file)[k] = RunTo(file, Nth(F, k))
  BY <1>0, SplitIs
<1>6. \A i \in E : i \in 1 .. n  BY DEF Ends
<1>7. \A i \in E : RunTo(file, i) = RunTo(path, i)
  <2> SUFFICES ASSUME NEW i \in E PROVE RunTo(file, i) = RunTo(path, i)
    OBVIOUS
  <2> DEFINE A == {j \in 1 .. i : path[j] = Slash}
             m == Max(A)
             x == SubSeq(file, m + 1, i)
             y == SubSeq(path, m + 1, i)
  <2>1. i \in 1 .. n  BY <1>6
  <2>2. {j \in 1 .. i : file[j] = Slash} = A  BY <2>1
  <2>3. RunTo(file, i) = x /\ RunTo(path, i) = y  BY <2>2 DEF RunTo
  <2>4. m \in 1 .. i
    <3>1. path # <<>>  BY <2>1, EmptySeq
    <3>2. 1 \in A  BY <2>1, <3>1
    <3>3. A \in SUBSET Nat /\ A # {} /\ \A j \in A : j <= i  BY <2>1, <3>2
    <3>4. i \in Nat  BY <2>1
    <3>5. Max(A) \in A
      <4> HIDE DEF A
      <4> QED  BY <3>3, <3>4, MaxIs
    <3> QED  BY <3>5
  <2> HIDE DEF m
  <2>5. file \in Seq(Range(file)) /\ path \in Seq(Range(path))  BY DEF IsText
  <2>6. /\ m + 1 \in 1 .. Len(file) + 1 /\ i \in (m + 1) - 1 .. Len(file)
        /\ m + 1 \in 1 .. Len(path) + 1 /\ i \in (m + 1) - 1 .. Len(path)
    BY <2>1, <2>4
  <2>7. /\ x \in Seq(Range(file)) /\ Len(x) = i - (m + 1) + 1
        /\ \A j \in 1 .. i - (m + 1) + 1 : x[j] = file[(m + 1) - 1 + j]
    BY <2>5, <2>6, PartIs
  <2>8. /\ y \in Seq(Range(path)) /\ Len(y) = i - (m + 1) + 1
        /\ \A j \in 1 .. i - (m + 1) + 1 : y[j] = path[(m + 1) - 1 + j]
    BY <2>5, <2>6, PartIs
  <2>9. \A j \in 1 .. i - (m + 1) + 1 : (m + 1) - 1 + j \in 1 .. n
    BY <2>1, <2>4
  <2>10. \A j \in 1 .. i - (m + 1) + 1 : x[j] = y[j]
    BY <2>7, <2>8, <2>9
  <2> HIDE DEF x, y
  <2>11. x = y  BY <2>7, <2>8, <2>10, SeqIsText, SameText
  <2> QED  BY <2>3, <2>11
<1>8. RunTo(file, n + 2) = Index
  <2> DEFINE A == {j \in 1 .. n + 2 : file[j] = Slash}
             x == SubSeq(file, n + 2, n + 2)
  <2>1. A \in SUBSET Nat /\ n + 1 \in A  OBVIOUS
  <2>2. \A j \in A : j <= n + 1
    <3>1. \A j \in 1 .. n + 2 : j <= n + 1 \/ j = n + 2  OBVIOUS
    <3> QED  BY <1>1, <3>1
  <2>3. Max(A) = n + 1
    <3> HIDE DEF A
    <3> QED  BY <2>1, <2>2, MaxIsThat
  <2>4. (n + 1) + 1 = n + 2  OBVIOUS
  <2>5. RunTo(file, n + 2) = x  BY <2>3, <2>4 DEF RunTo
  <2>6. file \in Seq(Range(file)) /\ n + 2 \in 1 .. Len(file) + 1 /\ n + 2 \in (n + 2) - 1 .. Len(file)
    BY DEF IsText
  <2>7. x \in Seq(Range(file)) /\ Len(x) = (n + 2) - (n + 2) + 1
        /\ \A j \in 1 .. (n + 2) - (n + 2) + 1 : x[j] = file[(n + 2) - 1 + j]
    BY <2>6, PartIs
  <2>8. (n + 2) - (n + 2) + 1 = 1 /\ (n + 2) - 1 + 1 = n + 2 /\ 1 \in 1 .. 1  OBVIOUS
  <2>9. Len(x) = 1 /\ x[1] = "index.html"  BY <2>7, <2>8
  <2>10. Len(Index) = 1 /\ Index[1] = "index.html" /\ IsText(Index)
    <3>1. Index \in Seq({"index.html"})  BY DEF Index
    <3>2. Len(Index) = 1 /\ Index[1] = "index.html"  BY DEF Index
    <3> QED  BY <3>1, <3>2, SeqIsText
  <2>11. \A j \in 1 .. Len(x) : j = 1  BY <2>9
  <2> HIDE DEF x, Index
  <2>12. x = Index  BY <2>7, <2>9, <2>10, <2>11, SeqIsText, SameText
  <2> QED  BY <2>5, <2>12
<1>9. Cardinality(F) = size + 1
  <2>1. n + 2 \notin E  BY <1>6
  <2>2. IsFiniteSet(E)  BY <1>4
  <2> HIDE DEF E, F
  <2>3. Cardinality(E \cup {n + 2}) = Cardinality(E) + 1
    BY <2>1, <2>2, FS_AddElement
  <2> QED  BY <1>3, <2>3
<1>10. \A k \in 1 .. size : Nth(F, k) = Nth(E, k) /\ Nth(E, k) \in E
  <2> SUFFICES ASSUME NEW k \in 1 .. size PROVE Nth(F, k) = Nth(E, k) /\ Nth(E, k) \in E
    OBVIOUS
  <2> HIDE DEF E, F
  <2> DEFINE i == Nth(E, k)
  <2>1. i \in E /\ Count(E, i) = k  BY <1>4, NthIn
  <2> HIDE DEF i
  <2>2. i \in F /\ ~(n + 2 <= i)  BY <1>3, <1>6, <2>1
  <2>3. {j \in F : j <= i} = {j \in E : j <= i}  BY <1>3, <2>2
  <2>4. Count(F, i) = k  BY <2>1, <2>3 DEF Count
  <2>5. Nth(F, Count(F, i)) = i  BY <1>5, <2>2, NthIs
  <2> QED  BY <2>1, <2>4, <2>5 DEF i
<1>11. Nth(F, size + 1) = n + 2
  <2> HIDE DEF E, F
  <2>1. \A j \in F : j <= n + 2  BY <1>3, <1>6
  <2>2. {j \in F : j <= n + 2} = F  BY <2>1
  <2>3. Count(F, n + 2) = size + 1  BY <1>9, <2>2 DEF Count
  <2>4. n + 2 \in F  BY <1>3
  <2>5. Nth(F, Count(F, n + 2)) = n + 2  BY <1>5, <2>4, NthIs
  <2> QED  BY <2>3, <2>5
<1>12. \A k \in 1 .. size : SplitPath(file)[k] = SplitPath(path)[k]
  <2>1. \A k \in 1 .. size : k \in 1 .. size + 1  BY <1>4
  <2> HIDE DEF E, F
  <2> QED  BY <1>4, <1>5, <1>7, <1>9, <1>10, <2>1
<1>13. SplitPath(file)[size + 1] = Index
  <2>1. size + 1 \in 1 .. size + 1  BY <1>4
  <2> HIDE DEF E, F
  <2> QED  BY <1>5, <1>8, <1>9, <1>11, <2>1
<1> DEFINE s == SplitPath(file)
           t == SplitPath(path)
           S == Range(t) \cup {Index}
<1>14. IsText(s) /\ t \in Seq(S) /\ Len(t) = size /\ Len(s) = size + 1
  <2>1. t \in [1 .. size -> S]  BY <1>4, SplitIsText, TextIs
  <2>2. t \in Seq(S)
    <3> HIDE DEF t, S, size
    <3> QED  BY <1>4, <2>1, SeqOfFunction
  <2> QED  BY <1>4, <1>5, <1>9, <2>2, SplitIsText
<1>15. Index \in S  OBVIOUS
<1>16. \A k \in 1 .. size : s[k] = t[k]  BY <1>12
<1>17. s[size + 1] = Index  BY <1>13
<1> HIDE DEF s, t, S, E, F, size, Index
<1>18. /\ Append(t, Index) \in Seq(S) /\ Len(Append(t, Index)) = size + 1
       /\ \A k \in 1 .. size : Append(t, Index)[k] = t[k]
       /\ Append(t, Index)[size + 1] = Index
  BY <1>4, <1>14, <1>15, AppendProperties
<1>19. \A k \in 1 .. size + 1 : s[k] = Append(t, Index)[k]
  <2>1. \A k \in 1 .. size + 1 : k \in 1 .. size \/ k = size + 1  BY <1>4
  <2> QED  BY <1>16, <1>17, <1>18, <2>1
<1>20. s = Append(t, Index)
  BY <1>14, <1>18, <1>19, SeqIsText, SameText
<1> QED  BY <1>20 DEF s, t

\* What comes of the slashes that a name begins with.
LEMMA SkippedIs ==
  ASSUME NEW rest, IsText(rest)
  PROVE  LET relative == SkipSlashes(rest)
             path == <<Slash>> \o rest
         IN  /\ relative = <<>> <=> \A i \in 1 .. Len(rest) : rest[i] = Slash
             /\ relative # <<>> =>
                  \E k \in 1 .. Len(rest) :
                    /\ relative \in Seq(Range(rest)) /\ Len(relative) = Len(rest) - k + 1
                    /\ \A i \in 1 .. Len(rest) - k + 1 : relative[i] = rest[k - 1 + i]
                    /\ \A i \in 1 .. k - 1 : rest[i] = Slash
<1> DEFINE N == {i \in DOMAIN rest : rest[i] # Slash}
           k == Min(N)
<1>1. Len(rest) \in Nat /\ DOMAIN rest = 1 .. Len(rest) /\ rest \in Seq(Range(rest))
  BY TextIs DEF IsText
<1>2. CASE N = {}
  <2>1. SkipSlashes(rest) = <<>>  BY <1>2 DEF SkipSlashes
  <2> QED  BY <1>1, <1>2, <2>1
<1>3. CASE N # {}
  <2>1. SkipSlashes(rest) = SubSeq(rest, k, Len(rest))  BY <1>3 DEF SkipSlashes
  <2>2. k \in N /\ \A i \in N : k <= i
    <3>1. N \in SUBSET Nat  BY <1>1
    <3> HIDE DEF N
    <3> QED  BY <1>3, <3>1, MinIs
  <2>3. k \in 1 .. Len(rest) /\ rest[k] # Slash  BY <1>1, <2>2
  <2> HIDE DEF k
  <2>4. \A i \in 1 .. k - 1 : rest[i] = Slash
    <3>1. \A i \in 1 .. k - 1 : i \in 1 .. Len(rest) /\ ~(k <= i)  BY <1>1, <2>3
    <3> QED  BY <1>1, <2>2, <3>1
  <2>5. k \in 1 .. Len(rest) + 1 /\ Len(rest) \in k - 1 .. Len(rest)  BY <1>1, <2>3
  <2>6. /\ SubSeq(rest, k, Len(rest)) \in Seq(Range(rest)) /\ Len(SubSeq(rest, k, Len(rest))) = Len(rest) - k + 1
        /\ \A i \in 1 .. Len(rest) - k + 1 : SubSeq(rest, k, Len(rest))[i] = rest[k - 1 + i]
    BY <1>1, <2>5, PartIs
  <2>7. Len(rest) - k + 1 > 0  BY <1>1, <2>3
  <2>8. SubSeq(rest, k, Len(rest)) # <<>>
    <3> DEFINE x == SubSeq(rest, k, Len(rest))
    <3>1. Len(x) > 0  BY <2>6, <2>7
    <3> HIDE DEF x
    <3>2. x # <<>>  BY <3>1, EmptySeq
    <3> QED  BY <3>2 DEF x
  <2> QED  BY <2>1, <2>3, <2>4, <2>6, <2>8
<1> QED  BY <1>2, <1>3

\* After a slash, the segments of a name are those of what is left of it, and there are none
\* when nothing is.
LEMMA NamesAre ==
  ASSUME NEW rest, IsText(rest)
  PROVE  /\ IsText(<<Slash>> \o rest) /\ IsText(SkipSlashes(rest)) /\ IsText(<<Slash>> \o SkipSlashes(rest))
         /\ SkipSlashes(rest) = <<>> <=> SplitPath(<<Slash>> \o rest) = <<>>
         /\ SkipSlashes(rest) # <<>> =>
              /\ SplitPath(<<Slash>> \o rest) = SplitPath(<<Slash>> \o SkipSlashes(rest))
              /\ rest # <<>> /\ Last(SkipSlashes(rest)) = Last(rest)
<1> DEFINE S == Range(rest) \cup {Slash}
           relative == SkipSlashes(rest)
           path == <<Slash>> \o rest
           short == <<Slash>> \o relative
<1>1. Len(rest) \in Nat /\ DOMAIN rest = 1 .. Len(rest) /\ rest \in Seq(Range(rest)) /\ rest \in Seq(S)
  <2>1. rest \in [1 .. Len(rest) -> S] /\ Len(rest) \in Nat  BY TextIs
  <2>2. rest \in Seq(S)
    <3> HIDE DEF S
    <3> QED  BY <2>1, SeqOfFunction
  <2> QED  BY <2>2, TextIs DEF IsText
<1>2. relative \in Seq(S)
  <2>1. CASE relative = <<>>  BY <2>1, EmptySeq
  <2>2. CASE relative # <<>>
    <3>1. relative \in Seq(Range(rest))  BY <2>2, SkippedIs
    <3>2. Len(relative) \in Nat /\ relative \in [1 .. Len(relative) -> S]  BY <3>1, LenProperties
    <3> HIDE DEF relative, S
    <3> QED  BY <3>2, SeqOfFunction
  <2> QED  BY <2>1, <2>2
<1>3. <<Slash>> \in Seq(S) /\ Len(<<Slash>>) = 1 /\ <<Slash>>[1] = Slash
  <2>1. Slash \in S  OBVIOUS
  <2> HIDE DEF S
  <2> QED  BY <2>1
<1> HIDE DEF S
<1>4. /\ path \in Seq(S) /\ Len(path) = Len(rest) + 1 /\ path[1] = Slash
      /\ \A i \in 1 .. Len(rest) : path[i + 1] = rest[i]
  <2> DEFINE h == <<Slash>>
  <2>1. h \in Seq(S) /\ Len(h) = 1 /\ h[1] = Slash  BY <1>3
  <2>0. rest \in Seq(S)  BY <1>1
  <2> HIDE DEF h
  <2>2. /\ h \o rest \in Seq(S) /\ Len(h \o rest) = Len(h) + Len(rest)
        /\ \A i \in 1 .. Len(h) : (h \o rest)[i] = h[i]
        /\ \A i \in 1 .. Len(rest) : (h \o rest)[i + Len(h)] = rest[i]
    BY <2>0, <2>1, Joined
  <2>3. 1 \in 1 .. Len(h)  BY <2>1
  <2>4. (h \o rest)[1] = Slash  BY <2>1, <2>2, <2>3
  <2> QED  BY <1>1, <2>1, <2>2, <2>4 DEF h
<1>5. /\ short \in Seq(S) /\ Len(short) = Len(relative) + 1 /\ short[1] = Slash
      /\ \A i \in 1 .. Len(relative) : short[i + 1] = relative[i]
      /\ Len(relative) \in Nat
  <2> DEFINE h == <<Slash>>
  <2> HIDE DEF relative
  <2>1. h \in Seq(S) /\ Len(h) = 1 /\ h[1] = Slash  BY <1>3
  <2> HIDE DEF h
  <2>2. /\ h \o relative \in Seq(S) /\ Len(h \o relative) = Len(h) + Len(relative)
        /\ \A i \in 1 .. Len(h) : (h \o relative)[i] = h[i]
        /\ \A i \in 1 .. Len(relative) : (h \o relative)[i + Len(h)] = relative[i]
    BY <1>2, <2>1, Joined
  <2>3. 1 \in 1 .. Len(h)  BY <2>1
  <2>4. (h \o relative)[1] = Slash  BY <2>1, <2>2, <2>3
  <2>5. Len(relative) \in Nat  BY <1>2, LenProperties
  <2> QED  BY <2>1, <2>2, <2>4, <2>5 DEF h
<1> HIDE DEF path, short
<1>6. IsText(path) /\ IsText(short) /\ IsText(relative)  BY <1>2, <1>4, <1>5, SeqIsText
<1>7. path # <<>>  BY <1>1, <1>4, EmptySeq
<1>8. /\ Ends(path) \in SUBSET Nat /\ IsFiniteSet(Ends(path)) /\ Cardinality(Ends(path)) \in Nat
      /\ Len(SplitPath(path)) = Cardinality(Ends(path))
  BY <1>4, <1>6, SplitIs
<1>9. SplitPath(path) = <<>> <=> Ends(path) = {}
  <2>1. SplitPath(path) = <<>> <=> Len(SplitPath(path)) = 0
    BY <1>6, SplitIsText, EmptySeq DEF IsText
  <2>2. Cardinality(Ends(path)) = 0 <=> Ends(path) = {}
    BY <1>8, FS_EmptySet
  <2> QED  BY <1>8, <2>1, <2>2
<1>10. ASSUME \A i \in 1 .. Len(rest) : rest[i] = Slash PROVE Ends(path) = {}
  <2>1. \A i \in 1 .. Len(path) : path[i] = Slash
    <3>1. \A i \in 1 .. Len(path) : i = 1 \/ (i - 1 \in 1 .. Len(rest) /\ (i - 1) + 1 = i)  BY <1>1, <1>4
    <3> QED  BY <1>4, <1>10, <3>1
  <2> QED  BY <2>1 DEF Ends
<1>11. ASSUME NEW k \in 1 .. Len(rest), rest[k] # Slash PROVE Ends(path) # {}
  <2> DEFINE A == {i \in 1 .. Len(path) : path[i] # Slash}
             m == Max(A)
  <2>1. k + 1 \in A  BY <1>1, <1>4, <1>11
  <2>0. Len(path) \in Nat  BY <1>6, TextIs
  <2>2. Len(path) \in Nat /\ A \in SUBSET Nat /\ A # {} /\ \A i \in A : i <= Len(path)  BY <2>0, <2>1
  <2>3. m \in A /\ \A i \in A : i <= m
    <3> HIDE DEF A
    <3> QED  BY <2>2, MaxIs
  <2>4. m \in 1 .. Len(path) /\ path[m] # Slash  BY <2>3
  <2>5. m = Len(path) \/ path[m + 1] = Slash
    <3>1. ASSUME m # Len(path), path[m + 1] # Slash PROVE FALSE
      <4> HIDE DEF m
      <4>1. m + 1 \in 1 .. Len(path)  BY <2>2, <2>4, <3>1
      <4>2. m + 1 \in A  BY <3>1, <4>1
      <4>3. m + 1 <= m  BY <2>3, <4>2
      <4> QED  BY <2>2, <2>4, <4>3
    <3> QED  BY <3>1
  <2>6. m \in Ends(path)
    <3> HIDE DEF m
    <3> QED  BY <2>4, <2>5 DEF Ends
  <2> QED  BY <2>6
<1>12. relative = <<>> <=> SplitPath(path) = <<>>
  BY <1>9, <1>10, <1>11, SkippedIs
<1>13. ASSUME relative # <<>> PROVE SplitPath(path) = SplitPath(short) /\ rest # <<>> /\ Last(relative) = Last(rest)
  <2>1. PICK k \in 1 .. Len(rest) :
          /\ Len(relative) = Len(rest) - k + 1
          /\ \A i \in 1 .. Len(rest) - k + 1 : relative[i] = rest[k - 1 + i]
          /\ \A i \in 1 .. k - 1 : rest[i] = Slash
    BY <1>13, SkippedIs
  <2> HIDE DEF relative
  <2> DEFINE n == k - 1
  <2>2. n \in Nat /\ k \in Nat  BY <1>1
  <2>3. Len(path) = n + Len(short)  BY <1>1, <1>4, <1>5, <2>1
  <2>4. \A i \in 1 .. n : path[i] = Slash
    <3>1. \A i \in 1 .. n : i = 1 \/ (i - 1 \in 1 .. k - 1 /\ i - 1 \in 1 .. Len(rest) /\ (i - 1) + 1 = i)
      BY <1>1, <2>2
    <3> QED  BY <1>4, <2>1, <3>1
  <2>5. \A i \in 1 .. Len(short) : path[i + n] = short[i]
    <3> SUFFICES ASSUME NEW i \in 1 .. Len(short) PROVE path[i + n] = short[i]
      OBVIOUS
    <3>1. CASE i = 1
      <4>1. CASE k = 1
        <5>1. i + n = 1  BY <2>2, <3>1, <4>1
        <5> QED  BY <1>4, <1>5, <3>1, <5>1
      <4>2. CASE k # 1
        <5>1. k - 1 \in 1 .. Len(rest) /\ (k - 1) + 1 = i + n /\ k - 1 \in 1 .. k - 1  BY <1>1, <2>2, <3>1, <4>2
        <5> QED  BY <1>4, <1>5, <2>1, <3>1, <5>1
      <4> QED  BY <4>1, <4>2
    <3>2. CASE i # 1
      <4> DEFINE j == i - 1
      <4>1. j \in 1 .. Len(relative) /\ i = j + 1  BY <1>5, <3>2
      <4>2. short[i] = relative[j]  BY <1>5, <4>1
      <4>3. j \in 1 .. Len(rest) - k + 1  BY <2>1, <4>1
      <4>4. relative[j] = rest[k - 1 + j]  BY <2>1, <4>3
      <4>5. k - 1 + j \in 1 .. Len(rest) /\ (k - 1 + j) + 1 = i + n  BY <1>1, <2>2, <4>1, <4>3
      <4>6. path[i + n] = rest[k - 1 + j]  BY <1>4, <4>5
      <4> QED  BY <4>2, <4>4, <4>6
    <3> QED  BY <3>1, <3>2
  <2>6. short # <<>>  BY <1>5, EmptySeq
  <2>7. SplitPath(path) = SplitPath(short)
    <3> HIDE DEF n
    <3> QED  BY <1>5, <1>6, <2>2, <2>3, <2>4, <2>5, <2>6, SplitShifted
  <2>8. rest # <<>> /\ Last(relative) = Last(rest)
    <3>1. rest # <<>>  BY <1>1, EmptySeq
    <3>2. Len(relative) \in 1 .. Len(rest) - k + 1 /\ k - 1 + Len(relative) = Len(rest)
      BY <1>1, <2>1, <2>2
    <3> QED  BY <2>1, <3>1, <3>2 DEF Last
  <2> QED  BY <2>7, <2>8
<1> QED  BY <1>6, <1>12, <1>13 DEF path, short

LEMMA IndexIs == SplitPath(<<Slash>> \o Index) = <<Index>>
<1> DEFINE file == <<Slash>> \o Index
           S == {Slash, "index.html"}
           none == <<>>
<1>1. <<Slash>> \in Seq(S) /\ Index \in Seq(S) /\ Len(<<Slash>>) = 1 /\ Len(Index) = 1
  BY DEF Index
<1>2. /\ file \in Seq(S) /\ Len(file) = 2 /\ file[1] = Slash /\ file[2] = "index.html"
  BY DEF Index
<1>3. IsText(file) /\ IsText(none) /\ Len(none) = 0
  <2>1. none \in Seq(S) /\ Len(none) = 0  OBVIOUS
  <2> HIDE DEF file, S, none
  <2> QED  BY <1>2, <2>1, SeqIsText
<1>4. 0 \in Nat /\ Len(file) = 0 + 2 /\ file[0 + 1] = Slash /\ file[0 + 2] = "index.html" /\ none = <<>>
      /\ \A i \in 1 .. 0 : file[i] = none[i]
  <2> HIDE DEF file
  <2> QED  BY <1>2
<1>5. SplitPath(file) = Append(SplitPath(none), Index)
  <2> HIDE DEF file, none
  <2> QED  BY <1>3, <1>4, SplitOfIndex
<1>6. SplitPath(none) = <<>>  BY DEF SplitPath
<1>7. Append(<<>>, Index) = <<Index>>  OBVIOUS
<1> HIDE DEF none, file
<1>8. SplitPath(file) = <<Index>>  BY <1>5, <1>6, <1>7
<1> QED  BY <1>8 DEF file

LEMMA WithIndexIs ==
  ASSUME NEW S, NEW q \in Seq(S)
  PROVE  SplitPath(<<Slash>> \o (q \o <<Slash>> \o Index)) = Append(SplitPath(<<Slash>> \o q), Index)
<1> DEFINE T == S \cup {Slash, "index.html"}
           h == <<Slash>>
           path == h \o q
           file == h \o (q \o h \o Index)
           n == Len(path)
<1>1. q \in Seq(T)
  <2>1. Len(q) \in Nat /\ q \in [1 .. Len(q) -> T]  BY LenProperties
  <2> HIDE DEF T
  <2> QED  BY <2>1, SeqOfFunction
<1>2. h \in Seq(T) /\ Len(h) = 1 /\ h[1] = Slash /\ Index \in Seq(T) /\ Len(Index) = 1 /\ Index[1] = "index.html"
  BY DEF Index
<1> HIDE DEF T, h, Index
<1>3. Len(q) \in Nat /\ 1 \in 1 .. Len(h) /\ 1 \in 1 .. Len(Index)  BY <1>1, <1>2, LenProperties
<1>4. /\ path \in Seq(T) /\ Len(path) = 1 + Len(q) /\ path[1] = Slash
      /\ \A i \in 1 .. Len(q) : path[i + 1] = q[i]
  <2>0. h \in Seq(T) /\ q \in Seq(T)  BY <1>1, <1>2
  <2>1. /\ h \o q \in Seq(T) /\ Len(h \o q) = Len(h) + Len(q)
        /\ \A i \in 1 .. Len(h) : (h \o q)[i] = h[i]
        /\ \A i \in 1 .. Len(q) : (h \o q)[i + Len(h)] = q[i]
    BY <2>0, Joined
  <2> QED  BY <1>2, <1>3, <2>1
<1>5. /\ q \o h \in Seq(T) /\ Len(q \o h) = Len(q) + 1 /\ (q \o h)[1 + Len(q)] = Slash
      /\ \A i \in 1 .. Len(q) : (q \o h)[i] = q[i]
  BY <1>1, <1>2, <1>3, Joined
<1> DEFINE qh == q \o h
           tail == qh \o Index
<1>6. /\ qh \in Seq(T) /\ Len(qh) = Len(q) + 1 /\ qh[1 + Len(q)] = Slash
      /\ \A i \in 1 .. Len(q) : qh[i] = q[i]
  BY <1>5
<1> HIDE DEF qh
<1>7. /\ tail \in Seq(T) /\ Len(tail) = (Len(q) + 1) + 1
      /\ \A i \in 1 .. Len(q) + 1 : tail[i] = qh[i]
      /\ tail[1 + (Len(q) + 1)] = "index.html"
  <2>0. qh \in Seq(T) /\ Index \in Seq(T)  BY <1>2, <1>6
  <2>1. /\ qh \o Index \in Seq(T) /\ Len(qh \o Index) = Len(qh) + Len(Index)
        /\ \A i \in 1 .. Len(qh) : (qh \o Index)[i] = qh[i]
        /\ \A i \in 1 .. Len(Index) : (qh \o Index)[i + Len(qh)] = Index[i]
    BY <2>0, Joined
  <2> QED  BY <1>2, <1>3, <1>6, <2>1
<1> HIDE DEF tail
<1>8. /\ h \o tail \in Seq(T) /\ Len(h \o tail) = 1 + Len(tail) /\ (h \o tail)[1] = Slash
      /\ \A i \in 1 .. Len(tail) : (h \o tail)[i + 1] = tail[i]
  <2>0. h \in Seq(T) /\ tail \in Seq(T)  BY <1>2, <1>7
  <2>1. /\ h \o tail \in Seq(T) /\ Len(h \o tail) = Len(h) + Len(tail)
        /\ \A i \in 1 .. Len(h) : (h \o tail)[i] = h[i]
        /\ \A i \in 1 .. Len(tail) : (h \o tail)[i + Len(h)] = tail[i]
    BY <2>0, Joined
  <2> QED  BY <1>2, <1>3, <1>7, <2>1
<1>9. file = h \o tail  BY DEF tail, qh
<1> HIDE DEF file, path
<1>10. n \in Nat /\ n = Len(q) + 1 /\ Len(file) = n + 2
  BY <1>3, <1>4, <1>7, <1>8, <1>9
<1>11. \A i \in 1 .. n : file[i] = path[i]
  <2> SUFFICES ASSUME NEW i \in 1 .. n PROVE file[i] = path[i]
    OBVIOUS
  <2>1. CASE i = 1  BY <1>4, <1>8, <1>9, <2>1
  <2>2. CASE i # 1
    <3>1. /\ i - 1 \in 1 .. Len(q) /\ i - 1 \in 1 .. Len(q) + 1 /\ i - 1 \in 1 .. Len(tail)
          /\ (i - 1) + 1 = i
      BY <1>3, <1>7, <1>10, <2>2
    <3>2. file[i] = tail[i - 1]  BY <1>8, <1>9, <3>1
    <3>3. tail[i - 1] = q[i - 1]  BY <1>6, <1>7, <3>1
    <3>4. path[i] = q[i - 1]  BY <1>4, <3>1
    <3> QED  BY <3>2, <3>3, <3>4
  <2> QED  BY <2>1, <2>2
<1>12. file[n + 1] = Slash
  <2>1. /\ n \in 1 .. Len(tail) /\ n \in 1 .. Len(q) + 1 /\ n = 1 + Len(q)
    BY <1>3, <1>7, <1>10
  <2> QED  BY <1>6, <1>7, <1>8, <1>9, <2>1
<1>13. file[n + 2] = "index.html"
  <2>1. n + 1 \in 1 .. Len(tail) /\ n + 1 = 1 + (Len(q) + 1) /\ (n + 1) + 1 = n + 2
    BY <1>3, <1>7, <1>10
  <2> QED  BY <1>7, <1>8, <1>9, <2>1
<1>14. IsText(path) /\ IsText(file)  BY <1>4, <1>8, <1>9, SeqIsText
<1> HIDE DEF n
<1>15. SplitPath(file) = Append(SplitPath(path), Index)
  BY <1>4, <1>10, <1>11, <1>12, <1>13, <1>14, SplitOfIndex DEF n
<1> QED  BY <1>15 DEF file, path, h

LEMMA FrontIs ==
  ASSUME NEW S, NEW s \in Seq(S), NEW t \in Seq(S), NEW x \in S
  PROVE  /\ Len(s \o Append(t, x)) = Len(s) + Len(t) + 1
         /\ SubSeq(s \o Append(t, x), 1, Len(s \o Append(t, x)) - 1) = s \o t
<1> DEFINE a == Append(t, x)
           u == s \o a
           v == s \o t
           n == Len(s) + Len(t)
           w == SubSeq(u, 1, Len(u) - 1)
<1>1. a \in Seq(S) /\ Len(a) = Len(t) + 1 /\ \A i \in 1 .. Len(t) : a[i] = t[i]
  BY AppendProperties
<1>2. Len(s) \in Nat /\ Len(t) \in Nat /\ n \in Nat  BY LenProperties
<1> HIDE DEF a
<1>3. /\ u \in Seq(S) /\ Len(u) = Len(s) + (Len(t) + 1)
      /\ \A i \in 1 .. Len(s) : u[i] = s[i]
      /\ \A i \in 1 .. Len(t) + 1 : u[i + Len(s)] = a[i]
  <2>0. a \in Seq(S)  BY <1>1
  <2>1. /\ s \o a \in Seq(S) /\ Len(s \o a) = Len(s) + Len(a)
        /\ \A i \in 1 .. Len(s) : (s \o a)[i] = s[i]
        /\ \A i \in 1 .. Len(a) : (s \o a)[i + Len(s)] = a[i]
    BY <2>0, Joined
  <2> QED  BY <1>1, <2>1
<1>4. /\ v \in Seq(S) /\ Len(v) = Len(s) + Len(t)
      /\ \A i \in 1 .. Len(s) : v[i] = s[i]
      /\ \A i \in 1 .. Len(t) : v[i + Len(s)] = t[i]
  BY Joined
<1> HIDE DEF u, v
<1>5. 1 \in 1 .. Len(u) + 1 /\ Len(u) - 1 \in 1 - 1 .. Len(u) /\ (Len(u) - 1) - 1 + 1 = n
  BY <1>2, <1>3
<1>6. /\ w \in Seq(S) /\ Len(w) = (Len(u) - 1) - 1 + 1
      /\ \A i \in 1 .. (Len(u) - 1) - 1 + 1 : w[i] = u[1 - 1 + i]
  BY <1>3, <1>5, PartIs
<1>7. Len(w) = n /\ \A i \in 1 .. n : w[i] = u[i]
  BY <1>2, <1>5, <1>6
<1>8. \A i \in 1 .. n : u[i] = v[i]
  <2> SUFFICES ASSUME NEW i \in 1 .. n PROVE u[i] = v[i]
    OBVIOUS
  <2>1. CASE i <= Len(s)
    <3>1. i \in 1 .. Len(s)  BY <1>2, <2>1
    <3> QED  BY <1>3, <1>4, <3>1
  <2>2. CASE i > Len(s)
    <3>1. i - Len(s) \in 1 .. Len(t) /\ i - Len(s) \in 1 .. Len(t) + 1 /\ (i - Len(s)) + Len(s) = i
      BY <1>2, <2>2
    <3>2. u[(i - Len(s)) + Len(s)] = t[i - Len(s)]  BY <1>1, <1>3, <3>1
    <3>3. v[(i - Len(s)) + Len(s)] = t[i - Len(s)]  BY <1>4, <3>1
    <3> QED  BY <3>1, <3>2, <3>3
  <2> QED  BY <1>2, <2>1, <2>2
<1> HIDE DEF w
<1>9. w = v
  <2>1. Len(v) = n /\ \A i \in 1 .. n : w[i] = v[i]  BY <1>4, <1>7, <1>8
  <2> HIDE DEF n
  <2> QED  BY <1>4, <1>6, <1>7, <2>1, SeqEqual
<1>10. Len(u) = Len(s) + Len(t) + 1  BY <1>2, <1>3
<1> QED  BY <1>9, <1>10 DEF u, v, w, a

-----------------------------------------------------------------------------
(* Files *)

LEMMA OpensIs ==
  ASSUME NEW directory, NEW name
  PROVE  KindOf([directory |-> directory, name |-> name]) # "none"
           <=> LET path == directory \o SplitPath(<<Slash>> \o name)
               IN  path \in DOMAIN Files /\ (Last(name) = Slash => Files[path] = "folder")
<1> DEFINE path == directory \o SplitPath(<<Slash>> \o name)
           try == [directory |-> directory, name |-> name]
<1>1. try.directory = directory /\ try.name = name  OBVIOUS
<1> HIDE DEF try
<1>2. KindOf(try) = IF path \notin DOMAIN Files \/ (Last(name) = Slash /\ Files[path] # "folder")
                    THEN "none" ELSE Files[path]
  BY <1>1 DEF KindOf
<1> HIDE DEF path
<1>3. path \in DOMAIN Files => Files[path] # "none"
  BY FilesAssumption
<1>4. KindOf(try) # "none" <=> path \in DOMAIN Files /\ (Last(name) = Slash => Files[path] = "folder")
  BY <1>2, <1>3
<1> QED  BY <1>4 DEF path, try

\* Something opens in a mount when one of the names that are tried does.
LEMMA FoundIs ==
  ASSUME NEW m, NEW path, NEW n \in Nat, Len(TriedIn(m, path)) = n
  PROVE  /\ FoundIn(m, path) > 0 <=> \E i \in 1 .. n : KindOf(TriedIn(m, path)[i]) # "none"
         /\ FoundIn(m, path) > 0 => FoundIn(m, path) \in 1 .. n
<1> DEFINE I == {i \in 1 .. n : KindOf(TriedIn(m, path)[i]) # "none"}
<1>1. FoundIn(m, path) = IF I # {} THEN Min(I) ELSE 0
  BY DEF FoundIn, SelectInSeq
<1>2. I # {} => Min(I) \in I
  <2>1. I \in SUBSET Nat  OBVIOUS
  <2> HIDE DEF I
  <2> QED  BY <2>1, MinIs
<1>3. \A i \in I : i \in 1 .. n /\ i > 0  OBVIOUS
<1>4. FoundIn(m, path) > 0 <=> I # {}
  <2> HIDE DEF I
  <2> QED  BY <1>1, <1>2, <1>3
<1> QED  BY <1>1, <1>2, <1>3, <1>4

\* What is tried lies in the mount's directory.
LEMMA FoundIsHeld ==
  ASSUME NEW m, IsText(m.prefix), IsText(m.directory), NEW path, IsText(path), path # <<>>
  PROVE  /\ path[1] = Slash => (FoundIn(m, path) > 0 <=> Holds(m, path))
         /\ FoundIn(m, path) > 0 => TriedIn(m, path)[FoundIn(m, path)].directory = m.directory
<1> DEFINE from == Len(m.prefix) + 1
           rest == SubSeq(path, from, Len(path))
           relative == SkipSlashes(rest)
           names == SplitPath(<<Slash>> \o rest)
           under(name) == [directory |-> m.directory, name |-> name]
           tries == TriedIn(m, path)
           second == relative \o <<Slash>> \o Index
<1>1. CASE ~IsPrefix(m.prefix, path)
  <2>1. tries = <<>>  BY <1>1 DEF TriedIn
  <2>2. Len(tries) = 0
    <3> HIDE DEF tries
    <3> QED  BY <2>1, EmptySeq
  <2>3. ~(FoundIn(m, path) > 0)
    <3>1. 0 \in Nat /\ ~(\E i : i \in 1 .. 0)  OBVIOUS
    <3> QED  BY <2>2, <3>1, FoundIs DEF tries
  <2>4. ~Holds(m, path)  BY <1>1 DEF Holds
  <2> QED  BY <2>3, <2>4
<1>2. CASE IsPrefix(m.prefix, path)
  <2>1. Len(m.prefix) \in Nat /\ Len(path) \in Nat /\ Len(m.prefix) <= Len(path) /\ path \in Seq(Range(path))
    BY <1>2, TextIs DEF IsPrefix, IsText
  <2>2. /\ rest \in Seq(Range(path)) /\ Len(rest) = Len(path) - from + 1
        /\ \A i \in 1 .. Len(path) - from + 1 : rest[i] = path[from - 1 + i]
    <3>1. from \in 1 .. Len(path) + 1 /\ Len(path) \in from - 1 .. Len(path)  BY <2>1
    <3> HIDE DEF from
    <3> QED  BY <2>1, <3>1, PartIs
  <2>3. IsText(rest)
    <3> HIDE DEF rest
    <3> QED  BY <2>2, SeqIsText
  <2>4. rest # <<>> => Last(rest) = Last(path)
    <3> SUFFICES ASSUME rest # <<>> PROVE Last(rest) = Last(path)
      OBVIOUS
    <3>1. Len(rest) # 0
      <4> HIDE DEF rest
      <4> QED  BY <2>2, EmptySeq
    <3>2. Len(rest) \in 1 .. Len(path) - from + 1 /\ from - 1 + Len(rest) = Len(path)
      <4>1. Len(rest) = Len(path) - from + 1  BY <2>2
      <4>2. from \in Nat /\ from <= Len(path) + 1  BY <2>1
      <4> HIDE DEF rest, from
      <4>3. Len(rest) \in Nat  BY <2>1, <4>1, <4>2
      <4> QED  BY <2>1, <3>1, <4>1, <4>2, <4>3
    <3> QED  BY <2>2, <3>2 DEF Last
  <2>5. /\ IsText(relative) /\ IsText(names) /\ (relative = <<>> <=> names = <<>>)
        /\ relative # <<>> => names = SplitPath(<<Slash>> \o relative) /\ Last(relative) = Last(path)
    <3> HIDE DEF rest
    <3>1. /\ IsText(<<Slash>> \o rest) /\ IsText(relative)
          /\ relative = <<>> <=> names = <<>>
          /\ relative # <<>> => /\ names = SplitPath(<<Slash>> \o relative)
                                /\ rest # <<>> /\ Last(relative) = Last(rest)
      BY <2>3, NamesAre
    <3>2. IsText(names)
      <4> DEFINE p == <<Slash>> \o rest
      <4>1. IsText(p)  BY <3>1
      <4> HIDE DEF p
      <4>2. IsText(SplitPath(p))  BY <4>1, SplitIsText
      <4> QED  BY <4>2 DEF p
    <3> QED  BY <2>4, <3>1, <3>2
  <2>6. path[1] = Slash =>
          (Holds(m, path) <=>
             LET file == m.directory \o (IF names = <<>> THEN <<Index>> ELSE names)
             IN  file \in DOMAIN Files /\ (names = <<>> \/ Last(path) # Slash \/ Files[file] = "folder"))
    BY <1>2 DEF Holds
  <2>7. ASSUME relative = <<>>
        PROVE  tries = <<under(Index)>>
    BY <1>2, <2>7 DEF TriedIn
  <2>8. ASSUME relative # <<>>
        PROVE  tries = <<under(relative)>> \o (IF Last(path) = Slash THEN <<>> ELSE <<under(second)>>)
    BY <1>2, <2>8 DEF TriedIn
  <2> HIDE DEF names, relative, rest, from, second, tries
  <2>9. CASE relative = <<>>
    <3>1. Len(tries) = 1 /\ tries[1] = under(Index)  BY <2>7, <2>9
    <3>2. 1 \in Nat /\ \A i \in 1 .. 1 : i = 1  OBVIOUS
    <3>3. /\ FoundIn(m, path) > 0 <=> KindOf(under(Index)) # "none"
          /\ FoundIn(m, path) > 0 => FoundIn(m, path) = 1
      <4>1. /\ FoundIn(m, path) > 0 <=> \E i \in 1 .. 1 : KindOf(TriedIn(m, path)[i]) # "none"
            /\ FoundIn(m, path) > 0 => FoundIn(m, path) \in 1 .. 1
        BY <3>1, <3>2, FoundIs DEF tries
      <4> QED  BY <3>1, <3>2, <4>1 DEF tries
    <3>4. Last(Index) # Slash  BY DEF Index, Last, Slash
    <3>5. KindOf(under(Index)) # "none" <=> m.directory \o <<Index>> \in DOMAIN Files
      BY <3>4, OpensIs, IndexIs
    <3> QED  BY <2>5, <2>6, <2>9, <3>1, <3>3, <3>5 DEF tries
  <2>10. CASE relative # <<>>
    <3> DEFINE file == m.directory \o names
    <3>1. names # <<>> /\ names = SplitPath(<<Slash>> \o relative) /\ Last(relative) = Last(path)
      BY <2>5, <2>10
    <3>2. KindOf(under(relative)) # "none" <=> file \in DOMAIN Files /\ (Last(path) = Slash => Files[file] = "folder")
      BY <3>1, OpensIs
    <3>3. path[1] = Slash => (Holds(m, path) <=> KindOf(under(relative)) # "none")
      BY <2>6, <3>1, <3>2
    <3>4. CASE Last(path) = Slash
      <4>1. Len(tries) = 1 /\ tries[1] = under(relative)  BY <2>8, <2>10, <3>4
      <4>2. 1 \in Nat /\ \A i \in 1 .. 1 : i = 1  OBVIOUS
      <4>3. /\ FoundIn(m, path) > 0 <=> \E i \in 1 .. 1 : KindOf(TriedIn(m, path)[i]) # "none"
            /\ FoundIn(m, path) > 0 => FoundIn(m, path) \in 1 .. 1
        BY <4>1, <4>2, FoundIs DEF tries
      <4> QED  BY <3>3, <4>1, <4>2, <4>3 DEF tries
    <3>5. CASE Last(path) # Slash
      <4>1. Len(tries) = 2 /\ tries[1] = under(relative) /\ tries[2] = under(second)
        BY <2>8, <2>10, <3>5
      <4>2. 2 \in Nat /\ 1 \in 1 .. 2 /\ \A i \in 1 .. 2 : i = 1 \/ i = 2  OBVIOUS
      <4>3. /\ FoundIn(m, path) > 0 <=> \E i \in 1 .. 2 : KindOf(TriedIn(m, path)[i]) # "none"
            /\ FoundIn(m, path) > 0 => FoundIn(m, path) \in 1 .. 2
        BY <4>1, <4>2, FoundIs DEF tries
      <4>4. ASSUME KindOf(under(second)) # "none" PROVE KindOf(under(relative)) # "none"
        <5> DEFINE longer == m.directory \o Append(names, Index)
                   S == Range(m.directory) \cup Range(names) \cup {Index}
        <5>1. SplitPath(<<Slash>> \o second) = Append(names, Index)
          <6>1. relative \in Seq(Range(relative))  BY <2>5 DEF IsText
          <6> QED  BY <3>1, <6>1, WithIndexIs DEF second
        <5>2. longer \in DOMAIN Files
          BY <4>4, <5>1, OpensIs
        <5>3. m.directory \in Seq(S) /\ names \in Seq(S) /\ Index \in S
          <6>1. /\ Len(m.directory) \in Nat /\ m.directory \in [1 .. Len(m.directory) -> S]
                /\ Len(names) \in Nat /\ names \in [1 .. Len(names) -> S]
            BY <2>5, TextIs
          <6>2. Index \in S  OBVIOUS
          <6> HIDE DEF S
          <6> QED  BY <6>1, <6>2, SeqOfFunction
        <5> HIDE DEF S
        <5>4. /\ Len(longer) = Len(m.directory) + Len(names) + 1
              /\ SubSeq(longer, 1, Len(longer) - 1) = file
          BY <5>3, FrontIs
        <5>5. Len(longer) > 1
          <6>1. Len(names) \in Nat /\ Len(m.directory) \in Nat  BY <5>3, LenProperties
          <6>2. Len(names) # 0  BY <3>1, <5>3, EmptySeq
          <6> QED  BY <5>4, <6>1, <6>2
        <5>6. file \in DOMAIN Files
          <6> HIDE DEF longer, file
          <6> QED  BY <5>2, <5>4, <5>5, FilesAssumption
        <5> QED  BY <3>2, <3>5, <5>6
      <4> QED  BY <3>3, <4>1, <4>2, <4>3, <4>4 DEF tries
    <3> QED  BY <3>4, <3>5
  <2> QED  BY <2>9, <2>10
<1> QED  BY <1>1, <1>2

LEMMA MinIsThat ==
  ASSUME NEW S \in SUBSET Nat, NEW m, IsFirst(m, S)
  PROVE  Min(S) = m
<1>1. \A x \in S : (\A y \in S : x <= y) => x = m
  BY DEF IsFirst
<1> QED  BY <1>1 DEF Min, IsFirst

-----------------------------------------------------------------------------
(* Scripts *)

\* The registrations of an entity, each of a decorator of its own.
LEMMA RoutesOfAre ==
  ASSUME NEW entity \in Loaded
  PROVE  /\ RoutesOf(entity) \in Seq(Range(RoutesOf(entity)))
         /\ \A x \in Range(RoutesOf(entity)) : x.call = "register" /\ IsText(x.route.path)
<1> DEFINE D == entity.decorators
           read(d) == LET method == IF Len(d.texts) >= 2 THEN d.texts[1] ELSE d.method
                      IN  [call |-> "register", route |-> Route(method, PathOf(d), entity.name, d.bridge)]
           all == [i \in DOMAIN D |-> read(D[i])]
           I == {i \in DOMAIN D : D[i].name = "route" /\ (D[i].texts # <<>> \/ D[i].path # <<>>)}
           S == {x \in Range(all) : x.call = "register" /\ IsText(x.route.path)}
<1>1. RoutesOf(entity) = Picked(all, I)
  BY DEF RoutesOf
<1>2. Len(D) \in Nat /\ DOMAIN D = 1 .. Len(D) /\ \A i \in DOMAIN D : IsText(PathOf(D[i]))
  <2>1. IsText(D) /\ \A d \in Range(D) : IsText(PathOf(d))  BY ScriptAssumption
  <2> QED  BY <2>1, TextIs DEF Range
<1>3. \A i \in DOMAIN D : all[i] \in S
  <2> SUFFICES ASSUME NEW i \in DOMAIN D PROVE all[i] \in S
    OBVIOUS
  <2>1. all[i] = read(D[i]) /\ all[i] \in Range(all)  BY DEF Range
  <2>2. read(D[i]).call = "register" /\ read(D[i]).route.path = PathOf(D[i])  BY DEF Route
  <2>3. IsText(PathOf(D[i]))  BY <1>2
  <2> HIDE DEF read, all, D
  <2>4. all[i].call = "register" /\ IsText(all[i].route.path)  BY <2>1, <2>2, <2>3
  <2> QED  BY <2>1, <2>4
<1>4. all \in [1 .. Len(D) -> S]  BY <1>2, <1>3
<1>5. I \in SUBSET (1 .. Len(D))  BY <1>2
<1>6. \A x \in S : x.call = "register" /\ IsText(x.route.path)  OBVIOUS
<1> HIDE DEF all, I, S, D
<1>7. all \in Seq(S) /\ Len(all) = Len(D)  BY <1>2, <1>4, SeqOfFunction
<1>8. Picked(all, I) \in Seq(S)  BY <1>5, <1>7, PickedIs
<1> DEFINE p == Picked(all, I)
<1>9. p \in Seq(Range(p)) /\ \A x \in Range(p) : x \in S
  <2> HIDE DEF p
  <2>1. p \in Seq(S)  BY <1>8 DEF p
  <2>2. \A i \in DOMAIN p : p[i] \in S  BY <2>1, LenProperties
  <2> QED  BY <2>1, <2>2, SeqIsText DEF IsText, Range
<1> QED  BY <1>1, <1>6, <1>9

LEMMA CallableIs ==
  ASSUME NEW x \in Callable
  PROVE  /\ x.call = "mount" => IsText(x.prefix) /\ IsText(x.directory)
         /\ x.call = "register" => IsText(x.route.path)
         /\ x.call = "interpret" => IsText(x.entities) /\ Range(x.entities) \subseteq Loaded
<1>1. CASE x \in Given
  <2>1. x.call = "interpret" => Range(x.entities) \subseteq Loaded
    BY <1>1 DEF Loaded
  <2> QED  BY <1>1, <2>1, ScriptAssumption
<1>2. CASE x \in Declared
  <2>1. PICK entity \in Loaded : x \in Range(RoutesOf(entity))
    BY <1>2 DEF Declared
  <2> QED  BY <2>1, RoutesOfAre
<1>3. CASE x = [call |-> "setVm"]
  BY <1>3
<1> QED  BY <1>1, <1>2, <1>3 DEF Callable

\* Sequences put after one another.  The function that puts them is defined for each first
\* part of them: there is no least one for which it is not.
LEMMA FlattenIs ==
  ASSUME NEW S, NEW seqs \in Seq(Seq(S))
  PROVE  FlattenSeq(seqs) \in Seq(S)
<1> DEFINE n == Len(seqs)
           Step(f, i) == IF i = 1 THEN seqs[i] ELSE f[i - 1] \o seqs[i]
           Good(f, k) == f \in [1 .. k -> Seq(S)] /\ \A i \in 1 .. k : f[i] = Step(f, i)
           Bad == {k \in Nat : k <= n /\ ~ \E f : Good(f, k)}
<1>1. n \in Nat /\ \A i \in 1 .. n : seqs[i] \in Seq(S)
  BY LenProperties
<1>2. ASSUME n = 0 PROVE FlattenSeq(seqs) \in Seq(S)
  <2>1. seqs = <<>>  BY <1>2, EmptySeq
  <2>2. FlattenSeq(seqs) = seqs  BY <1>2 DEF FlattenSeq
  <2> QED  BY <2>1, <2>2, EmptySeq
<1> HIDE DEF n
<1>3. Bad = {}
  <2> SUFFICES ASSUME Bad # {} PROVE FALSE
    OBVIOUS
  <2> DEFINE m == Min(Bad)
  <2>1. m \in Bad /\ \A k \in Bad : m <= k
    <3>1. Bad \in SUBSET Nat  OBVIOUS
    <3> HIDE DEF Bad
    <3> QED  BY <3>1, MinIs
  <2> HIDE DEF m
  <2>2. m \in Nat /\ m <= n /\ ~ \E f : Good(f, m)  BY <2>1
  <2>3. m # 0
    <3> DEFINE g == [i \in 1 .. 0 |-> <<>>]
    <3>1. g \in [1 .. 0 -> Seq(S)] /\ \A i \in 1 .. 0 : g[i] = Step(g, i)  OBVIOUS
    <3>2. Good(g, 0)  BY <3>1
    <3> HIDE DEF g, Good
    <3> QED  BY <2>2, <3>2
  <2>4. m - 1 \in Nat /\ m - 1 <= n /\ m - 1 \notin Bad
    <3>1. m - 1 \in Nat /\ m - 1 <= n /\ ~(m <= m - 1)  BY <1>1, <2>2, <2>3
    <3> HIDE DEF Bad
    <3> QED  BY <2>1, <3>1
  <2>5. PICK f : Good(f, m - 1)
    <3> HIDE DEF Good
    <3> QED  BY <2>4
  <2>6. f \in [1 .. m - 1 -> Seq(S)] /\ \A i \in 1 .. m - 1 : f[i] = Step(f, i)
    BY <2>5
  <2> DEFINE g == [i \in 1 .. m |-> IF i = m THEN Step(f, m) ELSE f[i]]
  <2>7. Step(f, m) \in Seq(S)
    <3>1. m \in 1 .. n  BY <1>1, <2>2, <2>3
    <3>2. CASE m = 1  BY <1>1, <3>1, <3>2
    <3>3. CASE m # 1
      <4>1. m - 1 \in 1 .. m - 1  BY <2>2, <2>3, <3>3
      <4>2. f[m - 1] \in Seq(S) /\ seqs[m] \in Seq(S)  BY <1>1, <2>6, <3>1, <4>1
      <4>3. f[m - 1] \o seqs[m] \in Seq(S)  BY <4>2, Joined
      <4> QED  BY <3>3, <4>3
    <3> QED  BY <3>2, <3>3
  <2>8. \A i \in 1 .. m : i # m => i \in 1 .. m - 1  BY <2>2
  <2>9. g \in [1 .. m -> Seq(S)]
    <3> HIDE DEF Step
    <3> QED  BY <2>6, <2>7, <2>8
  <2>10. \A i \in 1 .. m : g[i] = Step(g, i)
    <3> SUFFICES ASSUME NEW i \in 1 .. m PROVE g[i] = Step(g, i)
      OBVIOUS
    <3>1. i # 1 => g[i - 1] = f[i - 1]
      <4>1. i # 1 => i - 1 \in 1 .. m /\ i - 1 # m  BY <2>2
      <4> QED  BY <4>1
    <3>2. Step(g, i) = Step(f, i)  BY <3>1
    <3>3. g[i] = Step(f, i)
      <4>1. CASE i = m
        <5> HIDE DEF Step
        <5> QED  BY <4>1
      <4>2. CASE i # m
        <5>1. g[i] = f[i]  BY <4>2
        <5> QED  BY <2>6, <2>8, <4>2, <5>1
      <4> QED  BY <4>1, <4>2
    <3> QED  BY <3>2, <3>3
  <2>11. Good(g, m)
    <3> HIDE DEF g
    <3> QED  BY <2>9, <2>10
  <2> HIDE DEF g, Good
  <2> QED  BY <2>2, <2>11
<1>4. ASSUME n # 0 PROVE FlattenSeq(seqs) \in Seq(S)
  <2> DEFINE Whole1(g) == [i \in 1 .. n |-> Step(g, i)]
             whole == CHOOSE g : g = Whole1(g)
             Out == {i \in Nat : i \in 1 .. n /\ whole[i] \notin Seq(S)}
  <2>1. PICK f : Good(f, n)
    <3>1. n \notin Bad  BY <1>3
    <3> HIDE DEF Good
    <3> QED  BY <1>1, <3>1
  <2>2. f = Whole1(f)
    <3>1. f \in [1 .. n -> Seq(S)] /\ \A i \in 1 .. n : f[i] = Step(f, i)  BY <2>1
    <3>2. f = [i \in 1 .. n |-> f[i]]  BY <3>1
    <3> HIDE DEF Step
    <3> QED  BY <3>1, <3>2
  <2>3. whole = Whole1(whole)
    <3> HIDE DEF Whole1
    <3> QED  BY <2>2
  <2>4. \A i \in 1 .. n : whole[i] = Step(whole, i)
    <3> HIDE DEF whole, Step
    <3> QED  BY <2>3
  <2>5. FlattenSeq(seqs) = whole[n]
    BY <1>4 DEF FlattenSeq, n
  <2> HIDE DEF whole
  <2>6. Out = {}
    <3> SUFFICES ASSUME Out # {} PROVE FALSE
      OBVIOUS
    <3> DEFINE m == Min(Out)
    <3>1. m \in Out /\ \A k \in Out : m <= k
      <4>1. Out \in SUBSET Nat  OBVIOUS
      <4> HIDE DEF Out
      <4> QED  BY <4>1, MinIs
    <3> HIDE DEF m
    <3>2. m \in 1 .. n /\ whole[m] \notin Seq(S)  BY <3>1
    <3>3. CASE m = 1
      <4>1. whole[m] = seqs[m]  BY <2>4, <3>2, <3>3
      <4> QED  BY <1>1, <3>2, <4>1
    <3>4. CASE m # 1
      <4>1. m - 1 \in 1 .. n /\ m - 1 \in Nat /\ ~(m <= m - 1)  BY <1>1, <3>2, <3>4
      <4>2. whole[m - 1] \in Seq(S)  BY <3>1, <4>1
      <4>3. seqs[m] \in Seq(S)  BY <1>1, <3>2
      <4>4. whole[m - 1] \o seqs[m] \in Seq(S)  BY <4>2, <4>3, Joined
      <4>5. whole[m] = whole[m - 1] \o seqs[m]  BY <2>4, <3>2, <3>4
      <4> QED  BY <3>2, <4>4, <4>5
    <3> QED  BY <3>3, <3>4
  <2>7. n \in 1 .. n  BY <1>1, <1>4
  <2> QED  BY <2>5, <2>6, <2>7
<1> QED  BY <1>2, <1>4

\* What the decorators of the files loaded so far stand for.
LEMMA RegisterAllIs ==
  ASSUME NEW entities \in Seq(Loaded)
  PROVE  RegisterAll(entities) \in Seq(Callable)
<1> DEFINE seqs == [i \in DOMAIN entities |-> RoutesOf(entities[i])]
<1>1. Len(entities) \in Nat /\ DOMAIN entities = 1 .. Len(entities) /\ \A i \in DOMAIN entities : entities[i] \in Loaded
  BY LenProperties
<1>2. \A e \in Loaded : RoutesOf(e) \in Seq(Callable)
  <2> SUFFICES ASSUME NEW e \in Loaded PROVE RoutesOf(e) \in Seq(Callable)
    OBVIOUS
  <2>1. RoutesOf(e) \in Seq(Range(RoutesOf(e))) /\ Range(RoutesOf(e)) \subseteq Callable
    BY RoutesOfAre DEF Callable, Declared
  <2> DEFINE s == RoutesOf(e)
  <2>2. s \in Seq(Range(s)) /\ Range(s) \subseteq Callable  BY <2>1
  <2> HIDE DEF s
  <2>3. Len(s) \in Nat /\ s \in [1 .. Len(s) -> Range(s)]  BY <2>2, LenProperties
  <2>4. s \in [1 .. Len(s) -> Callable]  BY <2>2, <2>3
  <2>5. s \in Seq(Callable)  BY <2>3, <2>4, SeqOfFunction
  <2> QED  BY <2>5 DEF s
<1>3. seqs \in [1 .. Len(entities) -> Seq(Callable)]  BY <1>1, <1>2
<1>4. seqs \in Seq(Seq(Callable))
  <2> HIDE DEF seqs
  <2> QED  BY <1>1, <1>3, SeqOfFunction
<1>5. FlattenSeq(seqs) \in Seq(Callable)
  <2> HIDE DEF seqs
  <2> QED  BY <1>4, FlattenIs
<1> QED  BY <1>5 DEF RegisterAll

-----------------------------------------------------------------------------
(* What the invariant says of an answer *)

LEMMA ConfiguredIs ==
  ASSUME RouteTyped
  PROVE  /\ Configured \in Seq(Routable) /\ Len(Configured) \in Nat
         /\ DOMAIN Configured = 1 .. Len(Configured)
         /\ \A i \in DOMAIN Configured : IsText(Configured[i].path)
<1>1. Configured \in Seq(Routable)
  <2>1. CASE current = 0  BY <2>1, EmptySeq DEF Configured
  <2>2. CASE current # 0
    <3>1. current \in 1 .. Len(registries) /\ registries \in Seq(Registry)
      <4>1. registries \in Seq(Registry) /\ current \in 0 .. Len(registries) /\ Len(registries) \in Nat
        BY LenProperties DEF RouteTyped, ScriptTyped
      <4> QED  BY <2>2, <4>1
    <3>2. registries[current] \in Registry  BY <3>1, ElementOfSeq
    <3> QED  BY <2>2, <3>2 DEF Configured, Registry
  <2> QED  BY <2>1, <2>2
<1>2. \A r \in Routable : IsText(r.path)
  BY CallableIs DEF Routable
<1> HIDE DEF Configured
<1> QED  BY <1>1, <1>2, LenProperties

LEMMA MountsAre ==
  ASSUME RouteTyped
  PROVE  /\ mounts \in Seq(Mountable) /\ Len(mounts) \in Nat /\ DOMAIN mounts = 1 .. Len(mounts)
         /\ \A m \in DOMAIN mounts : IsText(mounts[m].prefix) /\ IsText(mounts[m].directory)
<1>1. mounts \in Seq(Mountable)  BY DEF RouteTyped, ScriptTyped
<1>2. \A m \in Mountable : IsText(m.prefix) /\ IsText(m.directory)
  BY CallableIs DEF Mountable, Callable
<1> QED  BY <1>1, <1>2, LenProperties

LEMMA FirstFollows == RouteInv => AnsweredByTheFirst
<1> SUFFICES ASSUME RouteInv, OneRegistry, NEW c \in Client, Answered(c)
             PROVE  LET may == {i \in DOMAIN Configured : MayServe(Configured[i], c)}
                        holding == {m \in DOMAIN mounts : wants[c].method = "GET" /\ Holds(mounts[m], wants[c].path)}
                        a == answer[c]
                    IN  /\ a.kind = "handler" => /\ may # {}
                                                 /\ a.handler = Configured[Min(may)].handler
                                                 /\ Wanted(Configured[Min(may)], c, a.params)
                        /\ a.kind = "500" => may # {} /\ Configured[Min(may)].handler \notin seen[c].ready
                        /\ a.kind = "404" => \A i \in may : i > seen[c].routes
                        /\ a.kind # "file" => \A m \in holding : m > seen[c].mounts
                        /\ a.kind = "file" => holding # {} /\ a.try.directory = mounts[Min(holding)].directory
  BY DEF AnsweredByTheFirst, OneRegistry
<1> DEFINE may == {i \in DOMAIN Configured : MayServe(Configured[i], c)}
           holding == {m \in DOMAIN mounts : wants[c].method = "GET" /\ Holds(mounts[m], wants[c].path)}
           a == answer[c]
<1>1. /\ RouteTyped /\ Told(c) /\ Filed(c) /\ IsText(wants[c].path) /\ wants[c].path # <<>>
      /\ a.kind \in {"file", "404", "500", "handler"}
  BY DEF RouteInv, RouteKnown, RouteTyped, ThreadsTyped, IsRequest, Answered
<1>2. may = Fitting(c) /\ may \in SUBSET Nat
  <2>1. \A i \in DOMAIN Configured : MayServe(Configured[i], c) <=> Fits(Configured[i], wants[c].method, wants[c].path)
    BY <1>1, ConfiguredIs, ServesIs
  <2>2. DOMAIN Configured \in SUBSET Nat  BY <1>1, ConfiguredIs
  <2> QED  BY <2>1, <2>2 DEF Fitting
<1>3. \A i \in Fitting(c) : Wanted(Configured[i], c, ParamsOf(i, c))
  BY <1>1, ConfiguredIs, ServesIs DEF Fitting, ParamsOf
<1>4. /\ wants[c].method = "GET" => holding = Opening(wants[c].path)
      /\ wants[c].method # "GET" => holding = {}
      /\ holding \in SUBSET Nat
  <2>1. \A m \in DOMAIN mounts :
          wants[c].path[1] = Slash => (FoundIn(mounts[m], wants[c].path) > 0 <=> Holds(mounts[m], wants[c].path))
    BY <1>1, MountsAre, FoundIsHeld
  <2>2. \A m \in DOMAIN mounts : Holds(mounts[m], wants[c].path) => wants[c].path[1] = Slash
    BY DEF Holds
  <2>3. DOMAIN mounts \in SUBSET Nat  BY <1>1, MountsAre
  <2> QED  BY <2>1, <2>2, <2>3 DEF Opening
<1> HIDE DEF may, holding
<1>5. ASSUME a.kind = "handler"
      PROVE  may # {} /\ a.handler = Configured[Min(may)].handler /\ Wanted(Configured[Min(may)], c, a.params)
  <2>1. PICK i \in Fitting(c) : /\ IsFirst(i, Fitting(c)) /\ a.handler = Configured[i].handler
                                /\ a.params = ParamsOf(i, c)
    BY <1>1, <1>5 DEF Told
  <2>2. Min(may) = i  BY <1>2, <2>1, MinIsThat
  <2> QED  BY <1>2, <1>3, <2>1, <2>2
<1>6. ASSUME a.kind = "500" PROVE may # {} /\ Configured[Min(may)].handler \notin seen[c].ready
  <2>1. PICK i \in Fitting(c) : IsFirst(i, Fitting(c)) /\ Configured[i].handler \notin seen[c].ready
    BY <1>1, <1>6 DEF Told
  <2>2. Min(may) = i  BY <1>2, <2>1, MinIsThat
  <2> QED  BY <1>2, <2>1, <2>2
<1>7. a.kind = "404" => \A i \in may : i > seen[c].routes
  BY <1>1, <1>2 DEF Told
<1>8. a.kind # "file" => \A m \in holding : m > seen[c].mounts
  BY <1>1, <1>4 DEF Filed, NotServed
<1>9. ASSUME a.kind = "file" PROVE holding # {} /\ a.try.directory = mounts[Min(holding)].directory
  <2>1. wants[c].method = "GET"  BY <1>1, <1>9 DEF Filed
  <2>2. PICK m \in Opening(wants[c].path) : /\ IsFirst(m, Opening(wants[c].path))
                                            /\ a.try.directory = mounts[m].directory
    BY <1>1, <1>9 DEF Filed
  <2>3. holding = Opening(wants[c].path)  BY <1>4, <2>1
  <2>4. Min(holding) = m  BY <1>4, <2>2, <2>3, MinIsThat
  <2> QED  BY <2>2, <2>3, <2>4
<1> QED  BY <1>5, <1>6, <1>7, <1>8, <1>9 DEF may, holding

-----------------------------------------------------------------------------
(* What is configured only grows *)

Grows ==
    /\ wants' = wants /\ globals \subseteq globals' /\ (vm => vm')
    /\ Len(mounts) <= Len(mounts') /\ \A m \in DOMAIN mounts : mounts'[m] = mounts[m]
    /\ Len(registries) <= Len(registries')
    /\ OneRegistry' => /\ OneRegistry /\ Len(Configured) <= Len(Configured')
                       /\ \A i \in DOMAIN Configured : Configured'[i] = Configured[i]

LEMMA ConfiguredLater == (RouteTyped => Len(Configured) \in Nat /\ DOMAIN Configured = 1 .. Len(Configured))'
<1>1. RouteTyped => Len(Configured) \in Nat /\ DOMAIN Configured = 1 .. Len(Configured)
  BY ConfiguredIs
<1> QED  BY <1>1, PTL

LEMMA MountsLater == (RouteTyped => Len(mounts) \in Nat /\ DOMAIN mounts = 1 .. Len(mounts))'
<1>1. RouteTyped => Len(mounts) \in Nat /\ DOMAIN mounts = 1 .. Len(mounts)
  BY MountsAre
<1> QED  BY <1>1, PTL

LEMMA FittingGrows ==
  ASSUME RouteTyped, RouteTyped', Grows, OneRegistry', NEW c \in Client
  PROVE  /\ \A i \in Fitting(c)' : i \in Nat /\ (i \in Fitting(c) \/ i > Len(Configured))
         /\ \A i \in Fitting(c) : /\ i \in Fitting(c)' /\ Configured'[i] = Configured[i]
                                  /\ ParamsOf(i, c)' = ParamsOf(i, c)
                                  /\ IsFirst(i, Fitting(c)) => IsFirst(i, Fitting(c)')
<1>1. /\ Len(Configured) \in Nat /\ DOMAIN Configured = 1 .. Len(Configured)
      /\ Len(Configured') \in Nat /\ DOMAIN Configured' = 1 .. Len(Configured')
      /\ Len(Configured) <= Len(Configured') /\ wants' = wants
      /\ \A i \in DOMAIN Configured : Configured'[i] = Configured[i]
  BY ConfiguredIs, ConfiguredLater DEF Grows
<1>2. ASSUME NEW i \in Fitting(c)' PROVE i \in Nat /\ (i \in Fitting(c) \/ i > Len(Configured))
  <2>1. i \in DOMAIN Configured' /\ Fits(Configured'[i], wants[c].method, wants[c].path)
    BY <1>1 DEF Fitting
  <2>2. i \in 1 .. Len(Configured) \/ i > Len(Configured)  BY <1>1, <2>1
  <2> QED  BY <1>1, <2>1, <2>2 DEF Fitting
<1>3. ASSUME NEW i \in Fitting(c)
      PROVE  /\ i \in Fitting(c)' /\ Configured'[i] = Configured[i]
             /\ ParamsOf(i, c)' = ParamsOf(i, c) /\ i <= Len(Configured)
  <2>1. i \in DOMAIN Configured /\ Fits(Configured[i], wants[c].method, wants[c].path)
    BY DEF Fitting
  <2>2. i \in DOMAIN Configured' /\ Configured'[i] = Configured[i] /\ i <= Len(Configured)  BY <1>1, <2>1
  <2> QED  BY <1>1, <2>1, <2>2 DEF Fitting, ParamsOf
<1>4. ASSUME NEW i \in Fitting(c), IsFirst(i, Fitting(c)) PROVE IsFirst(i, Fitting(c)')
  <2>1. i \in Fitting(c)' /\ i <= Len(Configured) /\ i \in Nat  BY <1>2, <1>3
  <2>2. \A j \in Fitting(c)' : i <= j
    <3> SUFFICES ASSUME NEW j \in Fitting(c)' PROVE i <= j
      OBVIOUS
    <3>1. j \in Nat /\ (j \in Fitting(c) \/ j > Len(Configured))  BY <1>2
    <3>2. j \in Fitting(c) => i <= j  BY <1>4 DEF IsFirst
    <3> QED  BY <1>1, <2>1, <3>1, <3>2
  <2> QED  BY <2>1, <2>2 DEF IsFirst
<1> QED  BY <1>2, <1>3, <1>4

LEMMA OpeningGrows ==
  ASSUME RouteTyped, RouteTyped', Grows, NEW path
  PROVE  /\ \A m \in Opening(path)' : m \in Nat /\ (m \in Opening(path) \/ m > Len(mounts))
         /\ \A m \in Opening(path) : /\ m \in Opening(path)' /\ mounts'[m] = mounts[m]
                                     /\ IsFirst(m, Opening(path)) => IsFirst(m, Opening(path)')
<1>1. /\ Len(mounts) \in Nat /\ DOMAIN mounts = 1 .. Len(mounts)
      /\ Len(mounts') \in Nat /\ DOMAIN mounts' = 1 .. Len(mounts')
      /\ Len(mounts) <= Len(mounts') /\ \A m \in DOMAIN mounts : mounts'[m] = mounts[m]
  BY MountsAre, MountsLater DEF Grows
<1>2. ASSUME NEW m \in Opening(path)' PROVE m \in Nat /\ (m \in Opening(path) \/ m > Len(mounts))
  <2>1. m \in DOMAIN mounts' /\ path[1] = Slash /\ FoundIn(mounts'[m], path) > 0
    BY DEF Opening
  <2>2. m \in 1 .. Len(mounts) \/ m > Len(mounts)  BY <1>1, <2>1
  <2> QED  BY <1>1, <2>1, <2>2 DEF Opening
<1>3. ASSUME NEW m \in Opening(path) PROVE m \in Opening(path)' /\ mounts'[m] = mounts[m] /\ m <= Len(mounts)
  <2>1. m \in DOMAIN mounts /\ path[1] = Slash /\ FoundIn(mounts[m], path) > 0
    BY DEF Opening
  <2>2. m \in DOMAIN mounts' /\ mounts'[m] = mounts[m] /\ m <= Len(mounts)  BY <1>1, <2>1
  <2> QED  BY <1>1, <2>1, <2>2 DEF Opening
<1>4. ASSUME NEW m \in Opening(path), IsFirst(m, Opening(path)) PROVE IsFirst(m, Opening(path)')
  <2>1. m \in Opening(path)' /\ m <= Len(mounts) /\ m \in Nat  BY <1>2, <1>3
  <2>2. \A j \in Opening(path)' : m <= j
    <3> SUFFICES ASSUME NEW j \in Opening(path)' PROVE m <= j
      OBVIOUS
    <3>1. j \in Nat /\ (j \in Opening(path) \/ j > Len(mounts))  BY <1>2
    <3>2. j \in Opening(path) => m <= j  BY <1>4 DEF IsFirst
    <3> QED  BY <1>1, <2>1, <3>1, <3>2
  <2> QED  BY <2>1, <2>2 DEF IsFirst
<1> QED  BY <1>2, <1>3, <1>4

\* A client's part of the invariant, when only what is configured changes.
LEMMA SawStays ==
  ASSUME RouteTyped, RouteTyped', Grows, NEW c \in Client, Saw(c), seen'[c] = seen[c]
  PROVE  Saw(c)'
<1>1. /\ seen[c].mounts \in Nat /\ seen[c].routes \in Nat
      /\ Len(mounts) \in Nat /\ Len(mounts') \in Nat /\ Len(Configured) \in Nat /\ Len(Configured') \in Nat
  BY MountsAre, MountsLater, ConfiguredIs, ConfiguredLater DEF RouteTyped, ThreadsTyped
<1> QED  BY <1>1 DEF Saw, Grows

LEMMA ToldStays ==
  ASSUME RouteTyped, RouteTyped', Grows, NEW c \in Client, Saw(c), Told(c), seen'[c] = seen[c],
         answer'[c] = answer[c]
  PROVE  Told(c)'
<1> SUFFICES ASSUME OneRegistry'
             PROVE  /\ answer[c].kind = "handler" =>
                         \E i \in Fitting(c)' : /\ IsFirst(i, Fitting(c)')
                                                /\ answer[c].handler = Configured'[i].handler
                                                /\ answer[c].params = ParamsOf(i, c)'
                    /\ answer[c].kind = "500" =>
                         \E i \in Fitting(c)' : IsFirst(i, Fitting(c)') /\ Configured'[i].handler \notin seen[c].ready
                    /\ answer[c].kind = "404" => \A i \in Fitting(c)' : i > seen[c].routes
  BY DEF Told
<1>0. OneRegistry  BY DEF Grows
<1>1. /\ \A i \in Fitting(c)' : i \in Nat /\ (i \in Fitting(c) \/ i > Len(Configured))
      /\ \A i \in Fitting(c) : /\ i \in Fitting(c)' /\ Configured'[i] = Configured[i]
                               /\ ParamsOf(i, c)' = ParamsOf(i, c)
                               /\ IsFirst(i, Fitting(c)) => IsFirst(i, Fitting(c)')
  BY FittingGrows
<1>2. ASSUME answer[c].kind = "handler"
      PROVE  \E i \in Fitting(c)' : /\ IsFirst(i, Fitting(c)') /\ answer[c].handler = Configured'[i].handler
                                    /\ answer[c].params = ParamsOf(i, c)'
  <2>1. PICK i \in Fitting(c) : /\ IsFirst(i, Fitting(c)) /\ answer[c].handler = Configured[i].handler
                                /\ answer[c].params = ParamsOf(i, c)
    BY <1>0, <1>2 DEF Told
  <2> QED  BY <1>1, <2>1
<1>3. ASSUME answer[c].kind = "500"
      PROVE  \E i \in Fitting(c)' : IsFirst(i, Fitting(c)') /\ Configured'[i].handler \notin seen[c].ready
  <2>1. PICK i \in Fitting(c) : IsFirst(i, Fitting(c)) /\ Configured[i].handler \notin seen[c].ready
    BY <1>0, <1>3 DEF Told
  <2> QED  BY <1>1, <2>1
<1>4. ASSUME answer[c].kind = "404", NEW i \in Fitting(c)' PROVE i > seen[c].routes
  <2>1. i \in Fitting(c) => i > seen[c].routes  BY <1>0, <1>4 DEF Told
  <2>2. seen[c].routes <= Len(Configured) /\ seen[c].routes \in Nat /\ Len(Configured) \in Nat
    BY <1>0, ConfiguredIs DEF Saw, RouteTyped, ThreadsTyped
  <2> QED  BY <1>1, <2>1, <2>2
<1> QED  BY <1>2, <1>3, <1>4

LEMMA FiledStays ==
  ASSUME RouteTyped, RouteTyped', Grows, NEW c \in Client, Saw(c), Filed(c), seen'[c] = seen[c],
         answer'[c] = answer[c], NotServed(c)' => NotServed(c)
  PROVE  Filed(c)'
<1> DEFINE path == wants[c].path
<1>1. \A p : /\ \A m \in Opening(p)' : m \in Nat /\ (m \in Opening(p) \/ m > Len(mounts))
             /\ \A m \in Opening(p) : /\ m \in Opening(p)' /\ mounts'[m] = mounts[m]
                                      /\ IsFirst(m, Opening(p)) => IsFirst(m, Opening(p)')
  BY OpeningGrows
<1>2. wants' = wants  BY DEF Grows
<1>3. ASSUME NotServed(c)', wants[c].method = "GET", NEW m \in Opening(path)' PROVE m > seen[c].mounts
  <2>0. m \in Nat /\ (m \in Opening(path) \/ m > Len(mounts))  BY <1>1, <1>2
  <2>1. m \in Opening(path) => m > seen[c].mounts  BY <1>3 DEF Filed
  <2>2. seen[c].mounts <= Len(mounts) /\ seen[c].mounts \in Nat /\ Len(mounts) \in Nat
    BY MountsAre DEF Saw, RouteTyped, ThreadsTyped
  <2> QED  BY <2>0, <2>1, <2>2
<1> QED  BY <1>1, <1>2, <1>3 DEF Filed

LEMMA StaysKnown ==
  ASSUME RouteTyped, RouteTyped', Grows, NEW c \in Client, RouteKnown(c), pc'[c] = pc[c],
         local'[c] = local[c], answer'[c] = answer[c], seen'[c] = seen[c]
  PROVE  RouteKnown(c)'
<1>1. Saw(c) /\ Looking(c) /\ Told(c) /\ Filed(c)  BY DEF RouteKnown
<1>2. Saw(c)'  BY <1>1, SawStays
<1>3. Told(c)'  BY <1>1, ToldStays
<1>4. Filed(c)'
  <2>1. NotServed(c)' => NotServed(c)  BY DEF NotServed
  <2> QED  BY <1>1, <2>1, FiledStays
<1>5. Looking(c)'
  <2>1. Len(registries) \in Nat /\ Len(registries') \in Nat /\ Len(registries) <= Len(registries')
    BY LenProperties DEF RouteTyped, ScriptTyped, Grows
  <2>2. pc[c] \in {"finding", "extracting", "calling"} => local[c].registry \in 1 .. Len(registries')
    BY <1>1, <2>1 DEF Looking
  <2>3. ASSUME OneRegistry', pc[c] \in {"extracting", "calling"} PROVE IsFirst(local[c].route, Fitting(c)')
    <3>1. OneRegistry  BY <2>3 DEF Grows
    <3>2. IsFirst(local[c].route, Fitting(c)) /\ local[c].route \in Fitting(c)
      BY <1>1, <2>3, <3>1 DEF Looking, IsFirst
    <3> QED  BY <2>3, <3>2, FittingGrows
  <2>4. ASSUME OneRegistry', pc[c] = "calling" PROVE local[c].params = ParamsOf(local[c].route, c)'
    <3>1. OneRegistry  BY <2>4 DEF Grows
    <3>2. local[c].route \in Fitting(c) /\ local[c].params = ParamsOf(local[c].route, c)
      BY <1>1, <2>4, <3>1 DEF Looking, IsFirst
    <3>3. \A i \in Fitting(c) : ParamsOf(i, c)' = ParamsOf(i, c)  BY <2>4, FittingGrows
    <3>4. ParamsOf(local[c].route, c)' = ParamsOf(local[c].route, c)
      <4> DEFINE i == local[c].route
      <4>1. Configured'[i] = Configured[i] /\ wants' = wants  BY <2>4, <3>2, FittingGrows DEF Grows
      <4>2. local'[c].route = i  OBVIOUS
      <4> QED  BY <4>1, <4>2 DEF ParamsOf
    <3> QED  BY <3>2, <3>4
  <2>5. pc[c] = "connecting" => answer[c].kind = "none"  BY <1>1 DEF Looking
  <2> QED  BY <2>2, <2>3, <2>4, <2>5 DEF Looking
<1> QED  BY <1>2, <1>3, <1>4, <1>5 DEF RouteKnown

-----------------------------------------------------------------------------
(* Steps of an I/O thread *)

Settled == UNCHANGED <<wants, scriptVars, registryVars>>

LEMMA SettledIs ==
  ASSUME RouteTyped, Settled
  PROVE  /\ ScriptTyped' /\ Grows /\ (OneRegistry' <=> OneRegistry) /\ Configured' = Configured
         /\ mounts' = mounts /\ registries' = registries /\ wants' = wants /\ vm' = vm /\ globals' = globals
         /\ \A c \in Client : Fitting(c)' = Fitting(c)
         /\ \A p : Opening(p)' = Opening(p)
<1>1. /\ wants' = wants /\ mounts' = mounts /\ registries' = registries /\ current' = current
      /\ globals' = globals /\ vm' = vm /\ script' = script /\ metadata' = metadata /\ held' = held
  BY DEF Settled, scriptVars, registryVars
<1>2. ScriptTyped'  BY <1>1 DEF RouteTyped, ScriptTyped
<1>3. Configured' = Configured /\ (OneRegistry' <=> OneRegistry)  BY <1>1 DEF Configured, OneRegistry
<1>4. Len(mounts) \in Nat /\ Len(Configured) \in Nat /\ Len(registries) \in Nat
  BY MountsAre, ConfiguredIs, LenProperties DEF RouteTyped, ScriptTyped
<1>5. Grows  BY <1>1, <1>3, <1>4 DEF Grows
<1>6. \A c \in Client : Fitting(c)' = Fitting(c)  BY <1>1, <1>3 DEF Fitting
<1>7. \A p : Opening(p)' = Opening(p)  BY <1>1 DEF Opening
<1> QED  BY <1>1, <1>2, <1>3, <1>5, <1>6, <1>7

Kinds == {"none", "file", "404", "500", "handler"}
\* The thread of one client goes on, and nothing else happens.
Turn(c, place, l, a) ==
    /\ DOMAIN pc' = Client /\ DOMAIN local' = Client /\ DOMAIN answer' = Client /\ seen' = seen
    /\ pc'[c] = place /\ local'[c] = l /\ answer'[c] = a
    /\ \A d \in Client \ {c} : pc'[d] = pc[d] /\ local'[d] = local[d] /\ answer'[d] = answer[d]
    /\ DOMAIN l = DOMAIN NoLocal /\ a.kind \in Kinds

LEMMA TurnTyped ==
  ASSUME ThreadsTyped, wants' = wants, NEW c \in Client, NEW place, NEW l, NEW a, Turn(c, place, l, a)
  PROVE  /\ ThreadsTyped' /\ pc'[c] = place /\ local'[c] = l /\ answer'[c] = a /\ seen' = seen
         /\ \A d \in Client \ {c} : pc'[d] = pc[d] /\ local'[d] = local[d] /\ answer'[d] = answer[d]
<1> HIDE DEF NoLocal
<1>1. /\ DOMAIN pc' = Client /\ DOMAIN local' = Client /\ DOMAIN answer' = Client /\ seen' = seen
      /\ pc'[c] = place /\ local'[c] = l /\ answer'[c] = a
      /\ \A d \in Client \ {c} : pc'[d] = pc[d] /\ local'[d] = local[d] /\ answer'[d] = answer[d]
  BY DEF ThreadsTyped, Turn
<1>2. DOMAIN l = DOMAIN NoLocal /\ a.kind \in Kinds  BY DEF Turn
<1>3. \A d \in Client : /\ DOMAIN local'[d] = DOMAIN NoLocal
                        /\ answer'[d].kind \in {"none", "file", "404", "500", "handler"}
  <2> SUFFICES ASSUME NEW d \in Client
               PROVE  /\ DOMAIN local'[d] = DOMAIN NoLocal
                      /\ answer'[d].kind \in {"none", "file", "404", "500", "handler"}
    OBVIOUS
  <2>1. CASE d = c  BY <1>1, <1>2, <2>1 DEF Kinds
  <2>2. CASE d # c  BY <1>1, <2>2 DEF ThreadsTyped
  <2> QED  BY <2>1, <2>2
<1> QED  BY <1>1, <1>3 DEF ThreadsTyped

LEMMA TurnIsEnough ==
  ASSUME RouteInv, Settled, NEW c \in Client, NEW place, NEW l, NEW a, Turn(c, place, l, a),
         Looking(c)', Told(c)', Filed(c)'
  PROVE  RouteInv'
<1>1. RouteTyped /\ RouteTyped' /\ Grows
  BY SettledIs, TurnTyped DEF RouteInv, RouteTyped
<1>2. /\ seen' = seen
      /\ \A d \in Client \ {c} : pc'[d] = pc[d] /\ local'[d] = local[d] /\ answer'[d] = answer[d]
  BY SettledIs, TurnTyped DEF RouteInv, RouteTyped
<1>3. \A d \in Client \ {c} : RouteKnown(d)'
  BY <1>1, <1>2, StaysKnown DEF RouteInv
<1>4. Saw(c)'
  BY <1>1, <1>2, SawStays DEF RouteInv, RouteKnown
<1>5. RouteKnown(c)'  BY <1>4 DEF RouteKnown
<1> QED  BY <1>1, <1>3, <1>5 DEF RouteInv

\* Away from the routes a thread changes nothing that the invariant speaks of.
LEMMA QuietKnown ==
  ASSUME RouteInv, Settled, NEW c \in Client, NEW place, NEW l, Turn(c, place, l, answer[c]),
         place \notin {"connecting", "creating", "finding", "extracting", "calling"}
  PROVE  RouteInv'
<1>1. RouteTyped /\ RouteTyped' /\ Grows
  BY SettledIs, TurnTyped DEF RouteInv, RouteTyped
<1>2. pc'[c] = place /\ answer'[c] = answer[c] /\ seen' = seen
  BY <1>1, SettledIs, TurnTyped DEF RouteTyped
<1>3. Saw(c) /\ Told(c) /\ Filed(c)  BY DEF RouteInv, RouteKnown
<1>4. Told(c)'  BY <1>1, <1>2, <1>3, ToldStays
<1>5. Filed(c)'
  <2>1. NotServed(c)' => NotServed(c)  BY <1>2 DEF NotServed
  <2> QED  BY <1>1, <1>2, <1>3, <2>1, FiledStays
<1>6. Looking(c)'  BY <1>2 DEF Looking
<1> QED  BY <1>4, <1>5, <1>6, TurnIsEnough

LEMMA TurnBy ==
  ASSUME ThreadsTyped, NEW c \in Client, NEW place, NEW l, NEW a,
         Goes(c, place) \/ (pc' = pc /\ place = pc[c]),
         Keeps(c, l) \/ (local' = local /\ l = local[c]),
         answer' = [answer EXCEPT ![c] = a] \/ (answer' = answer /\ a = answer[c]),
         seen' = seen, DOMAIN l = DOMAIN local[c], a.kind \in Kinds
  PROVE  Turn(c, place, l, a)
<1> HIDE DEF NoLocal
<1>1. DOMAIN pc = Client /\ DOMAIN local = Client /\ DOMAIN answer = Client /\ DOMAIN local[c] = DOMAIN NoLocal
  BY DEF ThreadsTyped
<1>2. DOMAIN pc' = Client /\ pc'[c] = place /\ \A d \in Client \ {c} : pc'[d] = pc[d]
  BY <1>1 DEF Goes
<1>3. DOMAIN local' = Client /\ local'[c] = l /\ \A d \in Client \ {c} : local'[d] = local[d]
  BY <1>1 DEF Keeps
<1>4. DOMAIN answer' = Client /\ answer'[c] = a /\ \A d \in Client \ {c} : answer'[d] = answer[d]
  BY <1>1
<1> QED  BY <1>1, <1>2, <1>3, <1>4 DEF Turn

LEMMA QuietStep ==
  ASSUME RouteInv, NEW c \in Client,
         \/ ReadNothing(c) \/ ReadHead(c) \/ ReadBody(c) \/ BodyEnds(c) \/ ReadChunk(c) \/ ChunksEnd(c)
         \/ UseMoved(c) \/ HandlerReturns(c)
  PROVE  RouteInv'
<1> HIDE DEF NoLocal
<1> DEFINE Away == {"closed", "static", "chunks", "body", "undefined"}
<1>1. ThreadsTyped /\ answer[c].kind \in Kinds
  BY DEF RouteInv, RouteTyped, ThreadsTyped, Kinds
<1>2. Settled /\ seen' = seen
  BY DEF Settled, ThreadOnly, clientVars, scriptVars, registryVars, ReadNothing, ReadHead, ReadBody, BodyEnds,
         ReadChunk, ChunksEnd, UseMoved, HandlerReturns
<1> DEFINE Quiet == /\ \E place \in Away : \E l :
                         /\ Goes(c, place) \/ (pc' = pc /\ place = pc[c])
                         /\ DOMAIN l = DOMAIN local[c]
                         /\ Keeps(c, l) \/ (local' = local /\ l = local[c])
                    /\ answer' = [answer EXCEPT ![c] = answer[c]] \/ answer' = answer
<1>3. ASSUME ReadNothing(c) \/ BodyEnds(c) \/ ChunksEnd(c) \/ UseMoved(c) \/ HandlerReturns(c) PROVE Quiet
  BY <1>3 DEF ReadNothing, BodyEnds, ChunksEnd, UseMoved, HandlerReturns, Answers
<1>4. ASSUME ReadHead(c) PROVE Quiet
  <2> DEFINE n == Min({Buffer - 1, Unread(c)})
             initial == Initial(c, n)
             length == IF n >= 3 THEN wants[c].length ELSE None
             kept(body) == [local[c] EXCEPT !.taken = n, !.first = n, !.body = body, !.room = Buffer]
  <2>1. \/ Keeps(c, kept(<<>>)) /\ Goes(c, "static")
        \/ Keeps(c, kept(initial)) /\ Goes(c, "chunks")
        \/ Keeps(c, kept(Prefix(initial, length))) /\ Goes(c, "body")
        \/ Keeps(c, kept(initial)) /\ Goes(c, "static")
    BY <1>4 DEF ReadHead
  <2>3. \A body : DOMAIN kept(body) = DOMAIN local[c]  OBVIOUS
  <2>2. answer' = answer  BY <1>4 DEF ReadHead
  <2> HIDE DEF kept, initial, length
  <2> QED  BY <2>1, <2>2, <2>3
<1>5. ASSUME ReadBody(c) PROVE Quiet
  <2>1. pc[c] \in Away /\ pc' = pc
    BY <1>5 DEF ReadBody, At
  <2>2. answer' = answer /\ \E l : DOMAIN l = DOMAIN local[c] /\ Keeps(c, l)
    BY <1>5 DEF ReadBody
  <2> QED  BY <2>1, <2>2
<1>6. ASSUME ReadChunk(c) PROVE Quiet
  BY <1>6 DEF ReadChunk
<1>7. Quiet  BY <1>3, <1>4, <1>5, <1>6
<1>8. PICK place \in Away : \E l : /\ Goes(c, place) \/ (pc' = pc /\ place = pc[c])
                                   /\ DOMAIN l = DOMAIN local[c]
                                   /\ Keeps(c, l) \/ (local' = local /\ l = local[c])
  BY <1>7
<1>9. PICK l : /\ Goes(c, place) \/ (pc' = pc /\ place = pc[c])
               /\ DOMAIN l = DOMAIN local[c]
               /\ Keeps(c, l) \/ (local' = local /\ l = local[c])
  BY <1>8
<1>10. Turn(c, place, l, answer[c])
  BY <1>1, <1>2, <1>7, <1>9, TurnBy
<1>11. place \notin {"connecting", "creating", "finding", "extracting", "calling"}  OBVIOUS
<1> QED  BY <1>2, <1>10, <1>11, QuietKnown

\* The first mount in which something opens.
LEMMA AnswerStaticStep ==
  ASSUME RouteInv, NEW c \in Client, AnswerStatic(c)
  PROVE  RouteInv'
<1> HIDE DEF NoLocal
<1> DEFINE path == wants[c].path
           m == Min(Opening(path))
<1>1. /\ RouteTyped /\ ThreadsTyped /\ DOMAIN local[c] = DOMAIN NoLocal /\ IsText(path) /\ path # <<>>
      /\ wants[c].method = "GET" /\ Opening(path) # {}
  BY DEF RouteInv, RouteTyped, ThreadsTyped, AnswerStatic, IsRequest
<1>2. Settled /\ seen' = seen /\ local' = local
  BY DEF AnswerStatic, Settled, ThreadOnly, clientVars, scriptVars, registryVars
<1>3. m \in Opening(path) /\ IsFirst(m, Opening(path))
  <2>1. Opening(path) \in SUBSET Nat  BY <1>1, MountsAre DEF Opening
  <2> QED  BY <1>1, <2>1, MinIs DEF IsFirst
<1>4. FirstFound(path).directory = mounts[m].directory
  <2>1. m \in DOMAIN mounts /\ FoundIn(mounts[m], path) > 0  BY <1>3 DEF Opening
  <2> HIDE DEF path, m
  <2>2. TriedIn(mounts[m], path)[FoundIn(mounts[m], path)].directory = mounts[m].directory
    BY <1>1, <2>1, MountsAre, FoundIsHeld
  <2> QED  BY <2>2 DEF FirstFound, m
<1>5. PICK s \in Served(KindOf(FirstFound(path))) :
        Answers(c, [kind |-> "file", try |-> FirstFound(path), status |-> s.status, body |-> s.body])
  BY DEF AnswerStatic
<1> DEFINE a == [kind |-> "file", try |-> FirstFound(path), status |-> s.status, body |-> s.body]
<1>6. a.kind = "file" /\ a.try = FirstFound(path)  OBVIOUS
<1>7. Answers(c, a)  BY <1>5
<1> HIDE DEF a, m
<1>8. Turn(c, "closed", local[c], a)
  <2>1. a.kind \in Kinds  BY <1>6 DEF Kinds
  <2> QED  BY <1>1, <1>2, <1>7, <2>1, TurnBy DEF Answers
<1>9. /\ pc'[c] = "closed" /\ answer'[c] = a /\ wants' = wants /\ mounts' = mounts
      /\ \A p : Opening(p)' = Opening(p)
  BY <1>1, <1>2, <1>8, SettledIs DEF Turn
<1>10. Looking(c)'  BY <1>9 DEF Looking
<1>11. Told(c)'  BY <1>6, <1>9 DEF Told
<1>12. Filed(c)'
  <2>1. ~NotServed(c)'  BY <1>6, <1>9 DEF NotServed
  <2>2. m \in Opening(path) /\ IsFirst(m, Opening(path)) /\ a.try.directory = mounts[m].directory
    BY <1>3, <1>4, <1>6
  <2> QED  BY <1>1, <1>9, <2>1, <2>2 DEF Filed
<1> QED  BY <1>2, <1>8, <1>10, <1>11, <1>12, TurnIsEnough

LEMMA NotStaticStep ==
  ASSUME RouteInv, NEW c \in Client, NotStatic(c)
  PROVE  RouteInv'
<1> HIDE DEF NoLocal
<1> DEFINE path == wants[c].path
           place == IF current = 0 THEN "creating" ELSE "finding"
           l == IF current = 0 THEN local[c] ELSE [local[c] EXCEPT !.registry = current]
<1>1. /\ RouteTyped /\ ThreadsTyped /\ DOMAIN local[c] = DOMAIN NoLocal /\ answer[c].kind \in Kinds
      /\ Saw(c) /\ Told(c) /\ Filed(c)
      /\ wants[c].method = "GET" => Opening(path) = {}
  BY DEF RouteInv, RouteKnown, RouteTyped, ThreadsTyped, NotStatic, Kinds
<1>2. Settled /\ seen' = seen /\ answer' = answer
  BY DEF NotStatic, Settled, ThreadOnly, clientVars, scriptVars, registryVars
<1>3. /\ Goes(c, place) /\ (Keeps(c, l) \/ (local' = local /\ l = local[c]))
      /\ DOMAIN l = DOMAIN local[c]
      /\ current # 0 => l.registry = current
  <2>1. "registry" \in DOMAIN local[c]  BY <1>1 DEF NoLocal
  <2> QED  BY <2>1 DEF NotStatic
<1>4. place \in {"creating", "finding"} /\ (place = "finding" => current # 0)
  OBVIOUS
<1> HIDE DEF place, l
<1>5. Turn(c, place, l, answer[c])  BY <1>1, <1>2, <1>3, TurnBy
<1>6. /\ pc'[c] = place /\ answer'[c] = answer[c] /\ local'[c] = l /\ wants' = wants /\ registries' = registries
      /\ Grows /\ RouteTyped' /\ \A p : Opening(p)' = Opening(p)
  <2>1. ThreadsTyped'  BY <1>1, <1>2, <1>5, SettledIs, TurnTyped
  <2> QED  BY <1>1, <1>2, <1>5, <2>1, SettledIs DEF Turn, RouteTyped
<1>7. Looking(c)'
  <2>1. place = "finding" => l.registry \in 1 .. Len(registries)
    BY <1>1, <1>3, <1>4, LenProperties DEF RouteTyped, ScriptTyped
  <2> QED  BY <1>4, <1>6, <2>1 DEF Looking
<1>8. Told(c)'  BY <1>1, <1>2, <1>6, ToldStays
<1>9. Filed(c)'
  <2>1. wants[c].method = "GET" => answer[c].kind # "file" \/ Opening(path) = {}  BY <1>1
  <2> QED  BY <1>1, <1>6 DEF Filed
<1> QED  BY <1>2, <1>5, <1>7, <1>8, <1>9, TurnIsEnough

\* With one registry the thread's is the current one, and its routes are those configured.
LEMMA OneIsCurrent ==
  ASSUME RouteTyped, OneRegistry, NEW r \in 1 .. Len(registries)
  PROVE  registries[r].routes = Configured
<1>1. Len(registries) \in Nat /\ current \in 0 .. Len(registries) /\ (registries # <<>> => current # 0)
  BY LenProperties DEF RouteTyped, ScriptTyped
<1>2. registries # <<>>
  <2>1. registries = <<>> => Len(registries) = 0  BY EmptySeq
  <2> QED  BY <1>1, <2>1
<1>3. current = r  BY <1>1, <1>2 DEF OneRegistry
<1>4. r # 0  BY <1>1
<1> QED  BY <1>3, <1>4 DEF Configured

\* route_find finds the first that fits.
LEMMA RouteFindIs ==
  ASSUME RouteTyped, NEW c \in Client
  PROVE  LET i == RouteFind(Configured, wants[c].method, wants[c].path)
         IN  /\ i = 0 => Fitting(c) = {}
             /\ i # 0 => IsFirst(i, Fitting(c))
<1> DEFINE I == {i \in 1 .. Len(Configured) : Fits(Configured[i], wants[c].method, wants[c].path)}
           i == RouteFind(Configured, wants[c].method, wants[c].path)
<1>1. I = Fitting(c) /\ I \in SUBSET Nat /\ 0 \notin I  BY ConfiguredIs DEF Fitting
<1>2. i = IF I # {} THEN Min(I) ELSE 0  BY DEF RouteFind, SelectInSeq
<1> HIDE DEF I, i
<1>3. I # {} => Min(I) \in I /\ \A j \in I : Min(I) <= j  BY <1>1, MinIs
<1>4. i = 0 => I = {}  BY <1>1, <1>2, <1>3
<1>5. i # 0 => IsFirst(i, I)  BY <1>2, <1>3 DEF IsFirst
<1> QED  BY <1>1, <1>4, <1>5 DEF i

LEMMA FindStep ==
  ASSUME RouteInv, NEW c \in Client, Find(c)
  PROVE  RouteInv'
<1> HIDE DEF NoLocal
<1> DEFINE i == RouteFind(Mapped(c).routes, wants[c].method, wants[c].path)
           l == [local[c] EXCEPT !.route = i, !.moves = Mapped(c).moves]
           none == [kind |-> "404"]
<1>1. /\ RouteTyped /\ ThreadsTyped /\ DOMAIN local[c] = DOMAIN NoLocal /\ answer[c].kind \in Kinds
      /\ Saw(c) /\ Told(c) /\ Filed(c) /\ NotServed(c) /\ local[c].registry \in 1 .. Len(registries)
  BY DEF RouteInv, RouteKnown, RouteTyped, ThreadsTyped, Find, Kinds, At, NotServed, Looking
<1>2. Settled /\ seen' = seen
  BY DEF Find, Settled, ThreadOnly, clientVars, scriptVars, registryVars
<1>3. ASSUME OneRegistry
      PROVE  (i = 0 => Fitting(c) = {}) /\ (i # 0 => IsFirst(i, Fitting(c)))
  <2>1. Mapped(c).routes = Configured  BY <1>1, <1>3, OneIsCurrent DEF Mapped
  <2> QED  BY <1>1, <2>1, RouteFindIs
<1>4. DOMAIN l = DOMAIN local[c] /\ l.registry = local[c].registry /\ l.route = i
  <2>1. "registry" \in DOMAIN local[c] /\ "route" \in DOMAIN local[c]  BY <1>1 DEF NoLocal
  <2> HIDE DEF i
  <2> QED  BY <2>1
<1>5. \/ i = 0 /\ Answers(c, none) /\ local' = local
      \/ i # 0 /\ Keeps(c, l) /\ Goes(c, "extracting") /\ answer' = answer
  BY DEF Find
<1>6. none.kind = "404"  OBVIOUS
<1> HIDE DEF i, l, none
<1>7. CASE i = 0 /\ Answers(c, none) /\ local' = local
  <2>1. Turn(c, "closed", local[c], none)
    <3>1. none.kind \in Kinds  BY <1>6 DEF Kinds
    <3> QED  BY <1>1, <1>2, <1>7, <3>1, TurnBy DEF Answers
  <2>2. /\ pc'[c] = "closed" /\ answer'[c] = none /\ wants' = wants /\ (OneRegistry' <=> OneRegistry)
        /\ Fitting(c)' = Fitting(c) /\ seen' = seen /\ \A p : Opening(p)' = Opening(p)
    BY <1>1, <1>2, <2>1, SettledIs DEF Turn
  <2>3. Looking(c)'  BY <2>2 DEF Looking
  <2>4. Told(c)'
    <3>1. OneRegistry => Fitting(c) = {}  BY <1>3, <1>7
    <3>2. answer'[c].kind = "404"  BY <1>6, <2>2
    <3> QED  BY <2>2, <3>1, <3>2 DEF Told
  <2>5. Filed(c)'  BY <1>1, <1>6, <2>2 DEF Filed
  <2> QED  BY <1>2, <2>1, <2>3, <2>4, <2>5, TurnIsEnough
<1>8. CASE i # 0 /\ Keeps(c, l) /\ Goes(c, "extracting") /\ answer' = answer
  <2>1. Turn(c, "extracting", l, answer[c])  BY <1>1, <1>2, <1>4, <1>8, TurnBy
  <2>2. /\ pc'[c] = "extracting" /\ answer'[c] = answer[c] /\ local'[c] = l /\ wants' = wants
        /\ registries' = registries /\ (OneRegistry' <=> OneRegistry) /\ Fitting(c)' = Fitting(c)
        /\ seen' = seen /\ Grows /\ RouteTyped'
    <3>1. ThreadsTyped'  BY <1>1, <1>2, <2>1, SettledIs, TurnTyped
    <3> QED  BY <1>1, <1>2, <2>1, <3>1, SettledIs DEF Turn, RouteTyped
  <2>3. Looking(c)'
    <3>1. OneRegistry => IsFirst(i, Fitting(c))  BY <1>3, <1>8
    <3> QED  BY <1>1, <1>4, <2>2, <3>1 DEF Looking
  <2>4. Told(c)'  BY <1>1, <2>2, ToldStays
  <2>5. Filed(c)'  BY <1>1, <2>2, FiledStays
  <2> QED  BY <1>2, <2>1, <2>3, <2>4, <2>5, TurnIsEnough
<1> QED  BY <1>5, <1>7, <1>8

LEMMA ExtractStep ==
  ASSUME RouteInv, NEW c \in Client, Extract(c)
  PROVE  RouteInv'
<1> HIDE DEF NoLocal
<1> DEFINE found == ExtractParams(Chosen(c).path, wants[c].path)
           l == [local[c] EXCEPT !.params = found]
           i == local[c].route
<1>1. /\ RouteTyped /\ ThreadsTyped /\ DOMAIN local[c] = DOMAIN NoLocal /\ answer[c].kind \in Kinds
      /\ Saw(c) /\ Told(c) /\ Filed(c) /\ NotServed(c) /\ local[c].registry \in 1 .. Len(registries)
      /\ OneRegistry => IsFirst(i, Fitting(c))
  BY DEF RouteInv, RouteKnown, RouteTyped, ThreadsTyped, Extract, Kinds, At, NotServed, Looking
<1>2. Settled /\ seen' = seen /\ answer' = answer /\ Keeps(c, l) /\ Goes(c, "calling")
  BY DEF Extract, Settled, ThreadOnly, clientVars, scriptVars, registryVars
<1>3. OneRegistry => found = ParamsOf(i, c)
  BY <1>1, OneIsCurrent DEF Chosen, Mapped, ParamsOf
<1>4. DOMAIN l = DOMAIN local[c] /\ l.registry = local[c].registry /\ l.route = i /\ l.params = found
  <2>1. {"registry", "route", "params"} \subseteq DOMAIN local[c]  BY <1>1 DEF NoLocal
  <2> HIDE DEF found
  <2> QED  BY <2>1
<1> HIDE DEF found, l, i
<1>5. Turn(c, "calling", l, answer[c])  BY <1>1, <1>2, <1>4, TurnBy
<1>6. /\ pc'[c] = "calling" /\ answer'[c] = answer[c] /\ local'[c] = l /\ wants' = wants
      /\ registries' = registries /\ (OneRegistry' <=> OneRegistry) /\ Fitting(c)' = Fitting(c)
      /\ Configured' = Configured /\ seen' = seen /\ Grows /\ RouteTyped'
  <2>1. ThreadsTyped'  BY <1>1, <1>2, <1>5, SettledIs, TurnTyped
  <2> QED  BY <1>1, <1>2, <1>5, <2>1, SettledIs DEF Turn, RouteTyped
<1>7. Looking(c)'
  <2>1. ParamsOf(local[c].route, c)' = ParamsOf(i, c)
    BY <1>4, <1>6 DEF ParamsOf, i
  <2>2. ASSUME OneRegistry' PROVE IsFirst(l.route, Fitting(c)') /\ l.params = ParamsOf(l.route, c)'
    <3>1. ParamsOf(l.route, c)' = ParamsOf(l.route, c)
      BY <1>4, <1>6 DEF ParamsOf, l, i, found
    <3> QED  BY <1>1, <1>3, <1>4, <1>6, <2>2, <3>1
  <2> QED  BY <1>1, <1>3, <1>4, <1>6, <2>1 DEF Looking
<1>8. Told(c)'  BY <1>1, <1>6, ToldStays
<1>9. Filed(c)'  BY <1>1, <1>6, FiledStays
<1> QED  BY <1>2, <1>5, <1>7, <1>8, <1>9, TurnIsEnough

\* The handler is that of the first route that fits, and is there if it was when the
\* client connected.
LEMMA CallRouteStep ==
  ASSUME RouteInv, NEW c \in Client, Call(c)
  PROVE  RouteInv'
<1> HIDE DEF NoLocal
<1> DEFINE i == local[c].route
           callable == vm /\ Chosen(c).handler \in globals
           done == [kind |-> "handler", handler |-> Chosen(c).handler, params |-> local[c].params,
                    query |-> Query(wants[c].query), fields |-> local[c].first >= Len(Head4),
                    body |-> ToZero(local[c].body)]
           failed == [kind |-> "500"]
           a == IF callable THEN done ELSE failed
           place == IF callable THEN "running" ELSE "closed"
<1>1. /\ RouteTyped /\ ThreadsTyped /\ DOMAIN local[c] = DOMAIN NoLocal
      /\ Saw(c) /\ Told(c) /\ Filed(c) /\ NotServed(c) /\ local[c].registry \in 1 .. Len(registries)
      /\ OneRegistry => IsFirst(i, Fitting(c)) /\ local[c].params = ParamsOf(i, c)
  BY DEF RouteInv, RouteKnown, RouteTyped, ThreadsTyped, Call, Kinds, At, NotServed, Looking
<1>2. /\ Settled /\ seen' = seen /\ local' = local
      /\ answer' = [answer EXCEPT ![c] = a] /\ Goes(c, place)
  BY DEF Call, Answers, Settled, ThreadOnly, clientVars, scriptVars, registryVars
<1>3. OneRegistry => Chosen(c) = Configured[i]
  BY <1>1, OneIsCurrent DEF Chosen, Mapped
<1>4. /\ a.kind \in {"handler", "500"}
      /\ a.kind = "handler" => a.handler = Chosen(c).handler /\ a.params = local[c].params
      /\ a.kind = "500" => ~callable
  OBVIOUS
<1>5. Chosen(c).handler \in seen[c].ready => callable
  BY <1>1 DEF Saw
<1>6. place \in {"running", "closed"}  OBVIOUS
<1> HIDE DEF a, place, i, callable
<1>7. Turn(c, place, local[c], a)
  <2>1. a.kind \in Kinds  BY <1>4 DEF Kinds
  <2> QED  BY <1>1, <1>2, <2>1, TurnBy
<1>8. /\ pc'[c] = place /\ answer'[c] = a /\ wants' = wants /\ (OneRegistry' <=> OneRegistry)
      /\ Configured' = Configured /\ Fitting(c)' = Fitting(c) /\ seen' = seen /\ \A p : Opening(p)' = Opening(p)
  BY <1>1, <1>2, <1>7, SettledIs DEF Turn
<1>9. Looking(c)'  BY <1>6, <1>8 DEF Looking
<1>10. Told(c)'
  <2> SUFFICES ASSUME OneRegistry
               PROVE  /\ a.kind = "handler" =>
                           \E k \in Fitting(c) : /\ IsFirst(k, Fitting(c)) /\ a.handler = Configured[k].handler
                                                 /\ a.params = ParamsOf(k, c)
                      /\ a.kind = "500" =>
                           \E k \in Fitting(c) : IsFirst(k, Fitting(c)) /\ Configured[k].handler \notin seen[c].ready
                      /\ a.kind # "404"
    <3>1. \A k : ParamsOf(k, c)' = ParamsOf(k, c)  BY <1>8 DEF ParamsOf
    <3> QED  BY <1>8, <3>1 DEF Told
  <2>1. i \in Fitting(c) /\ IsFirst(i, Fitting(c)) /\ local[c].params = ParamsOf(i, c) /\ Chosen(c) = Configured[i]
    BY <1>1, <1>3 DEF IsFirst
  <2> QED  BY <1>4, <1>5, <2>1
<1>11. Filed(c)'
  <2>1. a.kind # "file"  BY <1>4
  <2> QED  BY <1>1, <1>8, <2>1 DEF Filed
<1> QED  BY <1>2, <1>7, <1>9, <1>10, <1>11, TurnIsEnough

LEMMA AcceptRouteStep ==
  ASSUME RouteInv, NEW c \in Client, Accept(c)
  PROVE  RouteInv'
<1> HIDE DEF NoLocal
<1> DEFINE now == [mounts |-> Len(mounts),
                   routes |-> IF current = 0 THEN 0 ELSE Len(registries[current].routes),
                   ready |-> IF vm THEN globals ELSE {}]
<1>1. /\ RouteTyped /\ ThreadsTyped /\ Looking(c) /\ pc[c] = "connecting" /\ answer[c].kind = "none"
  BY DEF RouteInv, RouteKnown, RouteTyped, ThreadsTyped, Accept, At, Looking
<1>2. Settled /\ local' = local /\ answer' = answer /\ Goes(c, "reading") /\ seen' = [seen EXCEPT ![c] = now]
  BY DEF Accept, Settled, clientVars, scriptVars, registryVars
<1>3. /\ DOMAIN pc' = Client /\ pc'[c] = "reading" /\ \A d \in Client \ {c} : pc'[d] = pc[d]
      /\ DOMAIN seen' = Client /\ seen'[c] = now /\ \A d \in Client \ {c} : seen'[d] = seen[d]
  BY <1>1, <1>2 DEF Goes, ThreadsTyped
<1>4. /\ Grows /\ ScriptTyped' /\ Configured' = Configured /\ mounts' = mounts /\ globals' = globals
      /\ vm' = vm /\ wants' = wants /\ (OneRegistry' <=> OneRegistry)
  BY <1>1, <1>2, SettledIs
<1>5. now.mounts = Len(mounts) /\ now.routes = Len(Configured) /\ now.ready = IF vm THEN globals ELSE {}
  <2>1. current = 0 => Len(Configured) = 0  BY EmptySeq DEF Configured
  <2>2. current # 0 => Configured = registries[current].routes  BY DEF Configured
  <2> QED  BY <2>1, <2>2
<1>6. Len(mounts) \in Nat /\ Len(Configured) \in Nat  BY <1>1, MountsAre, ConfiguredIs
<1> HIDE DEF now
<1>7. ThreadsTyped'
  <2>1. \A d \in Client : seen'[d].mounts \in Nat /\ seen'[d].routes \in Nat
    <3> SUFFICES ASSUME NEW d \in Client PROVE seen'[d].mounts \in Nat /\ seen'[d].routes \in Nat
      OBVIOUS
    <3>1. CASE d = c  BY <1>3, <1>5, <1>6, <3>1
    <3>2. CASE d # c  BY <1>1, <1>3, <3>2 DEF ThreadsTyped
    <3> QED  BY <3>1, <3>2
  <2> QED  BY <1>1, <1>2, <1>3, <1>4, <2>1 DEF ThreadsTyped
<1>8. RouteTyped'  BY <1>4, <1>7 DEF RouteTyped
<1>9. \A d \in Client \ {c} : RouteKnown(d)'
  BY <1>1, <1>2, <1>3, <1>4, <1>8, StaysKnown DEF RouteInv
<1>10. Saw(c)'
  BY <1>3, <1>4, <1>5, <1>6 DEF Saw
<1>11. Looking(c)' /\ Told(c)' /\ Filed(c)'
  BY <1>1, <1>2, <1>3 DEF Looking, Told, Filed, NotServed
<1> QED  BY <1>8, <1>9, <1>10, <1>11 DEF RouteInv, RouteKnown

\* One registry more.  If it is the only one, there was none before it.
LEMMA CreateIs ==
  ASSUME RouteTyped, CreateRegistry, UNCHANGED <<wants, script, metadata, mounts, globals, vm>>,
         held' = held \/ held' = current'
  PROVE  ScriptTyped' /\ Grows /\ current' \in 1 .. Len(registries')
<1>1. /\ registries \in Seq(Registry) /\ Len(registries) \in Nat
      /\ current \in 0 .. Len(registries) /\ held \in 0 .. Len(registries)
  BY LenProperties DEF RouteTyped, ScriptTyped
<1>2. NewRegistry \in Registry
  BY EmptySeq DEF NewRegistry, Registry
<1>3. registries' = Append(registries, NewRegistry) /\ current' = Len(registries) + 1
  BY DEF CreateRegistry
<1>4. NewRegistry.routes = <<>>  BY DEF NewRegistry
<1> HIDE DEF NewRegistry
<1>5. /\ registries' \in Seq(Registry) /\ Len(registries') = Len(registries) + 1
      /\ registries'[current'] = NewRegistry
  BY <1>1, <1>2, <1>3, AppendProperties
<1>6. current' \in 1 .. Len(registries') /\ held' \in 0 .. Len(registries')
  BY <1>1, <1>3, <1>5
<1>7. ScriptTyped'
  BY <1>5, <1>6 DEF RouteTyped, ScriptTyped
<1>8. ASSUME OneRegistry'
      PROVE  /\ OneRegistry /\ Len(Configured) <= Len(Configured')
             /\ \A i \in DOMAIN Configured : Configured'[i] = Configured[i]
  <2>1. Len(registries) = 0  BY <1>1, <1>5, <1>8 DEF OneRegistry
  <2>2. current = 0  BY <1>1, <2>1
  <2>3. Configured = <<>> /\ Configured' = <<>>
    <3>1. current' # 0  BY <1>1, <1>3
    <3> QED  BY <1>4, <1>5, <2>2, <3>1 DEF Configured
  <2>4. Len(Configured) = 0 /\ Len(Configured') = 0 /\ DOMAIN Configured = {}
    BY <2>3
  <2> QED  BY <2>1, <2>4 DEF OneRegistry
<1>9. Len(mounts) \in Nat  BY MountsAre
<1>10. Len(registries) <= Len(registries')  BY <1>1, <1>5
<1> QED  BY <1>6, <1>7, <1>8, <1>9, <1>10 DEF Grows

LEMMA CreateStep ==
  ASSUME RouteInv, NEW c \in Client, Create(c)
  PROVE  RouteInv'
<1> HIDE DEF NoLocal
<1> DEFINE l == [local[c] EXCEPT !.registry = current']
<1>1. /\ RouteTyped /\ ThreadsTyped /\ DOMAIN local[c] = DOMAIN NoLocal /\ answer[c].kind \in Kinds
      /\ Saw(c) /\ Told(c) /\ Filed(c) /\ NotServed(c)
  BY DEF RouteInv, RouteKnown, RouteTyped, ThreadsTyped, Create, Kinds, At, NotServed
<1>2. /\ CreateRegistry /\ UNCHANGED <<wants, script, metadata, mounts, globals, vm, held, seen, answer>>
      /\ Keeps(c, l) /\ Goes(c, "finding")
  BY DEF Create, ThreadOnly, clientVars, scriptVars
<1>3. ScriptTyped' /\ Grows /\ current' \in 1 .. Len(registries')
  BY <1>1, <1>2, CreateIs
<1>4. DOMAIN l = DOMAIN local[c] /\ l.registry = current'
  <2>1. "registry" \in DOMAIN local[c]  BY <1>1 DEF NoLocal
  <2> QED  BY <2>1
<1> HIDE DEF l
<1>5. Turn(c, "finding", l, answer[c])  BY <1>1, <1>2, <1>4, TurnBy
<1>6. /\ ThreadsTyped' /\ pc'[c] = "finding" /\ local'[c] = l /\ answer'[c] = answer[c] /\ seen' = seen
      /\ \A d \in Client \ {c} : pc'[d] = pc[d] /\ local'[d] = local[d] /\ answer'[d] = answer[d]
  BY <1>1, <1>2, <1>5, TurnTyped
<1>7. RouteTyped'  BY <1>3, <1>6 DEF RouteTyped
<1>8. \A d \in Client \ {c} : RouteKnown(d)'
  BY <1>1, <1>3, <1>6, <1>7, StaysKnown DEF RouteInv
<1>9. Saw(c)'  BY <1>1, <1>3, <1>6, <1>7, SawStays
<1>10. Told(c)'  BY <1>1, <1>3, <1>6, <1>7, ToldStays
<1>11. Filed(c)'  BY <1>1, <1>3, <1>6, <1>7, FiledStays
<1>12. Looking(c)'  BY <1>3, <1>4, <1>6 DEF Looking
<1> QED  BY <1>7, <1>8, <1>9, <1>10, <1>11, <1>12 DEF RouteInv, RouteKnown

-----------------------------------------------------------------------------
(* Steps of the script's thread and of the network *)

\* The I/O threads keep what they know while what is configured grows.
LEMMA GrowingIsEnough ==
  ASSUME RouteInv, ScriptTyped', Grows, UNCHANGED <<pc, local, answer, seen>>
  PROVE  RouteInv'
<1>1. RouteTyped /\ ThreadsTyped /\ wants' = wants  BY DEF RouteInv, RouteTyped, Grows
<1>2. ThreadsTyped'  BY <1>1 DEF ThreadsTyped
<1>3. RouteTyped'  BY <1>2 DEF RouteTyped
<1>4. \A d \in Client : RouteKnown(d)'
  BY <1>1, <1>3, StaysKnown DEF RouteInv
<1> QED  BY <1>3, <1>4 DEF RouteInv

LEMMA NetworkStep ==
  ASSUME RouteInv, NEW c \in Client, Send(c) \/ HangUp(c)
  PROVE  RouteInv'
<1>1. Settled /\ UNCHANGED <<pc, local, answer, seen>>
  BY DEF Send, HangUp, Settled
<1>2. ScriptTyped' /\ Grows  BY <1>1, SettledIs DEF RouteInv
<1> QED  BY <1>1, <1>2, GrowingIsEnough

LEMMA ToBeCalled ==
  ASSUME ScriptTyped, script # <<>>
  PROVE  Call1 \in Callable /\ Tail(script) \in Seq(Callable)
BY HeadTailProperties DEF ScriptTyped, Call1

\* A call that leaves the registries alone.
LEMMA CallIs ==
  ASSUME RouteTyped, ScriptOnly, script' \in Seq(Callable), metadata' \in Seq(Loaded),
         mounts' = mounts \/ \E m \in Mountable : mounts' = Append(mounts, m),
         globals \subseteq globals', vm' \in {vm, TRUE}, held' \in {held, 0}
  PROVE  ScriptTyped' /\ Grows /\ UNCHANGED <<pc, local, answer, seen>>
<1>1. /\ registries' = registries /\ current' = current /\ wants' = wants
      /\ UNCHANGED <<pc, local, answer, seen>>
  BY DEF ScriptOnly, ServerOnly, registryVars, clientVars
<1>2. /\ registries \in Seq(Registry) /\ Len(registries) \in Nat /\ held \in 0 .. Len(registries)
      /\ current \in 0 .. Len(registries) /\ (registries # <<>> => current # 0) /\ vm \in BOOLEAN
      /\ mounts \in Seq(Mountable) /\ Len(mounts) \in Nat /\ DOMAIN mounts = 1 .. Len(mounts)
  BY LenProperties DEF RouteTyped, ScriptTyped
<1>3. /\ mounts' \in Seq(Mountable) /\ Len(mounts) <= Len(mounts')
      /\ \A m \in DOMAIN mounts : mounts'[m] = mounts[m]
  <2>1. CASE mounts' = mounts  BY <1>2, <2>1
  <2>2. CASE mounts' # mounts
    <3>1. PICK m \in Mountable : mounts' = Append(mounts, m)  BY <2>2
    <3>0. mounts \in Seq(Mountable)  BY <1>2
    <3>2. /\ mounts' \in Seq(Mountable) /\ Len(mounts') = Len(mounts) + 1
          /\ \A i \in 1 .. Len(mounts) : mounts'[i] = mounts[i]
      BY <3>0, <3>1, AppendProperties
    <3> QED  BY <1>2, <3>2
  <2> QED  BY <2>1, <2>2
<1>4. held' \in 0 .. Len(registries)  BY <1>2
<1>5. ScriptTyped'  BY <1>1, <1>2, <1>3, <1>4 DEF ScriptTyped
<1>6. Configured' = Configured /\ (OneRegistry' <=> OneRegistry) /\ Len(Configured) \in Nat
  BY <1>1, ConfiguredIs DEF Configured, OneRegistry
<1>7. Len(registries) <= Len(registries')  BY <1>1, <1>2
<1>8. OneRegistry' => /\ OneRegistry /\ Len(Configured) <= Len(Configured')
                      /\ \A i \in DOMAIN Configured : Configured'[i] = Configured[i]
  BY <1>6
<1>9. wants' = wants /\ globals \subseteq globals' /\ (vm => vm')
  <2>1. vm => vm'
    <3>1. CASE vm' = vm  BY <3>1
    <3>2. CASE vm' = TRUE  BY <3>2
    <3> QED  BY <3>1, <3>2
  <2> QED  BY <1>1, <2>1
<1> QED  BY <1>1, <1>3, <1>5, <1>7, <1>8, <1>9 DEF Grows

LEMMA InterpretStep ==
  ASSUME RouteInv, Interpret
  PROVE  RouteInv'
<1> DEFINE entities == Call1.entities
<1>1. RouteTyped /\ ScriptTyped /\ script # <<>> /\ Call1.call = "interpret"
  BY DEF RouteInv, RouteTyped, Interpret, Calls, Call1
<1>2. /\ metadata' = metadata \o entities /\ script' = RegisterAll(metadata') \o Tail(script)
      /\ UNCHANGED <<held, vm, mounts, globals>> /\ ScriptOnly
  BY DEF Interpret, Collected
<1>3. IsText(entities) /\ Range(entities) \subseteq Loaded
  BY <1>1, ToBeCalled, CallableIs
<1>4. entities \in Seq(Loaded)
  <2> HIDE DEF entities
  <2>1. Len(entities) \in Nat /\ entities \in [1 .. Len(entities) -> Range(entities)]
    BY <1>3, LenProperties DEF IsText
  <2>2. entities \in [1 .. Len(entities) -> Loaded]  BY <1>3, <2>1
  <2> QED  BY <2>1, <2>2, SeqOfFunction
<1> HIDE DEF entities
<1>5. metadata' \in Seq(Loaded)
  BY <1>1, <1>2, <1>4, ConcatProperties DEF ScriptTyped
<1>6. script' \in Seq(Callable)
  <2>1. RegisterAll(metadata') \in Seq(Callable)  BY <1>5, RegisterAllIs
  <2>2. Tail(script) \in Seq(Callable)  BY <1>1, ToBeCalled
  <2> QED  BY <1>2, <2>1, <2>2, ConcatProperties
<1>7. ScriptTyped' /\ Grows /\ UNCHANGED <<pc, local, answer, seen>>
  BY <1>1, <1>2, <1>5, <1>6, CallIs
<1> QED  BY <1>7, GrowingIsEnough

LEMMA StaticAddStep ==
  ASSUME RouteInv, StaticAdd
  PROVE  RouteInv'
<1> DEFINE m == [prefix |-> Call1.prefix, directory |-> Call1.directory]
<1>1. RouteTyped /\ ScriptTyped /\ script # <<>> /\ Call1.call = "mount"
  BY DEF RouteInv, RouteTyped, StaticAdd, Calls, Call1
<1>2. /\ mounts' = mounts \/ mounts' = Append(mounts, m)
      /\ script' = Tail(script) /\ UNCHANGED <<held, vm, globals, metadata>> /\ ScriptOnly
  BY DEF StaticAdd, Next1
<1>3. m \in Mountable
  <2>1. Call1 \in Callable  BY <1>1, ToBeCalled
  <2>2. Call1 \in Given
    <3>1. Call1 \notin Declared
      <4> SUFFICES ASSUME NEW entity \in Loaded, Call1 \in Range(RoutesOf(entity)) PROVE FALSE
        BY DEF Declared
      <4>1. Call1.call = "register"  BY RoutesOfAre
      <4> QED  BY <1>1, <4>1
    <3>2. Call1 # [call |-> "setVm"]
      <4>1. [call |-> "setVm"].call = "setVm"  OBVIOUS
      <4> QED  BY <1>1, <4>1
    <3> QED  BY <2>1, <3>1, <3>2 DEF Callable
  <2> QED  BY <1>1, <2>2 DEF Mountable
<1> HIDE DEF m
<1>4. script' \in Seq(Callable) /\ metadata' \in Seq(Loaded)
  BY <1>1, <1>2, ToBeCalled DEF ScriptTyped
<1>5. ScriptTyped' /\ Grows /\ UNCHANGED <<pc, local, answer, seen>>
  BY <1>1, <1>2, <1>3, <1>4, CallIs
<1> QED  BY <1>5, GrowingIsEnough

LEMMA StartServerStep ==
  ASSUME RouteInv, StartServer
  PROVE  RouteInv'
<1> DEFINE set == <<[call |-> "setVm"]>>
<1>1. RouteTyped /\ ScriptTyped /\ script # <<>>
  BY DEF RouteInv, RouteTyped, StartServer, Calls
<1>2. /\ script' = set \o Tail(script) \/ script' = <<>> \o Tail(script)
      /\ UNCHANGED <<held, vm, mounts, globals, metadata>> /\ ScriptOnly
  BY DEF StartServer
<1>3. set \in Seq(Callable)
  <2>1. [call |-> "setVm"] \in Callable  BY DEF Callable
  <2> QED  BY <2>1
<1>4. Tail(script) \in Seq(Callable)  BY <1>1, ToBeCalled
<1> HIDE DEF set
<1>5. script' \in Seq(Callable)
  <2>1. CASE script' = set \o Tail(script)  BY <1>3, <1>4, <2>1, ConcatProperties
  <2>2. CASE script' = <<>> \o Tail(script)
    <3>1. <<>> \in Seq(Callable)  BY EmptySeq
    <3> QED  BY <1>4, <2>2, <3>1, ConcatProperties
  <2> QED  BY <1>2, <2>1, <2>2
<1>6. metadata' \in Seq(Loaded)  BY <1>1, <1>2 DEF ScriptTyped
<1>7. ScriptTyped' /\ Grows /\ UNCHANGED <<pc, local, answer, seen>>
  BY <1>1, <1>2, <1>5, <1>6, CallIs
<1> QED  BY <1>7, GrowingIsEnough

LEMMA OtherCallStep ==
  ASSUME RouteInv, Define \/ SetVm \/ FindNoRegistry \/ AskFind \/ AskList \/ AskParams \/ BridgeInvoke
  PROVE  RouteInv'
<1>1. RouteTyped /\ ScriptTyped /\ script # <<>>
  <2>1. RouteTyped /\ ScriptTyped  BY DEF RouteInv, RouteTyped
  <2>2. ASSUME Define \/ SetVm \/ AskParams PROVE script # <<>>
    BY <2>2 DEF Define, SetVm, AskParams, Calls
  <2>3. ASSUME AskFind \/ AskList \/ BridgeInvoke PROVE script # <<>>
    <3>1. \E name : Asks(name)
      <4>1. CASE AskFind  BY <4>1 DEF AskFind
      <4>2. CASE AskList  BY <4>2 DEF AskList
      <4>3. CASE BridgeInvoke  BY <4>3 DEF BridgeInvoke
      <4> QED  BY <2>3, <4>1, <4>2, <4>3
    <3> QED  BY <3>1 DEF Asks, Calls
  <2>4. ASSUME FindNoRegistry PROVE script # <<>>
    BY <2>4 DEF FindNoRegistry
  <2> QED  BY <2>1, <2>2, <2>3, <2>4
<1>2. /\ script' \in {script, Tail(script)} /\ metadata' = metadata /\ mounts' = mounts
      /\ globals \subseteq globals' /\ vm' \in {vm, TRUE} /\ held' \in {held, 0} /\ ScriptOnly
  <2> DEFINE Kept == /\ script' \in {script, Tail(script)} /\ metadata' = metadata /\ mounts' = mounts
                      /\ globals \subseteq globals' /\ vm' \in {vm, TRUE} /\ held' \in {held, 0} /\ ScriptOnly
  <2>1. ASSUME Define \/ SetVm \/ FindNoRegistry PROVE Kept
    BY <2>1 DEF Define, SetVm, FindNoRegistry, Next1
  <2>2. ASSUME NEW what, Tells(what) PROVE Kept
    BY <2>2 DEF Tells, Next1
  <2>3. ASSUME AskFind \/ AskList \/ AskParams \/ BridgeInvoke PROVE \E what : Tells(what)
    <3>1. CASE AskFind  BY <3>1 DEF AskFind
    <3>2. CASE AskList  BY <3>2 DEF AskList
    <3>3. CASE AskParams  BY <3>3 DEF AskParams
    <3>4. CASE BridgeInvoke  BY <3>4 DEF BridgeInvoke
    <3> QED  BY <2>3, <3>1, <3>2, <3>3, <3>4
  <2> QED  BY <2>1, <2>2, <2>3
<1>3. script' \in Seq(Callable) /\ metadata' \in Seq(Loaded)
  BY <1>1, <1>2, ToBeCalled DEF ScriptTyped
<1>4. ScriptTyped' /\ Grows /\ UNCHANGED <<pc, local, answer, seen>>
  BY <1>1, <1>2, <1>3, CallIs
<1> QED  BY <1>4, GrowingIsEnough

LEMMA MakeRegistryStep ==
  ASSUME RouteInv, MakeRegistry
  PROVE  RouteInv'
<1>1. /\ CreateRegistry /\ held' = current' /\ UNCHANGED <<pc, local, answer, seen>>
      /\ UNCHANGED <<wants, script, metadata, mounts, globals, vm>>
  BY DEF MakeRegistry, ServerOnly, clientVars
<1>2. ScriptTyped' /\ Grows  BY <1>1, CreateIs DEF RouteInv
<1> QED  BY <1>1, <1>2, GrowingIsEnough

\* The routes only grow at their end.
LEMMA RegisterStep ==
  ASSUME RouteInv, Register
  PROVE  RouteInv'
<1> DEFINE route == Call1.route
           r == Mine
           old == registries[r]
<1>1. RouteTyped /\ ScriptTyped /\ script # <<>> /\ Call1.call = "register" /\ current # 0
  BY DEF RouteInv, RouteTyped, Register, Asks, Calls, Call1
<1>2. /\ RouteRegister(r, route) /\ held' = 0 /\ script' = Tail(script)
      /\ UNCHANGED <<current, vm, mounts, globals, metadata, wants, pc, local, answer, seen>>
  BY DEF Register, Next1, ServerOnly, clientVars
<1>3. /\ registries \in Seq(Registry) /\ Len(registries) \in Nat /\ DOMAIN registries = 1 .. Len(registries)
      /\ current \in 1 .. Len(registries) /\ held \in 0 .. Len(registries)
      /\ (registries # <<>> => current # 0) /\ Len(mounts) \in Nat
  BY <1>1, LenProperties, MountsAre DEF ScriptTyped
<1>4. r \in 1 .. Len(registries)  BY <1>3 DEF Mine
<1>5. route \in Routable
  BY <1>1, ToBeCalled DEF Routable
<1>6. /\ old.routes \in Seq(Routable) /\ old.capacity \in Nat /\ old.moves \in Nat
      /\ DOMAIN old = {"routes", "capacity", "moves"}
  <2>1. old \in Registry  BY <1>3, <1>4, ElementOfSeq
  <2> HIDE DEF old
  <2> QED  BY <2>1 DEF Registry
<1> DEFINE full == Len(old.routes) >= old.capacity
           bigger == IF ~full THEN old.capacity
                     ELSE IF old.capacity = 0 THEN FirstCapacity ELSE 2 * old.capacity
           new(moved) == [routes |-> Append(old.routes, route), capacity |-> bigger,
                          moves |-> IF moved THEN old.moves + 1 ELSE old.moves]
<1>7. PICK moved \in BOOLEAN :
        registries' = [registries EXCEPT ![r].routes = Append(@, route),
                                         ![r].capacity = IF ~full THEN @ ELSE IF @ = 0 THEN FirstCapacity ELSE 2 * @,
                                         ![r].moves = IF moved THEN @ + 1 ELSE @]
  <2>1. \A moved \in {FALSE, full /\ old.capacity > 0} : moved \in BOOLEAN  OBVIOUS
  <2> QED  BY <1>2, <2>1 DEF RouteRegister
<1>8. /\ DOMAIN registries' = DOMAIN registries
      /\ \A d \in DOMAIN registries \ {r} : registries'[d] = registries[d]
      /\ registries'[r] = new(moved)
  <2> HIDE DEF route
  <2>1. DOMAIN registries' = DOMAIN registries  BY <1>7
  <2>2. \A d \in DOMAIN registries \ {r} : registries'[d] = registries[d]  BY <1>7
  <2>3. registries'[r] = [old EXCEPT !.routes = Append(@, route),
                                     !.capacity = IF ~full THEN @ ELSE IF @ = 0 THEN FirstCapacity ELSE 2 * @,
                                     !.moves = IF moved THEN @ + 1 ELSE @]
    BY <1>3, <1>4, <1>7
  <2> HIDE DEF old
  <2> QED  BY <1>6, <2>1, <2>2, <2>3
<1>9. /\ new(moved) \in Registry /\ Len(new(moved).routes) = Len(old.routes) + 1 /\ Len(old.routes) \in Nat
      /\ \A i \in 1 .. Len(old.routes) : new(moved).routes[i] = old.routes[i]
  <2> DEFINE longer == Append(old.routes, route)
  <2> HIDE DEF route
  <2>1. /\ longer \in Seq(Routable) /\ Len(longer) = Len(old.routes) + 1 /\ Len(old.routes) \in Nat
        /\ \A i \in 1 .. Len(old.routes) : longer[i] = old.routes[i]
    <3> HIDE DEF old
    <3>1. old.routes \in Seq(Routable)  BY <1>6
    <3> QED  BY <1>5, <3>1, AppendProperties, LenProperties
  <2>2. bigger \in Nat /\ (IF moved THEN old.moves + 1 ELSE old.moves) \in Nat
    <3> HIDE DEF old
    <3> QED  BY <1>6, LimitsAssumption
  <2>3. new(moved).routes = longer  OBVIOUS
  <2> HIDE DEF old, longer, bigger
  <2> QED  BY <2>1, <2>2, <2>3 DEF Registry, longer
<1> HIDE DEF new, old, r, route
<1>10. registries' \in Seq(Registry) /\ Len(registries') = Len(registries)
  <2>1. \A d \in 1 .. Len(registries) : registries'[d] \in Registry
    <3> SUFFICES ASSUME NEW d \in 1 .. Len(registries) PROVE registries'[d] \in Registry
      OBVIOUS
    <3>1. CASE d = r  BY <1>8, <1>9, <3>1
    <3>2. CASE d # r  BY <1>3, <1>8, <3>2, ElementOfSeq
    <3> QED  BY <3>1, <3>2
  <2>2. registries' \in [1 .. Len(registries) -> Registry]
    <3>1. registries' = [d \in 1 .. Len(registries) |-> registries'[d]]
      BY <1>3, <1>7
    <3> QED  BY <2>1, <3>1
  <2> QED  BY <1>3, <2>2, SeqOfFunction
<1>11. ScriptTyped'
  <2>1. script' \in Seq(Callable)  BY <1>1, <1>2, ToBeCalled
  <2> QED  BY <1>1, <1>2, <1>3, <1>10, <2>1 DEF ScriptTyped
<1>12. ASSUME OneRegistry'
       PROVE  /\ OneRegistry /\ Len(Configured) <= Len(Configured')
              /\ \A i \in DOMAIN Configured : Configured'[i] = Configured[i]
  <2>1. OneRegistry  BY <1>10, <1>12 DEF OneRegistry
  <2>2. current = r  BY <1>3, <1>4, <2>1 DEF OneRegistry
  <2>3. Configured = old.routes  BY <1>1, <2>2 DEF Configured, old
  <2>4. Configured' = new(moved).routes
    <3>1. current' = current /\ current' # 0  BY <1>1, <1>2
    <3>2. Configured' = registries'[current'].routes  BY <3>1 DEF Configured
    <3> QED  BY <1>8, <2>2, <3>1, <3>2
  <2>5. DOMAIN Configured = 1 .. Len(old.routes)  BY <1>1, <2>3, ConfiguredIs
  <2> QED  BY <1>9, <2>1, <2>3, <2>4, <2>5
<1>13. Len(registries) <= Len(registries')  BY <1>3, <1>10
<1>14. Grows
  BY <1>2, <1>3, <1>12, <1>13 DEF Grows
<1> QED  BY <1>2, <1>11, <1>14, GrowingIsEnough

-----------------------------------------------------------------------------
(* Theorems *)

LEMMA RouteStarts == Init => RouteInv
<1> SUFFICES ASSUME Init PROVE RouteInv
  OBVIOUS
<1> HIDE DEF NoLocal
<1>1. PICK s \in Scenarios : script = s.calls /\ wants \in s.traffic
  BY DEF Init
<1>2. /\ vm = FALSE /\ mounts = <<>> /\ metadata = <<>> /\ registries = <<>> /\ current = 0 /\ held = 0
      /\ pc = [c \in Client |-> "connecting"] /\ local = [c \in Client |-> NoLocal]
      /\ answer = [c \in Client |-> NoAnswer]
      /\ seen = [c \in Client |-> [mounts |-> 0, routes |-> 0, ready |-> {}]]
  BY DEF Init
<1>3. script \in Seq(Callable)
  <2>1. script \in Seq(Range(script)) /\ Len(script) \in Nat
    BY <1>1, ScriptAssumption, LenProperties DEF IsText
  <2>2. Range(script) \subseteq Callable  BY <1>1 DEF Callable, Given
  <2>3. script \in [1 .. Len(script) -> Callable]  BY <2>1, <2>2, LenProperties
  <2> QED  BY <2>1, <2>3, SeqOfFunction
<1>4. ScriptTyped
  <2>1. Len(registries) = 0  BY <1>2
  <2>2. /\ metadata \in Seq(Loaded) /\ mounts \in Seq(Mountable) /\ registries \in Seq(Registry)
    BY <1>2, EmptySeq
  <2>3. vm \in BOOLEAN  BY <1>2
  <2>4. current \in 0 .. Len(registries) /\ held \in 0 .. Len(registries)  BY <1>2, <2>1
  <2>5. registries # <<>> => current # 0  BY <1>2
  <2> QED  BY <1>3, <2>2, <2>3, <2>4, <2>5 DEF ScriptTyped
<1>5. ThreadsTyped
  <2>1. \A c \in Client : IsRequest(wants[c])  BY <1>1, TrafficAssumption
  <2>2. NoAnswer.kind = "none"  BY DEF NoAnswer
  <2> QED  BY <1>2, <2>1, <2>2 DEF ThreadsTyped
<1>6. RouteTyped  BY <1>4, <1>5 DEF RouteTyped
<1>7. ASSUME NEW c \in Client PROVE RouteKnown(c)
  <2>1. pc[c] = "connecting" /\ answer[c].kind = "none"  BY <1>2 DEF NoAnswer
  <2>2. seen[c].mounts = 0 /\ seen[c].routes = 0 /\ seen[c].ready = {}  BY <1>2
  <2>3. Len(mounts) \in Nat /\ Len(Configured) \in Nat  BY <1>6, MountsAre, ConfiguredIs
  <2>4. Saw(c)  BY <2>2, <2>3 DEF Saw
  <2>5. Looking(c) /\ Told(c) /\ Filed(c)  BY <2>1 DEF Looking, Told, Filed, NotServed
  <2> QED  BY <2>4, <2>5 DEF RouteKnown
<1> QED  BY <1>6, <1>7 DEF RouteInv

LEMMA RouteStays == RouteInv /\ [Next]_vars => RouteInv'
<1> SUFFICES ASSUME RouteInv, [Next]_vars PROVE RouteInv'
  OBVIOUS
<1>1. CASE ScriptStep
  BY <1>1, InterpretStep, StaticAddStep, StartServerStep, OtherCallStep, MakeRegistryStep, RegisterStep
     DEF ScriptStep
<1>2. ASSUME NEW c \in Client, Send(c) \/ HangUp(c) \/ ThreadStep(c)
      PROVE  RouteInv'
  <2>1. CASE Send(c) \/ HangUp(c)  BY <2>1, NetworkStep
  <2>2. CASE \/ ReadNothing(c) \/ ReadHead(c) \/ ReadBody(c) \/ BodyEnds(c) \/ ReadChunk(c) \/ ChunksEnd(c)
             \/ UseMoved(c) \/ HandlerReturns(c)
    BY <2>2, QuietStep
  <2>3. CASE AnswerStatic(c) \/ NotStatic(c) \/ Create(c) \/ Find(c)
    BY <2>3, AnswerStaticStep, NotStaticStep, CreateStep, FindStep
  <2>4. CASE Accept(c) \/ Extract(c) \/ Call(c)
    BY <2>4, AcceptRouteStep, ExtractStep, CallRouteStep
  <2> QED  BY <1>2, <2>1, <2>2, <2>3, <2>4 DEF ThreadStep
<1>3. CASE UNCHANGED vars
  <2>1. Settled /\ UNCHANGED <<pc, local, answer, seen>>
    BY <1>3 DEF vars, Settled, clientVars
  <2>2. ScriptTyped' /\ Grows  BY <2>1, SettledIs DEF RouteInv
  <2> QED  BY <2>1, <2>2, GrowingIsEnough
<1> QED  BY <1>1, <1>2, <1>3 DEF Next

\* While the script goes on mounting and registering, what a thread found and what a client
\* was told stay true of the routes and mounts there are.
THEOREM RoutesAgree == Spec => []RouteInv
BY RouteStarts, RouteStays, PTL DEF Spec

\* The first route that fits answers, or the first mount that holds the file, however the
\* script and the I/O threads take turns.
THEOREM FirstAnswers == Spec => []AnsweredByTheFirst
BY RoutesAgree, FirstFollows, PTL
=============================================================================
