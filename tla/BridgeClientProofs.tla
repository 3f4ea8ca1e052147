------------------------- MODULE BridgeClientProofs -------------------------
(***************************************************************************)
(* Proofs about BridgeClient, for any methods, any length of the stream and*)
(* any limit that a message fits into: until something was cut away or was *)
(* odd, the parser takes whole messages, wherever the reads split them.    *)
(***************************************************************************)
EXTENDS BridgeClient, SequenceTheorems, TLAPS

Whole == {Notification(m) : m \in ToSet(Methods)}
         \cup {Response(m) : m \in ToSet(Methods)}

(* The tokens are whole messages, one after the other: from every cut there*)
(* is a message to the next.                                               *)
Framed(s) ==
  \E cuts \in SUBSET (0 .. Len(s)) :
    /\ 0 \in cuts
    /\ \A c \in cuts : c < Len(s) =>
         \E msg \in Whole :
           c + Len(msg) \in cuts /\ \A i \in DOMAIN msg : s[c + i] = msg[i]

Classes == {"arr1", "arr3", "arr4", "one", "two", "nil", "true", "name", "head",
            "body", "odd"}
Token == Classes \X ToSet(Methods)

Types ==
  /\ stream \in Seq(Token)
  /\ requests \in Seq(ToSet(Methods)) /\ registered \subseteq ToSet(Methods)
  /\ todo \in Seq(ToSet(Methods)) /\ (pc = "answer" => todo # <<>>)
  /\ cut \in BOOLEAN /\ matched \in Nat

(* The connection is the first one, and only the reader fills its buffer.  *)
Connected ==
  /\ buf \in Seq(Token) /\ sock # "closed"
  /\ sock = "none" => pc \in {"start", "off", "stopped"}
  /\ pc \in {"start", "register", "answer"} => buf = <<>>

(* What was read and is still needed, with what is still to come.          *)
Aligned ==
  IF pc = "answer"
  THEN /\ matched \in 0 .. 4
       /\ \E m \in ToSet(Methods) : Framed(SubSeq(Response(m), 1, matched) \o stream)
  ELSE Framed(buf \o stream)

FrameInv == Types /\ (~cut => Connected /\ Aligned)

-----------------------------------------------------------------------------
(* ---- messages ---- *)

(* The messages, written out.                                              *)
LEMMA Messages ==
  ASSUME NEW m
  PROVE  /\ Notification(m) = <<<<"arr3", m>>, <<"two", m>>, <<"name", m>>,
                                <<"arr1", m>>, <<"head", m>>, <<"body", m>>>>
         /\ Response(m) = <<<<"arr4", m>>, <<"one", m>>, <<"one", m>>,
                            <<"nil", m>>, <<"true", m>>>>
         /\ OddOne(m) = <<<<"arr3", m>>, <<"two", m>>, <<"name", m>>,
                          <<"arr1", m>>, <<"odd", m>>>>
BY DEF Notification, Response, OddOne, Tagged

(* Messages are sequences of tokens, of five or six of them.               *)
LEMMA MessageTypes ==
  ASSUME NEW m \in ToSet(Methods)
  PROVE  /\ Notification(m) \in Seq(Token) /\ Len(Notification(m)) = 6
         /\ DOMAIN Notification(m) = 1 .. 6
         /\ Response(m) \in Seq(Token) /\ Len(Response(m)) = 5
         /\ DOMAIN Response(m) = 1 .. 5
         /\ OddOne(m) \in Seq(Token)
<1> DEFINE t(c) == <<c, m>>
<1>1. \A c \in Classes : t(c) \in Token
  BY DEF Token
<1>2. /\ Notification(m) = <<t("arr3"), t("two"), t("name"), t("arr1"), t("head"), t("body")>>
      /\ Response(m) = <<t("arr4"), t("one"), t("one"), t("nil"), t("true")>>
      /\ OddOne(m) = <<t("arr3"), t("two"), t("name"), t("arr1"), t("odd")>>
  BY Messages
<1> HIDE DEF t
<1>3. Notification(m) \in Seq(Token) /\ Len(Notification(m)) = 6
      /\ DOMAIN Notification(m) = 1 .. 6
  BY <1>1, <1>2 DEF Classes
<1>4. Response(m) \in Seq(Token) /\ Len(Response(m)) = 5 /\ DOMAIN Response(m) = 1 .. 5
  BY <1>1, <1>2 DEF Classes
<1>5. OddOne(m) \in Seq(Token)
  BY <1>1, <1>2 DEF Classes
<1> QED BY <1>3, <1>4, <1>5

LEMMA WholeType ==
  ASSUME NEW msg \in Whole
  PROVE  msg \in Seq(Token) /\ Len(msg) \in 5 .. 6 /\ DOMAIN msg = 1 .. Len(msg)
BY MessageTypes DEF Whole

-----------------------------------------------------------------------------
(* ---- framed sequences ---- *)

LEMMA FramedEmpty == Framed(<<>>)
<1>1. {0} \in SUBSET (0 .. Len(<<>>)) /\ \A c \in {0} : ~(c < Len(<<>>))
  OBVIOUS
<1> QED BY <1>1 DEF Framed

(* A whole message at the end keeps the frames.                            *)
LEMMA FramedAppend ==
  ASSUME NEW s \in Seq(Token), Framed(s), NEW msg \in Whole
  PROVE  Framed(s \o msg)
<1> DEFINE t == s \o msg
<1>1. /\ Len(msg) \in 5 .. 6 /\ DOMAIN msg = 1 .. Len(msg) /\ msg \in Seq(Token)
      /\ Len(s) \in Nat
  BY WholeType
<1>2. /\ Len(t) = Len(s) + Len(msg)
      /\ \A i \in 1 .. Len(s) + Len(msg) :
           t[i] = IF i <= Len(s) THEN s[i] ELSE msg[i - Len(s)]
  BY <1>1, ConcatProperties
<1> HIDE DEF t
<1>3. PICK cuts \in SUBSET (0 .. Len(s)) :
        /\ 0 \in cuts
        /\ \A c \in cuts : c < Len(s) =>
             \E w \in Whole : c + Len(w) \in cuts /\ \A i \in DOMAIN w : s[c + i] = w[i]
  BY DEF Framed
<1> DEFINE new == cuts \cup {Len(s), Len(s) + Len(msg)}
<1>4. new \in SUBSET (0 .. Len(t)) /\ 0 \in new
  <2>1. \A c \in cuts : c \in 0 .. Len(t)
    BY <1>1, <1>2, <1>3
  <2>2. Len(s) \in 0 .. Len(t) /\ Len(s) + Len(msg) \in 0 .. Len(t)
    BY <1>1, <1>2
  <2> QED BY <1>3, <2>1, <2>2
<1>5. ASSUME NEW c \in new, c < Len(t)
      PROVE  \E w \in Whole : c + Len(w) \in new /\ \A i \in DOMAIN w : t[c + i] = w[i]
  <2>1. CASE c \in cuts /\ c < Len(s)
    <3>1. PICK w \in Whole : c + Len(w) \in cuts /\ \A i \in DOMAIN w : s[c + i] = w[i]
      BY <1>3, <2>1
    <3>2. Len(w) \in 5 .. 6 /\ DOMAIN w = 1 .. Len(w)
      BY WholeType
    <3>3. \A i \in DOMAIN w : t[c + i] = w[i]
      BY <1>1, <1>2, <1>3, <3>1, <3>2, <2>1
    <3> QED BY <3>1, <3>3
  <2>2. CASE c = Len(s)
    <3>1. \A i \in DOMAIN msg : t[c + i] = msg[i]
      BY <1>1, <1>2, <2>2
    <3> QED BY <3>1, <2>2
  <2> QED BY <1>1, <1>2, <1>3, <1>5, <2>1, <2>2
<1>6. Framed(t)
  BY <1>4, <1>5 DEF Framed
<1> QED BY <1>6 DEF t

(* A framed sequence begins with a whole message, and so does the rest.    *)
LEMMA FramedFirst ==
  ASSUME NEW s \in Seq(Token), Framed(s), s # <<>>
  PROVE  \E msg \in Whole :
           /\ Len(msg) <= Len(s) /\ \A i \in DOMAIN msg : s[i] = msg[i]
           /\ Framed(SubSeq(s, Len(msg) + 1, Len(s)))
<1>1. PICK cuts \in SUBSET (0 .. Len(s)) :
        /\ 0 \in cuts
        /\ \A c \in cuts : c < Len(s) =>
             \E w \in Whole : c + Len(w) \in cuts /\ \A i \in DOMAIN w : s[c + i] = w[i]
  BY DEF Framed
<1>2. Len(s) \in Nat /\ Len(s) > 0
  BY EmptySeq, LenProperties
<1>3. PICK msg \in Whole : Len(msg) \in cuts /\ \A i \in DOMAIN msg : s[i] = msg[i]
  <2>1. PICK w \in Whole : 0 + Len(w) \in cuts /\ \A i \in DOMAIN w : s[0 + i] = w[i]
    BY <1>1, <1>2
  <2>2. Len(w) \in 5 .. 6 /\ DOMAIN w = 1 .. Len(w)
    BY WholeType
  <2> QED BY <2>1, <2>2
<1>4. Len(msg) \in 5 .. 6 /\ DOMAIN msg = 1 .. Len(msg) /\ Len(msg) <= Len(s)
  BY WholeType, <1>1, <1>3
<1> DEFINE n == Len(msg)
           t == SubSeq(s, n + 1, Len(s))
<1>5. Len(t) = Len(s) - n /\ \A i \in 1 .. Len(s) - n : t[i] = s[n + i]
  <2>1. \A i \in n + 1 .. Len(s) : s[i] \in Token
    BY <1>4, ElementOfSeq
  <2>2. n + 1 \in Int /\ Len(s) \in Int
    BY <1>2, <1>4
  <2>3. /\ Len(t) = IF n + 1 <= Len(s) THEN Len(s) - (n + 1) + 1 ELSE 0
        /\ \A i \in 1 .. Len(s) - (n + 1) + 1 : t[i] = s[n + 1 + i - 1]
    BY <2>1, <2>2, SubSeqProperties
  <2>4. \A i \in 1 .. Len(s) - n : n + 1 + i - 1 = n + i
    BY <1>2, <1>4
  <2> QED BY <1>2, <1>4, <2>3, <2>4
<1> HIDE DEF t
<1> DEFINE rest == {c \in 0 .. Len(t) : c + n \in cuts}
<1>6. rest \in SUBSET (0 .. Len(t)) /\ 0 \in rest
  BY <1>2, <1>3, <1>4, <1>5
<1>7. ASSUME NEW c \in rest, c < Len(t)
      PROVE  \E w \in Whole : c + Len(w) \in rest /\ \A i \in DOMAIN w : t[c + i] = w[i]
  <2>1. c \in Nat /\ c + n \in cuts /\ c + n < Len(s)
    BY <1>2, <1>4, <1>5, <1>7
  <2>2. PICK w \in Whole : c + n + Len(w) \in cuts /\ \A i \in DOMAIN w : s[c + n + i] = w[i]
    BY <1>1, <2>1
  <2>3. Len(w) \in 5 .. 6 /\ DOMAIN w = 1 .. Len(w)
    BY WholeType
  <2>4. c + n + Len(w) \in 0 .. Len(s)
    BY <1>1, <2>2
  <2>5. c + Len(w) \in rest
    BY <1>2, <1>4, <1>5, <2>1, <2>2, <2>3, <2>4
  <2>6. \A i \in DOMAIN w : t[c + i] = w[i]
    <3> SUFFICES ASSUME NEW i \in DOMAIN w PROVE t[c + i] = w[i]
      OBVIOUS
    <3>1. c + i \in 1 .. Len(s) - n /\ n + (c + i) = c + n + i
      BY <1>2, <1>4, <2>1, <2>3, <2>4
    <3> QED BY <1>5, <2>2, <3>1
  <2> QED BY <2>5, <2>6
<1>8. Framed(t)
  BY <1>6, <1>7 DEF Framed
<1> QED BY <1>3, <1>4, <1>8 DEF t

-----------------------------------------------------------------------------
(* ---- the parser ---- *)

(* An array of one parameter ends where its parameter does.                *)
LEMMA OneParam == ParamsEnd(1) = ParamEnd(5)
<1> DEFINE F(g, k) == IF k = 0 THEN 5 ELSE IF g[k - 1] = 0 THEN 0 ELSE ParamEnd(g[k - 1])
           h == [k \in 0 .. 1 |-> IF k = 0 THEN 5 ELSE ParamEnd(5)]
           end == CHOOSE g : g = [k \in 0 .. 1 |-> F(g, k)]
<1>1. h = [k \in 0 .. 1 |-> F(h, k)]
  OBVIOUS
<1>2. end = [k \in 0 .. 1 |-> F(end, k)]
  BY <1>1
<1> HIDE DEF end
<1>3. end[0] = 5
  BY <1>2
<1>4. end[1] = ParamEnd(5)
  <2>1. end[1] = F(end, 1)
    BY <1>2
  <2> QED BY <2>1, <1>3
<1>5. ParamsEnd(1) = end[1]
  BY DEF ParamsEnd, end
<1> QED BY <1>4, <1>5

(* Standing on a whole message, the parser takes it all once it is there,  *)
(* and nothing before.                                                     *)
LEMMA TakesWhole ==
  ASSUME buf \in Seq(Token), buf # <<>>, NEW msg \in Whole,
         \A i \in DOMAIN msg : i <= Len(buf) => buf[i] = msg[i]
  PROVE  Used = IF Len(msg) <= Len(buf) THEN Len(msg) ELSE 0
<1>1. Len(buf) \in Nat /\ Len(buf) >= 1
  BY EmptySeq, LenProperties
<1>2. PICK m \in ToSet(Methods) : msg = Notification(m) \/ msg = Response(m)
  BY DEF Whole
<1>3. CASE msg = Response(m)
  <2>1. \A i \in 1 .. 5 : At(i) = IF i <= Len(buf) THEN msg[i][1] ELSE "end"
    BY <1>3, MessageTypes DEF At
  <2>2. Len(msg) = 5 /\ msg[1][1] = "arr4" /\ msg[3][1] = "one" /\ msg[5][1] = "true"
    BY <1>3, Messages
  <2>3. /\ Len(msg) = 5 /\ At(1) = "arr4"
        /\ At(3) = IF 3 <= Len(buf) THEN "one" ELSE "end"
        /\ At(5) = IF 5 <= Len(buf) THEN "true" ELSE "end"
    BY <1>1, <2>1, <2>2
  <2>4. Used = ResponseUsed
    BY <2>3 DEF Used
  <2> QED BY <1>1, <2>3, <2>4 DEF ResponseUsed, Ints
<1>4. CASE msg = Notification(m)
  <2>1. \A i \in 1 .. 6 : At(i) = IF i <= Len(buf) THEN msg[i][1] ELSE "end"
    BY <1>4, MessageTypes DEF At
  <2>2. /\ Len(msg) = 6 /\ msg[1][1] = "arr3" /\ msg[2][1] = "two" /\ msg[3][1] = "name"
        /\ msg[4][1] = "arr1" /\ msg[5][1] = "head" /\ msg[6][1] = "body"
    BY <1>4, Messages
  <2>3. /\ Len(msg) = 6 /\ At(1) = "arr3"
        /\ At(2) = IF 2 <= Len(buf) THEN "two" ELSE "end"
        /\ At(3) = IF 3 <= Len(buf) THEN "name" ELSE "end"
        /\ At(4) = IF 4 <= Len(buf) THEN "arr1" ELSE "end"
        /\ At(5) = IF 5 <= Len(buf) THEN "head" ELSE "end"
        /\ At(6) = IF 6 <= Len(buf) THEN "body" ELSE "end"
    BY <1>1, <2>1, <2>2
  <2>4. Used = NotificationUsed
    BY <2>3 DEF Used
  <2>5. CASE Len(buf) < 4
    BY <1>1, <2>3, <2>4, <2>5 DEF NotificationUsed, Ints
  <2>6. CASE Len(buf) >= 4
    <3>1. ParamEnd(5) = IF Len(buf) >= 6 THEN 7 ELSE 0
      BY <1>1, <2>3, <2>6 DEF ParamEnd, Ints
    <3>2. NotificationUsed = IF ParamEnd(5) = 0 THEN 0 ELSE ParamEnd(5) - 1
      BY <1>1, <2>3, <2>6, OneParam DEF NotificationUsed, Ints, Arrays, ArrayLength
    <3> QED BY <1>1, <2>3, <2>4, <3>1, <3>2
  <2> QED BY <1>1, <2>5, <2>6
<1> QED BY <1>2, <1>3, <1>4

-----------------------------------------------------------------------------
(* ---- the steps ---- *)

(* Every part of the alignment is a sequence of tokens.                    *)
LEMMA AnswerPart ==
  ASSUME NEW m \in ToSet(Methods), NEW n \in 0 .. 5
  PROVE  /\ SubSeq(Response(m), 1, n) \in Seq(Token)
         /\ Len(SubSeq(Response(m), 1, n)) = n
         /\ \A i \in 1 .. n : SubSeq(Response(m), 1, n)[i] = Response(m)[i]
<1> DEFINE r == Response(m)
<1>1. r \in Seq(Token) /\ Len(r) = 5
  BY MessageTypes
<1> HIDE DEF r
<1>2. \A i \in 1 .. n : r[i] \in Token
  BY <1>1, ElementOfSeq
<1>3. /\ SubSeq(r, 1, n) \in Seq(Token) /\ Len(SubSeq(r, 1, n)) = n
      /\ \A i \in 1 .. n : SubSeq(r, 1, n)[i] = r[i]
  BY <1>2, SubSeqProperties
<1> QED BY <1>3 DEF r

(* The peer writes whole messages.                                         *)
LEMMA WriteAligned ==
  ASSUME Types, Connected, Aligned, NEW msg \in Whole, Write(msg), UNCHANGED <<pc, matched, buf>>
  PROVE  Aligned'
<1>1. msg \in Seq(Token) /\ stream \in Seq(Token) /\ buf \in Seq(Token)
  BY WholeType DEF Types, Connected
<1>2. \A part \in Seq(Token) : Framed(part \o stream) => Framed(part \o stream')
  <2> SUFFICES ASSUME NEW part \in Seq(Token), Framed(part \o stream)
               PROVE  Framed(part \o stream')
    OBVIOUS
  <2>1. part \o stream \in Seq(Token)
    BY <1>1, ConcatProperties
  <2>2. Framed((part \o stream) \o msg)
    BY <2>1, FramedAppend
  <2>3. (part \o stream) \o msg = part \o (stream \o msg)
    BY <1>1, ConcatAssociative
  <2> QED BY <2>2, <2>3 DEF Write
<1>3. CASE pc = "answer"
  <2>1. PICK m \in ToSet(Methods) : Framed(SubSeq(Response(m), 1, matched) \o stream)
    BY <1>3 DEF Aligned
  <2>2. matched \in 0 .. 4 /\ SubSeq(Response(m), 1, matched) \in Seq(Token)
    BY <1>3, AnswerPart DEF Aligned
  <2>3. Framed(SubSeq(Response(m), 1, matched) \o stream')
    BY <1>2, <2>1, <2>2
  <2> QED BY <1>3, <2>2, <2>3 DEF Aligned
<1>4. CASE pc # "answer"
  BY <1>1, <1>2, <1>4 DEF Aligned
<1> QED BY <1>3, <1>4

LEMMA AnswerStep == ASSUME FrameInv, Answer PROVE FrameInv'
<1>1. PICK msg : msg = Response(Head(requests))
  OBVIOUS
<1>2. Head(requests) \in ToSet(Methods) /\ Tail(requests) \in Seq(ToSet(Methods))
  BY DEF FrameInv, Types, Answer
<1>3. msg \in Whole /\ msg \in Seq(Token)
  BY <1>1, <1>2, WholeType DEF Whole
<1>4. Types'
  <2>1. stream' = stream \o msg /\ stream \in Seq(Token)
    BY <1>1 DEF FrameInv, Types, Answer, Write
  <2>2. stream' \in Seq(Token)
    BY <1>3, <2>1, ConcatProperties
  <2> QED BY <1>2, <2>2 DEF FrameInv, Types, Answer, parser, registering
<1>5. ASSUME ~cut' PROVE Connected' /\ Aligned'
  <2>1. Connected'
    BY <1>5 DEF FrameInv, Connected, Answer, parser
  <2>2. Types /\ Connected /\ Aligned /\ Write(msg) /\ UNCHANGED <<pc, matched, buf>>
    BY <1>1, <1>5 DEF FrameInv, Answer, parser, registering
  <2>3. Aligned'
    BY <1>3, <2>2, WriteAligned
  <2> QED BY <2>1, <2>3
<1> QED BY <1>4, <1>5 DEF FrameInv

LEMMA NotifyStep ==
  ASSUME FrameInv, NEW m \in ToSet(Methods), Notify(m) PROVE FrameInv'
<1>1. PICK msg : msg = Notification(m)
  OBVIOUS
<1>2. msg \in Whole /\ msg \in Seq(Token)
  BY <1>1, WholeType DEF Whole
<1>3. Types'
  <2>1. stream' = stream \o msg /\ stream \in Seq(Token)
    BY <1>1 DEF FrameInv, Types, Notify, Write
  <2>2. stream' \in Seq(Token)
    BY <1>2, <2>1, ConcatProperties
  <2> QED BY <2>2 DEF FrameInv, Types, Notify, parser, registering, router
<1>4. ASSUME ~cut' PROVE Connected' /\ Aligned'
  <2>1. Connected'
    BY <1>4 DEF FrameInv, Connected, Notify, parser
  <2>2. Types /\ Connected /\ Aligned /\ Write(msg) /\ UNCHANGED <<pc, matched, buf>>
    BY <1>1, <1>4 DEF FrameInv, Notify, parser, registering
  <2>3. Aligned'
    BY <1>2, <2>2, WriteAligned
  <2> QED BY <2>1, <2>3
<1> QED BY <1>3, <1>4 DEF FrameInv

(* What cuts the stream leaves the tokens what they were.                  *)
LEMMA CutSteps ==
  ASSUME FrameInv,
         (\E m \in ToSet(Methods) : NotifyOdd(m)) \/ Lose \/ RegisterGivesUp
  PROVE  FrameInv'
<1>1. CASE \E m \in ToSet(Methods) : NotifyOdd(m)
  <2>1. PICK m \in ToSet(Methods) : NotifyOdd(m)
    BY <1>1
  <2>2. stream' \in Seq(Token)
    <3>1. OddOne(m) \in Seq(Token) /\ stream \in Seq(Token)
      BY MessageTypes DEF FrameInv, Types
    <3> QED BY <2>1, <3>1, ConcatProperties DEF NotifyOdd, Write
  <2> QED BY <2>1, <2>2 DEF FrameInv, Types, NotifyOdd, parser, registering
<1>2. CASE Lose
  <2>1. stream' \in Seq(Token)
    <3>1. PICK k \in 0 .. Len(stream) : stream' = SubSeq(stream, 1, k)
      BY <1>2 DEF Lose
    <3>2. stream \in Seq(Token) /\ k \in Int /\ \A i \in 1 .. k : stream[i] \in Token
      BY ElementOfSeq DEF FrameInv, Types
    <3> QED BY <3>1, <3>2, SubSeqProperties
  <2> QED BY <1>2, <2>1 DEF FrameInv, Types, Lose, parser, registering
<1>3. CASE RegisterGivesUp
  BY <1>3 DEF FrameInv, Types, RegisterGivesUp, parser, router
<1> QED BY <1>1, <1>2, <1>3

LEMMA MethodsType == Methods \in Seq(ToSet(Methods)) /\ Methods # <<>>
<1>1. \A i \in 1 .. Len(Methods) : Methods[i] \in ToSet(Methods)
  BY ClientAssumption DEF ToSet
<1> QED BY <1>1, ClientAssumption

(* The first token of a message says which kind it is.                     *)
LEMMA KindOfWhole ==
  ASSUME NEW msg \in Whole, msg[1][1] = "arr4"
  PROVE  \E m \in ToSet(Methods) : msg = Response(m)
<1>1. PICK m \in ToSet(Methods) : msg = Notification(m) \/ msg = Response(m)
  BY DEF Whole
<1>2. Notification(m)[1][1] = "arr3"
  BY Messages
<1> QED BY <1>1, <1>2

(* A token that matches continues the answer, or begins one.               *)
LEMMA ReadStep ==
  ASSUME FrameInv, RegisterRead, ~cut'
  PROVE  Aligned'
<1> DEFINE s(m) == SubSeq(Response(m), 1, matched) \o stream
<1>1. /\ ~cut /\ pc = "answer" /\ matched \in 0 .. 4 /\ buf = <<>>
      /\ stream \in Seq(Token) /\ stream # <<>> /\ matched' = matched + 1
      /\ stream' = Tail(stream) /\ buf' = buf /\ Matches(Head(stream))
      /\ IF matched' = 5 THEN pc' = "register" ELSE pc' = pc
  BY DEF FrameInv, Types, Connected, Aligned, RegisterRead, parser
<1>2. PICK m \in ToSet(Methods) : Framed(s(m))
  BY <1>1 DEF FrameInv, Aligned
<1>3. /\ s(m) \in Seq(Token) /\ Len(s(m)) = matched + Len(stream)
      /\ \A i \in 1 .. matched : s(m)[i] = Response(m)[i]
      /\ \A i \in 1 .. Len(stream) : s(m)[matched + i] = stream[i]
  <2> DEFINE part == SubSeq(Response(m), 1, matched)
  <2>1. /\ part \in Seq(Token) /\ Len(part) = matched
        /\ \A i \in 1 .. matched : part[i] = Response(m)[i]
    BY <1>1, AnswerPart
  <2> HIDE DEF part
  <2>2. /\ part \o stream \in Seq(Token) /\ Len(part \o stream) = Len(part) + Len(stream)
        /\ \A i \in 1 .. Len(part) + Len(stream) : (part \o stream)[i] =
             IF i <= Len(part) THEN part[i] ELSE stream[i - Len(part)]
    BY <1>1, <2>1, ConcatProperties
  <2>3. /\ \A i \in 1 .. matched : (part \o stream)[i] = Response(m)[i]
        /\ \A i \in 1 .. Len(stream) : (part \o stream)[matched + i] = stream[i]
    BY <1>1, <2>1, <2>2
  <2> QED BY <2>1, <2>2, <2>3 DEF part
<1>4. Len(stream) \in Nat /\ Len(stream) >= 1 /\ Head(stream) = stream[1]
  BY <1>1, EmptySeq, LenProperties
<1> DEFINE t == s(m)
<1> HIDE DEF s
<1>5. PICK msg \in Whole :
        /\ Len(msg) <= Len(t) /\ \A i \in DOMAIN msg : t[i] = msg[i]
        /\ Framed(SubSeq(t, Len(msg) + 1, Len(t)))
  BY <1>1, <1>2, <1>3, <1>4, FramedFirst, EmptySeq
<1>6. Len(msg) \in 5 .. 6 /\ DOMAIN msg = 1 .. Len(msg)
  BY WholeType
<1>7. msg[1][1] = "arr4"
  <2>1. CASE matched = 0
    <3>1. t[1] = stream[1] /\ Matches(stream[1])
      BY <1>1, <1>3, <1>4, <2>1
    <3>2. Response(stream[1][2])[1][1] = "arr4"
      BY Messages
    <3> QED BY <1>5, <1>6, <2>1, <3>1, <3>2 DEF Matches
  <2>2. CASE matched # 0
    <3>1. t[1] = Response(m)[1] /\ Response(m)[1][1] = "arr4"
      BY <1>1, <1>3, <2>2, Messages
    <3> QED BY <1>5, <1>6, <3>1
  <2> QED BY <2>1, <2>2
<1>8. PICK r \in ToSet(Methods) : msg = Response(r)
  BY <1>7, KindOfWhole
<1>9. Len(msg) = 5
  BY <1>8, MessageTypes
<1> DEFINE rest == Tail(stream)
<1>10. /\ stream' = rest
       /\ rest \in Seq(Token) /\ Len(rest) = Len(stream) - 1
       /\ \A i \in 1 .. Len(stream) - 1 : rest[i] = t[matched + 1 + i]
  <2>1. /\ rest \in Seq(Token) /\ Len(rest) = Len(stream) - 1
        /\ \A i \in 1 .. Len(stream) - 1 : rest[i] = stream[i + 1]
    BY <1>1, HeadTailProperties
  <2>2. \A i \in 1 .. Len(stream) - 1 : stream[i + 1] = t[matched + (i + 1)]
    BY <1>3, <1>4
  <2>3. \A i \in 1 .. Len(stream) - 1 : matched + (i + 1) = matched + 1 + i
    BY <1>1, <1>4
  <2> QED BY <1>1, <2>1, <2>2, <2>3
<1> HIDE DEF rest
<1>11. CASE matched' = 5
  <2>1. SubSeq(t, 6, Len(t)) = rest
    <3> DEFINE u == SubSeq(t, 6, Len(t))
    <3>1. \A i \in 6 .. Len(t) : t[i] \in Token
      BY <1>3, ElementOfSeq
    <3>2. /\ u \in Seq(Token) /\ Len(u) = IF 6 <= Len(t) THEN Len(t) - 6 + 1 ELSE 0
          /\ \A i \in 1 .. Len(t) - 6 + 1 : u[i] = t[6 + i - 1]
      BY <1>1, <1>3, <1>4, <3>1, SubSeqProperties
    <3> HIDE DEF u
    <3>3. matched = 4 /\ Len(t) = 4 + Len(stream)
      BY <1>1, <1>3, <1>11
    <3>4. Len(u) = Len(rest)
      <4>1. 6 <= Len(t) <=> 2 <= Len(stream)
        BY <1>4, <3>3
      <4>2. CASE 2 <= Len(stream)
        BY <1>4, <1>10, <3>2, <3>3, <4>1, <4>2
      <4>3. CASE Len(stream) = 1
        BY <1>10, <3>2, <4>1, <4>3
      <4>4. 2 <= Len(stream) \/ Len(stream) = 1
        <5>1. \A n \in Nat : n >= 1 => 2 <= n \/ n = 1
          OBVIOUS
        <5> QED BY <1>4, <5>1
      <4> QED BY <4>2, <4>3, <4>4
    <3>5. \A i \in 1 .. Len(u) : u[i] = rest[i]
      <4> SUFFICES ASSUME NEW i \in 1 .. Len(u) PROVE u[i] = rest[i]
        OBVIOUS
      <4>1. i \in 1 .. Len(stream) - 1 /\ i \in 1 .. Len(t) - 6 + 1
            /\ 6 + i - 1 = matched + 1 + i
        BY <1>4, <1>10, <3>3, <3>4
      <4> QED BY <1>10, <3>2, <4>1
    <3>6. u = rest
      BY <1>10, <3>2, <3>4, <3>5, SeqEqual
    <3> QED BY <3>6 DEF u
  <2>2. Framed(rest)
    <3>1. Len(msg) + 1 = 6
      BY <1>9
    <3> QED BY <1>5, <2>1, <3>1
  <2>3. buf' \o stream' = rest
    BY <1>1, <1>10, ConcatEmptySeq
  <2> QED BY <1>1, <1>10, <1>11, <2>2, <2>3 DEF Aligned
<1>12. CASE matched' # 5
  <2> DEFINE part == SubSeq(Response(r), 1, matched + 1)
  <2>1. /\ part \in Seq(Token) /\ Len(part) = matched + 1
        /\ \A i \in 1 .. matched + 1 : part[i] = t[i]
    <3>1. /\ part \in Seq(Token) /\ Len(part) = matched + 1
          /\ \A i \in 1 .. matched + 1 : part[i] = Response(r)[i]
      BY <1>1, AnswerPart
    <3> QED BY <1>1, <1>5, <1>6, <1>8, <1>9, <3>1
  <2> HIDE DEF part
  <2>2. /\ part \o rest \in Seq(Token)
        /\ Len(part \o rest) = Len(part) + Len(rest)
        /\ \A i \in 1 .. Len(part) + Len(rest) : (part \o rest)[i] =
             IF i <= Len(part) THEN part[i] ELSE rest[i - Len(part)]
    BY <1>10, <2>1, ConcatProperties
  <2>3. Len(part \o rest) = Len(t)
    BY <1>1, <1>3, <1>4, <1>10, <2>1, <2>2
  <2>4. \A i \in 1 .. Len(t) : (part \o rest)[i] = t[i]
    <3> SUFFICES ASSUME NEW i \in 1 .. Len(t) PROVE (part \o rest)[i] = t[i]
      OBVIOUS
    <3>1. CASE i <= matched + 1
      BY <1>1, <2>1, <2>2, <2>3, <3>1
    <3>2. CASE i > matched + 1
      <4>1. i - (matched + 1) \in 1 .. Len(stream) - 1
            /\ matched + 1 + (i - (matched + 1)) = i
        BY <1>1, <1>3, <1>4, <3>2
      <4>2. rest[i - (matched + 1)] = t[i]
        BY <1>10, <4>1
      <4>3. i \in 1 .. Len(part) + Len(rest) /\ ~(i <= Len(part))
        BY <1>1, <2>1, <2>2, <2>3, <3>2
      <4>4. (part \o rest)[i] = rest[i - Len(part)]
        BY <2>2, <4>3
      <4> QED BY <2>1, <4>2, <4>4
    <3>3. i <= matched + 1 \/ i > matched + 1
      BY <1>1, <1>3, <1>4
    <3> QED BY <3>1, <3>2, <3>3
  <2>5. part \o rest = t
    BY <1>3, <2>2, <2>3, <2>4, SeqEqual
  <2>6. Framed(SubSeq(Response(r), 1, matched') \o stream')
    BY <1>1, <1>2, <1>10, <2>5 DEF part
  <2> QED BY <1>1, <1>12, <2>6 DEF Aligned
<1> QED BY <1>11, <1>12

(* What the parser takes is a whole message; what it leaves is framed.     *)
LEMMA TakenWhole ==
  ASSUME FrameInv, ~cut, pc = "parse", Used > 0
  PROVE  /\ Taken \in Whole /\ Used \in 5 .. 6 /\ Used <= Len(buf)
         /\ Framed(SubSeq(buf, Used + 1, Len(buf)) \o stream)
<1> DEFINE s == buf \o stream
<1>1. buf \in Seq(Token) /\ stream \in Seq(Token) /\ Framed(s)
  BY DEF FrameInv, Types, Connected, Aligned
<1>2. buf # <<>>
  BY DEF Used, At
<1>3. Len(buf) \in Nat /\ Len(buf) >= 1 /\ Len(stream) \in Nat
  BY <1>1, <1>2, EmptySeq, LenProperties
<1>4. /\ s \in Seq(Token) /\ Len(s) = Len(buf) + Len(stream)
      /\ \A i \in 1 .. Len(buf) + Len(stream) :
           s[i] = IF i <= Len(buf) THEN buf[i] ELSE stream[i - Len(buf)]
  BY <1>1, ConcatProperties
<1> HIDE DEF s
<1>5. s # <<>>
  BY <1>3, <1>4
<1>6. PICK msg \in Whole :
        /\ Len(msg) <= Len(s) /\ \A i \in DOMAIN msg : s[i] = msg[i]
        /\ Framed(SubSeq(s, Len(msg) + 1, Len(s)))
  BY <1>1, <1>4, <1>5, FramedFirst
<1>7. msg \in Seq(Token) /\ Len(msg) \in 5 .. 6 /\ DOMAIN msg = 1 .. Len(msg)
  BY WholeType
<1>8. \A i \in DOMAIN msg : i <= Len(buf) => buf[i] = msg[i]
  BY <1>3, <1>4, <1>6, <1>7
<1>9. Used = Len(msg) /\ Len(msg) <= Len(buf)
  <2>1. Used = IF Len(msg) <= Len(buf) THEN Len(msg) ELSE 0
    BY <1>1, <1>2, <1>8, TakesWhole
  <2> QED BY <1>3, <1>7, <2>1
<1> DEFINE n == Len(msg)
<1>10. Taken = msg
  <2> DEFINE t == SubSeq(buf, 1, n)
  <2>1. \A i \in 1 .. n : buf[i] \in Token
    BY <1>1, <1>3, <1>7, <1>9, ElementOfSeq
  <2>2. t \in Seq(Token) /\ Len(t) = n /\ \A i \in 1 .. n : t[i] = buf[i]
    BY <1>7, <2>1, SubSeqProperties
  <2> HIDE DEF t
  <2>3. \A i \in 1 .. n : t[i] = msg[i]
    BY <1>3, <1>7, <1>8, <1>9, <2>2
  <2>4. t = msg
    BY <1>7, <2>2, <2>3, SeqEqual
  <2> QED BY <1>9, <2>4 DEF t, Taken
<1>11. SubSeq(buf, n + 1, Len(buf)) \o stream = SubSeq(s, n + 1, Len(s))
  <2> DEFINE b == SubSeq(buf, n + 1, Len(buf))
             u == SubSeq(s, n + 1, Len(s))
             bs == b \o stream
  <2>1. /\ b \in Seq(Token) /\ Len(b) = Len(buf) - n
        /\ \A i \in 1 .. Len(buf) - n : b[i] = buf[n + i]
    <3>1. \A i \in n + 1 .. Len(buf) : buf[i] \in Token
      BY <1>1, <1>3, <1>7, ElementOfSeq
    <3>2. /\ b \in Seq(Token) /\ Len(b) = IF n + 1 <= Len(buf) THEN Len(buf) - (n + 1) + 1 ELSE 0
          /\ \A i \in 1 .. Len(buf) - (n + 1) + 1 : b[i] = buf[n + 1 + i - 1]
      BY <1>3, <1>7, <3>1, SubSeqProperties
    <3>3. \A i \in 1 .. Len(buf) - n : n + 1 + i - 1 = n + i
      BY <1>3, <1>7
    <3> QED BY <1>3, <1>7, <1>9, <3>2, <3>3
  <2>2. /\ u \in Seq(Token) /\ Len(u) = Len(s) - n
        /\ \A i \in 1 .. Len(s) - n : u[i] = s[n + i]
    <3>1. \A i \in n + 1 .. Len(s) : s[i] \in Token
      BY <1>4, <1>7, ElementOfSeq
    <3>2. /\ u \in Seq(Token) /\ Len(u) = IF n + 1 <= Len(s) THEN Len(s) - (n + 1) + 1 ELSE 0
          /\ \A i \in 1 .. Len(s) - (n + 1) + 1 : u[i] = s[n + 1 + i - 1]
      BY <1>3, <1>4, <1>7, <3>1, SubSeqProperties
    <3>3. \A i \in 1 .. Len(s) - n : n + 1 + i - 1 = n + i
      BY <1>3, <1>4, <1>7
    <3> QED BY <1>3, <1>4, <1>6, <1>7, <3>2, <3>3
  <2> HIDE DEF b, u
  <2>3. /\ bs \in Seq(Token) /\ Len(bs) = Len(b) + Len(stream)
        /\ \A i \in 1 .. Len(b) + Len(stream) :
             bs[i] = IF i <= Len(b) THEN b[i] ELSE stream[i - Len(b)]
    BY <1>1, <2>1, ConcatProperties
  <2> HIDE DEF bs
  <2>4. Len(bs) = Len(u)
    BY <1>3, <1>4, <1>7, <2>1, <2>2, <2>3
  <2>5. \A i \in 1 .. Len(bs) : bs[i] = u[i]
    <3> SUFFICES ASSUME NEW i \in 1 .. Len(bs) PROVE bs[i] = u[i]
      OBVIOUS
    <3>1. /\ i \in 1 .. Len(s) - n /\ n + i \in 1 .. Len(buf) + Len(stream)
          /\ i \in 1 .. Len(b) + Len(stream)
          /\ (i <= Len(b) <=> n + i <= Len(buf)) /\ i - Len(b) = n + i - Len(buf)
          /\ (i <= Len(b) => i \in 1 .. Len(buf) - n)
      BY <1>3, <1>4, <1>7, <1>9, <2>1, <2>2, <2>3, <2>4
    <3>2. u[i] = IF n + i <= Len(buf) THEN buf[n + i] ELSE stream[n + i - Len(buf)]
      BY <1>4, <2>2, <3>1
    <3>3. bs[i] = IF i <= Len(b) THEN b[i] ELSE stream[i - Len(b)]
      BY <2>3, <3>1
    <3> QED BY <2>1, <3>1, <3>2, <3>3
  <2>6. bs = u
    BY <2>2, <2>3, <2>4, <2>5, SeqEqual
  <2> QED BY <2>6 DEF bs, b, u
<1>12. Framed(SubSeq(buf, n + 1, Len(buf)) \o stream)
  BY <1>6, <1>11
<1> QED BY <1>7, <1>9, <1>10, <1>12

(* Where the parser finds nothing whole, less than a message is left, and  *)
(* the buffer is not dropped.                                              *)
LEMMA LeftOver ==
  ASSUME FrameInv, ~cut, pc = "parse", Used = 0
  PROVE  Len(buf) <= MaxBuffer
<1> DEFINE s == buf \o stream
<1>1. buf \in Seq(Token) /\ stream \in Seq(Token) /\ Framed(s)
  BY DEF FrameInv, Types, Connected, Aligned
<1>2. Len(buf) \in Nat /\ Len(stream) \in Nat
  BY <1>1, LenProperties
<1>3. CASE buf = <<>>
  BY <1>3, FrameFitsAssumption
<1>4. CASE buf # <<>>
  <2>1. Len(buf) >= 1
    BY <1>1, <1>2, <1>4, EmptySeq, LenProperties
  <2>2. /\ s \in Seq(Token) /\ Len(s) = Len(buf) + Len(stream)
        /\ \A i \in 1 .. Len(buf) + Len(stream) :
             s[i] = IF i <= Len(buf) THEN buf[i] ELSE stream[i - Len(buf)]
    BY <1>1, ConcatProperties
  <2> HIDE DEF s
  <2>3. s # <<>>
    BY <1>2, <2>1, <2>2
  <2>4. PICK msg \in Whole :
          Len(msg) <= Len(s) /\ \A i \in DOMAIN msg : s[i] = msg[i]
    BY <1>1, <2>2, <2>3, FramedFirst
  <2>5. Len(msg) \in 5 .. 6 /\ DOMAIN msg = 1 .. Len(msg)
    BY WholeType
  <2>6. \A i \in DOMAIN msg : i <= Len(buf) => buf[i] = msg[i]
    BY <1>2, <2>2, <2>4, <2>5
  <2>7. Used = IF Len(msg) <= Len(buf) THEN Len(msg) ELSE 0
    BY <1>1, <1>4, <2>6, TakesWhole
  <2>8. Len(buf) < 6
    <3>1. \A n \in 5 .. 6, l \in Nat : 0 = (IF n <= l THEN n ELSE 0) => l < 6
      OBVIOUS
    <3> QED BY <1>2, <2>5, <2>7, <3>1
  <2> QED BY <1>2, <2>8, FrameFitsAssumption
<1> QED BY <1>3, <1>4

LEMMA RegisterReadStep == ASSUME FrameInv, RegisterRead PROVE FrameInv'
<1>1. Types'
  <2>1. /\ stream \in Seq(Token) /\ stream # <<>> /\ stream' = Tail(stream)
        /\ todo \in Seq(ToSet(Methods)) /\ todo # <<>> /\ pc = "answer"
        /\ matched \in Nat /\ cut \in BOOLEAN
    BY DEF FrameInv, Types, RegisterRead
  <2>2. Tail(stream) \in Seq(Token) /\ Tail(todo) \in Seq(ToSet(Methods))
    BY <2>1, HeadTailProperties
  <2>3. matched' \in Nat /\ cut' \in BOOLEAN
    <3>1. CASE Matches(Head(stream))
      BY <2>1, <3>1 DEF RegisterRead
    <3>2. CASE ~Matches(Head(stream))
      BY <3>2 DEF RegisterRead, Never
    <3> QED BY <3>1, <3>2
  <2>4. todo' \in Seq(ToSet(Methods)) /\ (pc' = "answer" => todo' # <<>>)
    BY <2>1, <2>2 DEF RegisterRead
  <2> QED BY <2>1, <2>2, <2>3, <2>4 DEF FrameInv, Types, RegisterRead, parser, router
<1>2. ASSUME ~cut' PROVE Connected'
  BY <1>2 DEF FrameInv, Connected, RegisterRead, parser
<1> QED BY <1>1, <1>2, ReadStep DEF FrameInv

(* Wherever a read ends, the buffer and the stream together stay the same. *)
LEMMA ReadsOn == ASSUME FrameInv, Read PROVE FrameInv'
<1>1. PICK k \in 1 .. Len(stream) :
        /\ buf' = buf \o SubSeq(stream, 1, k)
        /\ stream' = SubSeq(stream, k + 1, Len(stream))
  BY DEF Read
<1>2. stream \in Seq(Token) /\ Len(stream) \in Nat
  BY LenProperties DEF FrameInv, Types
<1> DEFINE a == SubSeq(stream, 1, k)
           b == SubSeq(stream, k + 1, Len(stream))
<1>3. a \in Seq(Token) /\ b \in Seq(Token)
  <2>1. \A i \in 1 .. Len(stream) : stream[i] \in Token
    BY <1>2, ElementOfSeq
  <2>2. \A i \in 1 .. k : stream[i] \in Token
    BY <1>2, <2>1
  <2>3. \A i \in k + 1 .. Len(stream) : stream[i] \in Token
    BY <1>2, <2>1
  <2> QED BY <1>2, <2>2, <2>3, SubSeqProperties
<1>4. a \o b = stream
  BY <1>2, ConcatAdjacentSubSeq, SubSeqFull
<1> HIDE DEF a, b
<1>5. Types'
  BY <1>1, <1>3 DEF FrameInv, Types, Read, router, registering, a, b
<1>6. ASSUME ~cut' PROVE Connected' /\ Aligned'
  <2>1. buf \in Seq(Token) /\ pc = "loop" /\ ~cut
    BY <1>6 DEF FrameInv, Connected, Read
  <2>2. buf' \in Seq(Token)
    BY <1>1, <1>3, <2>1, ConcatProperties DEF a
  <2>3. (buf \o a) \o b = buf \o (a \o b)
    BY <1>3, <2>1, ConcatAssociative
  <2>4. buf' \o stream' = buf \o stream
    BY <1>1, <1>4, <2>3 DEF a, b
  <2> QED BY <1>6, <2>1, <2>2, <2>4 DEF FrameInv, Connected, Aligned, Read
<1> QED BY <1>5, <1>6 DEF FrameInv

LEMMA ParseSteps == ASSUME FrameInv, ParseOne \/ ParseEnd PROVE FrameInv'
<1>1. CASE ParseOne
  <2>1. Types'
    BY <1>1 DEF FrameInv, Types, ParseOne, router, registering
  <2>2. ASSUME ~cut' PROVE Connected' /\ Aligned'
    <3>1. ~cut /\ pc = "parse" /\ Used > 0 /\ buf' = SubSeq(buf, Used + 1, Len(buf))
          /\ UNCHANGED <<pc, stream, sock>>
      BY <1>1, <2>2 DEF ParseOne
    <3>2. Framed(SubSeq(buf, Used + 1, Len(buf)) \o stream) /\ Taken \in Whole
          /\ Used \in 5 .. 6
      BY <3>1, TakenWhole
    <3>3. buf' \in Seq(Token)
      <4> DEFINE n == Used
      <4>1. n \in Nat
        BY <3>2
      <4>2. buf \in Seq(Token) /\ Len(buf) \in Nat
        BY <3>1, LenProperties DEF FrameInv, Connected
      <4> HIDE DEF n
      <4>3. \A i \in n + 1 .. Len(buf) : buf[i] \in Token
        BY <4>1, <4>2, ElementOfSeq
      <4>4. SubSeq(buf, n + 1, Len(buf)) \in Seq(Token)
        BY <4>1, <4>2, <4>3, SubSeqProperties
      <4> QED BY <3>1, <4>4 DEF n
    <3> QED BY <3>1, <3>2, <3>3 DEF FrameInv, Connected, Aligned
  <2> QED BY <2>1, <2>2 DEF FrameInv
<1>2. CASE ParseEnd
  <2>1. ASSUME ~cut PROVE buf' = buf
    <3>1. \A n : ~Drop(n)
      BY <1>2, <2>1, LeftOver, LenProperties, FrameFitsAssumption
      DEF ParseEnd, Drop, FrameInv, Connected
    <3> QED BY <1>2, <3>1 DEF ParseEnd
  <2> QED BY <1>2, <2>1
          DEF FrameInv, Types, Connected, Aligned, ParseEnd, router, registering
<1> QED BY <1>1, <1>2

(* The other steps neither read nor write.                                 *)
LEMMA OtherSteps ==
  ASSUME FrameInv,
         \/ ComeUp \/ Start \/ StartFails \/ Reconnect \/ RegisterSend \/ Registered
         \/ EndOfStream \/ Stop \/ Stopped \/ UNCHANGED vars
  PROVE  FrameInv'
<1> USE DEF FrameInv, Types, Connected, Aligned, router, registering, thread, parser
<1>1. CASE ComeUp
  BY <1>1 DEF ComeUp
<1>2. CASE Start
  BY <1>2, MethodsType DEF Start, Connect
<1>3. CASE StartFails
  BY <1>3 DEF StartFails
<1>4. CASE Reconnect
  BY <1>4, MethodsType DEF Reconnect, Connect
<1>5. CASE RegisterSend
  <2>1. requests' \in Seq(ToSet(Methods))
    BY <1>5 DEF RegisterSend
  <2>2. ASSUME ~cut' PROVE Aligned'
    <3>1. ~cut /\ Framed(buf \o stream) /\ buf = <<>> /\ stream \in Seq(Token)
          /\ matched' = 0 /\ stream' = stream /\ pc' = "answer"
      BY <1>5, <2>2 DEF RegisterSend
    <3>2. Framed(<<>> \o stream)
      BY <3>1
    <3>3. PICK m : m \in ToSet(Methods)
      BY MethodsType DEF ToSet
    <3>4. SubSeq(Response(m), 1, 0) = <<>>
      BY SubSeqEmpty
    <3>5. SubSeq(Response(m), 1, matched') = <<>>
      BY <3>1, <3>4
    <3>6. Framed(SubSeq(Response(m), 1, matched') \o stream')
      BY <3>1, <3>2, <3>5
    <3> QED BY <3>1, <3>3, <3>6
  <2> QED BY <1>5, <2>1, <2>2 DEF RegisterSend
<1>6. CASE Registered
  BY <1>6 DEF Registered
<1>7. CASE EndOfStream
  BY <1>7 DEF EndOfStream
<1>8. CASE Stop
  BY <1>8 DEF Stop
<1>9. CASE Stopped
  BY <1>9 DEF Stopped
<1>10. CASE UNCHANGED vars
  BY <1>10 DEF vars
<1> QED BY <1>1, <1>2, <1>3, <1>4, <1>5, <1>6, <1>7, <1>8, <1>9, <1>10

-----------------------------------------------------------------------------
LEMMA FrameInit == Init => FrameInv
<1> SUFFICES ASSUME Init PROVE FrameInv
  OBVIOUS
<1>1. <<>> \o <<>> = <<>>
  BY EmptySeq, ConcatEmptySeq
<1>2. Framed(buf \o stream)
  BY <1>1, FramedEmpty DEF Init
<1> QED BY <1>2, EmptySeq DEF Init, FrameInv, Types, Connected, Aligned

LEMMA FrameStep == FrameInv /\ [Next]_vars => FrameInv'
<1> SUFFICES ASSUME FrameInv, [Next]_vars PROVE FrameInv'
  OBVIOUS
<1> QED BY AnswerStep, NotifyStep, CutSteps, RegisterReadStep, ReadsOn, ParseSteps, OtherSteps
        DEF Next, Sketch, Reader, Unanswered

(* Until something was cut away or was odd, what the stream still holds is *)
(* a sequence of whole messages, from the place the reader is at.          *)
THEOREM StreamIsFramed == Spec => []FrameInv
BY FrameInit, FrameStep, PTL DEF Spec

(* Until then the parser takes whole messages and nothing else, for any    *)
(* methods, and wherever the reads split the stream.                       *)
THEOREM ParserStaysOnFrames == Spec => StaysOnFrames
<1>1. FrameInv =>
        (pc = "parse" /\ Used > 0 /\ ~cut
         => \E m \in ToSet(Methods) : Taken \in {Notification(m), Response(m)})
  BY TakenWhole DEF Whole
<1>2. [][FrameInv]_vars => StaysOnFrames
  BY <1>1, PTL DEF StaysOnFrames
<1> QED BY <1>2, StreamIsFramed, PTL
=============================================================================
