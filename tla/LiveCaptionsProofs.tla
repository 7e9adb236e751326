------------------------- MODULE LiveCaptionsProofs -------------------------
(***************************************************************************)
(* Proofs about LiveCaptions, for any number of sessions and chunks and    *)
(* any size of the buffers: the types and the bounds, the order of the     *)
(* audio from ffmpeg's input to the lines, the lines that stay, and what   *)
(* the file holds.                                                         *)
(***************************************************************************)
EXTENDS LiveCaptions, SequenceTheorems, TLAPS

-----------------------------------------------------------------------------
(* The inductive invariant: of one session, when n chunks have been fed.   *)
NoEnd(q) == \A i \in DOMAIN q : q[i] # End
UpTo(q, n) == \A i \in DOMAIN q : q[i] <= n

LinesOK(x, p) ==
    /\ x.lines \in Seq(Lines) /\ x.shows \in BOOLEAN
    /\ ShownLast(x)
    /\ Len(x.lines) <= MaxLines + 1 /\ (~x.shows => Len(x.lines) <= MaxLines)
    /\ p \in {"deepgram", "whisper"} => ~x.shows

(* What was heard is in the lines, and what is still to be heard was fed.  *)
HeardOK(x, n) ==
    /\ UpTo(Said(x.lines), n)
    /\ x.run = "listening" => UpTo(Said(x.lines), x.heard) /\ x.heard <= n
    /\ x.stream = "starting" => x.lines = <<>> /\ x.first <= n
    /\ x.run = "none" => x.lines = <<>>

(* Whisper's lines do not fall, and none is past what was committed or     *)
(* what was heard.                                                         *)
WindowsOK(x, c) ==
    /\ NotFalling(Said(x.lines))
    /\ UpTo(Said(x.lines), x.committed) /\ UpTo(Said(x.lines), c)

SaidOK(x, p) ==
    /\ LinesInOrder(x, p)
    /\ p = "whisper" /\ x.run = "listening" => WindowsOK(x, x.heard)

(* The end comes last: after ffmpeg's, or with finish, whose outcome is f. *)
BuffersOK(x, n, f) ==
    /\ Len(x.queue) <= QueueSize
    /\ Len(x.pcm) <= PcmSize + 2 /\ (Running(x) => Len(x.pcm) <= PcmSize + 1)
    /\ x.stream \in {"none", "starting"} => x.stdin = <<>> /\ x.pcm = <<>>
    /\ x.stream = "starting" => x.queue = <<>>
    /\ Running(x) => NoEnd(x.pcm) /\ NoEnd(x.queue)
    /\ x.stream = "none" /\ f = NotYet => NoEnd(x.queue)
    /\ UpTo(x.stdin, n) /\ UpTo(x.pcm, n) /\ UpTo(x.queue, n)

SessionOK(x, n, f, p) ==
    /\ x \in Session /\ LinesOK(x, p) /\ HeardOK(x, n) /\ SaidOK(x, p)
    /\ BuffersOK(x, n, f) /\ Continuous(x)

ManagerOK ==
    /\ provider \in Providers
    /\ current \in Sessions \union {NoSession}
    /\ fed \in 0 .. MaxFeeds /\ finish \in Sessions \union {NoSession, NotYet}

SessionsOK ==
    /\ session \in [Sessions -> Session]
    /\ \A s \in Sessions : SessionOK(session[s], fed, finish, provider)

FileTypes ==
    /\ file \in [state : {"absent", "half", "whole"}, parts : Seq(Seq(Lines))]
    /\ order \in Seq(Sessions) /\ overlapped \in BOOLEAN /\ damaged \in BOOLEAN

(* The file as it is, or as the session that is writing it read it.        *)
Parts == [i \in DOMAIN order |-> Finals(session[order[i]].lines)]

FileOK ==
    /\ \A i \in DOMAIN order : session[order[i]].run = "saved"
    /\ \/ overlapped \/ damaged
       \/ /\ \A s, t \in Sessions : Saving(s) /\ Saving(t) => s = t
          /\ file.state = "half" => \E s \in Sessions : session[s].run = "writing"
          /\ file.state # "half" => file.parts = Parts
          /\ \A s \in Sessions : Saving(s) => session[s].earlier = Parts

IInv == ManagerOK /\ SessionsOK /\ FileTypes /\ FileOK

-----------------------------------------------------------------------------
(* Buffers: an element that comes after all of a buffer, or before it, and *)
(* what Append and Tail do to the order.                                   *)
Below(p, c) == \A i \in DOMAIN p : p[i] # End /\ (c = End \/ p[i] < c)
Above(c, q) == \A j \in DOMAIN q : c # End /\ (q[j] = End \/ c < q[j])

LEMMA EmptyOrder ==
    /\ Rising(<<>>) /\ NoEnd(<<>>) /\ \A n : UpTo(<<>>, n)
    /\ \A p : Before(p, <<>>) /\ Before(<<>>, p)
BY DEF Rising, NoEnd, UpTo, Before

LEMMA AppendOrder ==
    ASSUME NEW S \in SUBSET Nat, NEW q \in Seq(S), NEW c \in S
    PROVE  /\ Append(q, c) \in Seq(S) /\ Len(Append(q, c)) = Len(q) + 1
           /\ Rising(q) /\ Below(q, c) => Rising(Append(q, c))
           /\ NoEnd(q) /\ c # End => NoEnd(Append(q, c))
           /\ \A n : UpTo(q, n) /\ c <= n => UpTo(Append(q, c), n)
           /\ \A p : Before(p, q) /\ Below(p, c) => Before(p, Append(q, c))
           /\ \A r : Before(q, r) /\ Above(c, r) => Before(Append(q, c), r)
<1> DEFINE t == Append(q, c)
<1>1. t \in Seq(S) /\ Len(t) = Len(q) + 1 /\ t[Len(t)] = c /\ \A i \in 1 .. Len(q) : t[i] = q[i]
  BY AppendProperties
<1>2. /\ Len(q) \in Nat /\ DOMAIN q = 1 .. Len(q) /\ DOMAIN t = 1 .. Len(q) + 1
      /\ \A i \in DOMAIN q : q[i] \in Nat
  BY <1>1, LenProperties, ElementOfSeq
<1>3. \A i \in DOMAIN t : \/ i \in DOMAIN q /\ t[i] = q[i]
                          \/ i = Len(q) + 1 /\ t[i] = c
  BY <1>1, <1>2
<1> HIDE DEF t
<1>4. ASSUME Rising(q), Below(q, c) PROVE Rising(t)
  BY <1>2, <1>3, <1>4 DEF Rising, Below
<1>5. ASSUME NEW p, Before(p, q), Below(p, c) PROVE Before(p, t)
  BY <1>3, <1>5 DEF Before, Below
<1>6. ASSUME NEW r, Before(q, r), Above(c, r) PROVE Before(t, r)
  BY <1>3, <1>6 DEF Before, Above
<1>7. /\ NoEnd(q) /\ c # End => NoEnd(t)
      /\ \A n : UpTo(q, n) /\ c <= n => UpTo(t, n)
  BY <1>3 DEF NoEnd, UpTo
<1>8. QED
  BY <1>1, <1>4, <1>5, <1>6, <1>7 DEF t

LEMMA TailOrder ==
    ASSUME NEW S \in SUBSET Nat, NEW q \in Seq(S), q # <<>>
    PROVE  /\ Head(q) \in S /\ Tail(q) \in Seq(S) /\ Len(Tail(q)) = Len(q) - 1
           /\ Rising(q) => Rising(Tail(q)) /\ Above(Head(q), Tail(q))
           /\ NoEnd(q) => NoEnd(Tail(q)) /\ Head(q) # End
           /\ \A n : UpTo(q, n) => UpTo(Tail(q), n) /\ Head(q) <= n
           /\ \A p : Before(p, q) => Before(p, Tail(q)) /\ Below(p, Head(q))
           /\ \A r : Before(q, r) => Before(Tail(q), r) /\ Above(Head(q), r)
<1> DEFINE t == Tail(q)
           c == Head(q)
<1>1. c \in S /\ t \in Seq(S) /\ Len(t) = Len(q) - 1 /\ \A i \in 1 .. Len(t) : t[i] = q[i + 1]
  BY HeadTailProperties
<1>2. /\ Len(q) \in Nat \ {0} /\ DOMAIN q = 1 .. Len(q) /\ DOMAIN t = 1 .. Len(q) - 1
      /\ c = q[1] /\ 1 \in DOMAIN q
  BY <1>1, LenProperties, EmptySeq
<1>3. \A i \in DOMAIN t : i + 1 \in DOMAIN q /\ t[i] = q[i + 1] /\ i \in Nat /\ 1 < i + 1
  BY <1>1, <1>2
<1> HIDE DEF t, c
<1>4. ASSUME Rising(q) PROVE Rising(t)
  <2>1. ASSUME NEW i \in DOMAIN t, NEW j \in DOMAIN t, i < j
        PROVE  t[i] # End /\ (t[j] = End \/ t[i] < t[j])
    <3>1. i + 1 < j + 1
      BY <1>3, <2>1
    <3>2. QED
      BY <1>3, <1>4, <3>1 DEF Rising
  <2>2. QED
    BY <2>1 DEF Rising
<1>5. ASSUME Rising(q) PROVE Above(c, t)
  BY <1>2, <1>3, <1>5 DEF Rising, Above
<1>6. ASSUME NEW p, Before(p, q) PROVE Before(p, t) /\ Below(p, c)
  BY <1>2, <1>3, <1>6 DEF Before, Below
<1>7. ASSUME NEW r, Before(q, r) PROVE Before(t, r) /\ Above(c, r)
  BY <1>2, <1>3, <1>7 DEF Before, Above
<1>8. /\ NoEnd(q) => NoEnd(t) /\ c # End
      /\ \A n : UpTo(q, n) => UpTo(t, n) /\ c <= n
  BY <1>2, <1>3 DEF NoEnd, UpTo
<1>9. QED
  BY <1>1, <1>4, <1>5, <1>6, <1>7, <1>8 DEF t, c

-----------------------------------------------------------------------------
(* Lines: what a session may make of its lines when it commits or shows    *)
(* one for chunk c.                                                        *)
Grows(l, m, c) ==
    \A i \in DOMAIN m :
        \/ i \in DOMAIN l /\ m[i] = l[i]
        \/ m[i].chunk = c /\ \A k \in DOMAIN m : k <= i /\ (k < i => m[k].chunk < c)

LinesStay(x, y) ==
    \A i \in DOMAIN x.lines : IsFinal(x.lines[i]) =>
        i \in DOMAIN y.lines /\ y.lines[i] = x.lines[i]

(* y is x but for its lines.                                               *)
OnlyLines(x, y) ==
    y = [x EXCEPT !.lines = y.lines, !.shows = y.shows, !.committed = y.committed]

OneLine(x, y, c) ==
    /\ y \in Session /\ OnlyLines(x, y) /\ LinesOK(y, provider)
    /\ Grows(x.lines, y.lines, c) /\ LinesStay(x, y)

LEMMA LineTypes ==
    ASSUME NEW l \in Seq(Lines)
    PROVE  /\ Len(l) \in Nat /\ DOMAIN l = 1 .. Len(l) /\ l = <<>> <=> Len(l) = 0
           /\ DOMAIN Said(l) = DOMAIN l
           /\ \A i \in DOMAIN l : /\ l[i] \in Lines /\ Said(l)[i] = l[i].chunk
                                  /\ l[i].chunk \in 1 .. MaxFeeds
                                  /\ l[i].provisional \in BOOLEAN
<1>1. Len(l) \in Nat /\ DOMAIN l = 1 .. Len(l) /\ \A i \in DOMAIN l : l[i] \in Lines
  BY LenProperties, ElementOfSeq
<1>2. l = <<>> <=> Len(l) = 0
  BY EmptySeq
<1>3. QED
  BY <1>1, <1>2 DEF Lines, Said

LEMMA GrowsOrder ==
    ASSUME NEW l \in Seq(Lines), NEW m \in Seq(Lines), NEW c \in 1 .. MaxFeeds, Grows(l, m, c)
    PROVE  /\ Rising(Said(l)) => Rising(Said(m))
           /\ \A h \in Nat : UpTo(Said(l), h) /\ c <= h => UpTo(Said(m), h)
<1>1. /\ DOMAIN Said(l) = DOMAIN l /\ DOMAIN Said(m) = DOMAIN m
      /\ DOMAIN m \subseteq Nat
      /\ \A i \in DOMAIN l : Said(l)[i] = l[i].chunk
      /\ \A i \in DOMAIN m : Said(m)[i] = m[i].chunk /\ m[i].chunk \in 1 .. MaxFeeds
  BY LineTypes
<1>2. \A i \in DOMAIN Said(m) :
          /\ Said(m)[i] \in 1 .. MaxFeeds
          /\ \/ i \in DOMAIN Said(l) /\ Said(m)[i] = Said(l)[i]
             \/ Said(m)[i] = c /\ \A k \in DOMAIN Said(m) : k <= i /\ (k < i => Said(m)[k] < c)
  <2>1. ASSUME NEW i \in DOMAIN m
        PROVE  \/ i \in DOMAIN l /\ m[i] = l[i]
               \/ m[i].chunk = c /\ \A k \in DOMAIN m : k <= i /\ (k < i => m[k].chunk < c)
    BY DEF Grows
  <2>2. QED
    BY <1>1, <2>1
<1>3. ASSUME Rising(Said(l)) PROVE Rising(Said(m))
  <2>1. ASSUME NEW i \in DOMAIN Said(m), NEW j \in DOMAIN Said(m), i < j
        PROVE  Said(m)[i] # End /\ Said(m)[i] < Said(m)[j]
    BY <1>1, <1>2, <1>3, <2>1 DEF Rising, End
  <2>2. QED
    BY <2>1 DEF Rising
<1>4. ASSUME NEW h \in Nat, UpTo(Said(l), h), c <= h PROVE UpTo(Said(m), h)
  BY <1>2, <1>4 DEF UpTo
<1>5. QED
  BY <1>3, <1>4

LEMMA DroppedLines ==
    ASSUME NEW p, NEW x, LinesOK(x, p)
    PROVE  /\ Dropped(x) \in Seq(Lines)
           /\ Len(Dropped(x)) <= MaxLines /\ Len(Dropped(x)) <= Len(x.lines)
           /\ \A i \in DOMAIN Dropped(x) : i \in DOMAIN x.lines /\ Dropped(x)[i] = x.lines[i]
           /\ \A i \in DOMAIN Dropped(x) : ~Dropped(x)[i].provisional
           /\ \A i \in DOMAIN x.lines : ~x.lines[i].provisional => i \in DOMAIN Dropped(x)
<1> DEFINE l == x.lines
<1>1. /\ l \in Seq(Lines) /\ Len(l) \in Nat /\ DOMAIN l = 1 .. Len(l)
      /\ l = <<>> <=> Len(l) = 0
      /\ \A i \in DOMAIN l : l[i] \in Lines /\ l[i].provisional \in BOOLEAN
  BY LineTypes DEF LinesOK
<1>2. CASE x.shows /\ l # <<>>
  <2>1. Dropped(x) = SubSeq(l, 1, Len(l) - 1)
    BY <1>2 DEF Dropped, Front
  <2>2. /\ Dropped(x) \in Seq(Lines) /\ Len(Dropped(x)) = Len(l) - 1
        /\ \A i \in 1 .. Len(l) - 1 : Dropped(x)[i] = l[i]
    <3>1. \A i \in 1 .. Len(l) - 1 : l[i] \in Lines
      BY <1>1
    <3>2. /\ SubSeq(l, 1, Len(l) - 1) \in Seq(Lines)
          /\ Len(SubSeq(l, 1, Len(l) - 1)) = IF 1 <= Len(l) - 1 THEN (Len(l) - 1) - 1 + 1 ELSE 0
          /\ \A i \in 1 .. (Len(l) - 1) - 1 + 1 : SubSeq(l, 1, Len(l) - 1)[i] = l[1 + i - 1]
      BY <1>1, <3>1, SubSeqProperties
    <3>3. QED
      BY <1>1, <1>2, <2>1, <3>2
  <2>3. DOMAIN Dropped(x) = 1 .. Len(l) - 1
    BY <2>2, LenProperties
  <2>4. l[Len(l)].provisional /\ \A i \in DOMAIN l : l[i].provisional => i = Len(l)
    BY <1>2 DEF LinesOK, ShownLast, Last
  <2>5. Len(l) <= MaxLines + 1
    BY <1>2 DEF LinesOK
  <2>6. /\ \A i \in DOMAIN Dropped(x) : i \in DOMAIN l /\ i # Len(l) /\ Dropped(x)[i] = l[i]
        /\ \A i \in DOMAIN l : i # Len(l) => i \in DOMAIN Dropped(x)
    <3> HIDE DEF l
    <3>1. Len(l) - 1 \in Int /\ Len(l) \in Nat
      BY <1>1
    <3>2. \A i \in 1 .. Len(l) - 1 : i \in 1 .. Len(l) /\ i # Len(l)
      BY <3>1
    <3>3. \A i \in 1 .. Len(l) : i # Len(l) => i \in 1 .. Len(l) - 1
      BY <3>1
    <3>4. QED
      BY <1>1, <2>2, <2>3, <3>2, <3>3
  <2>7. Len(Dropped(x)) <= MaxLines /\ Len(Dropped(x)) <= Len(l)
    BY <1>1, <2>2, <2>5, LiveCaptionsAssumption
  <2>8. QED
    BY <1>1, <2>2, <2>4, <2>6, <2>7
<1>3. CASE ~(x.shows /\ l # <<>>)
  <2>1. Dropped(x) = l
    BY <1>3 DEF Dropped
  <2>2. \A i \in DOMAIN l : ~l[i].provisional
    BY <1>1, <1>3 DEF LinesOK, ShownLast, Last
  <2>3. Len(l) <= MaxLines
    BY <1>1, <1>3, LiveCaptionsAssumption, LineTypes DEF LinesOK
  <2>4. QED
    BY <1>1, <2>1, <2>2, <2>3
<1>4. QED
  BY <1>2, <1>3

(* A line after those that are kept.                                       *)
LEMMA OneMore ==
    ASSUME NEW k \in Seq(Lines), NEW c \in 1 .. MaxFeeds, NEW p \in BOOLEAN,
           \A i \in DOMAIN k : ~k[i].provisional /\ k[i].chunk < c
    PROVE  LET l == Append(k, [chunk |-> c, provisional |-> p])
           IN  /\ l \in Seq(Lines) /\ Len(l) = Len(k) + 1 /\ l # <<>>
               /\ Last(l).provisional = p
               /\ \A i \in DOMAIN l : l[i].provisional => i = Len(l)
               /\ \A i \in DOMAIN k : i \in DOMAIN l /\ l[i] = k[i]
               /\ \A i \in DOMAIN l : \/ i \in DOMAIN k
                                      \/ /\ i = Len(l) /\ l[i].chunk = c
                                         /\ \A j \in DOMAIN l :
                                                j <= i /\ (j < i => l[j].chunk < c)
<1> DEFINE e == [chunk |-> c, provisional |-> p]
           l == Append(k, e)
<1>1. e \in Lines /\ e.chunk = c /\ e.provisional = p
  BY DEF Lines
<1>2. /\ l \in Seq(Lines) /\ Len(l) = Len(k) + 1 /\ l # <<>> /\ l[Len(k) + 1] = e
      /\ \A i \in 1 .. Len(k) : l[i] = k[i]
  BY <1>1, AppendProperties
<1>3. Len(k) \in Nat /\ DOMAIN k = 1 .. Len(k) /\ DOMAIN l = 1 .. Len(k) + 1
  BY <1>2, LineTypes
<1> HIDE DEF e, l
<1>4. \A i \in DOMAIN l : i <= Len(l) /\ (i # Len(l) => i \in DOMAIN k /\ l[i] = k[i])
  BY <1>2, <1>3
<1>5. \A i, j \in DOMAIN l : i = Len(l) /\ j < i => j \in DOMAIN k /\ l[j] = k[j]
  BY <1>2, <1>3
<1>6. l[Len(l)] = e /\ \A i \in DOMAIN k : i \in DOMAIN l /\ l[i] = k[i]
  BY <1>2, <1>3
<1>7. QED
  BY <1>1, <1>2, <1>4, <1>5, <1>6 DEF l, e, Last

LEMMA FinalLinesOK ==
    ASSUME NEW y, ShownLast(y), y.shows = FALSE,
           y.lines \in Seq(Lines), Len(y.lines) <= MaxLines
    PROVE  LinesOK(y, provider)
<1>1. Len(y.lines) <= MaxLines + 1
  BY LineTypes, LiveCaptionsAssumption
<1>2. y.shows \in BOOLEAN /\ ~y.shows
  OBVIOUS
<1>3. QED
  BY <1>1, <1>2 DEF LinesOK

LEMMA Commits ==
    ASSUME NEW x \in Session, LinesOK(x, provider), NEW c \in 1 .. MaxFeeds,
           \A i \in DOMAIN Dropped(x) : Dropped(x)[i].chunk < c
    PROVE  OneLine(x, AddLine(x, c), c)
<1> DEFINE k == Dropped(x)
           y == AddLine(x, c)
<1>1. /\ k \in Seq(Lines) /\ Len(k) <= MaxLines /\ Len(k) \in Nat
      /\ \A i \in DOMAIN k : i \in DOMAIN x.lines /\ k[i] = x.lines[i] /\ ~k[i].provisional
      /\ \A i \in DOMAIN x.lines : ~x.lines[i].provisional => i \in DOMAIN k
  BY DroppedLines, LineTypes
<1>2. CASE Len(k) >= MaxLines
  <2>1. y = [x EXCEPT !.lines = k, !.shows = FALSE]
    BY <1>2 DEF AddLine
  <2> HIDE DEF y, k
  <2>2. y \in Session /\ OnlyLines(x, y) /\ y.lines = k /\ y.shows = FALSE
    BY <1>1, <2>1 DEF Session, OnlyLines
  <2>3. ShownLast(y)
    BY <1>1, <2>2, LineTypes DEF ShownLast, Last
  <2>4. LinesOK(y, provider)
    <3>1. y.lines \in Seq(Lines) /\ Len(y.lines) <= MaxLines
      BY <1>1, <2>2
    <3>2. QED
      BY <2>2, <2>3, <3>1, FinalLinesOK
  <2>5. Grows(x.lines, y.lines, c) /\ LinesStay(x, y)
    BY <1>1, <2>2 DEF Grows, LinesStay, IsFinal
  <2>6. QED
    BY <2>2, <2>4, <2>5 DEF OneLine, y
<1>3. CASE ~(Len(k) >= MaxLines)
  <2> DEFINE l == Append(k, [chunk |-> c, provisional |-> FALSE])
  <2>1. y = [x EXCEPT !.lines = l, !.shows = FALSE]
    BY <1>3 DEF AddLine
  <2>2. /\ l \in Seq(Lines) /\ Len(l) = Len(k) + 1 /\ l # <<>>
        /\ Last(l).provisional = FALSE
        /\ \A i \in DOMAIN l : l[i].provisional => i = Len(l)
        /\ \A i \in DOMAIN k : i \in DOMAIN l /\ l[i] = k[i]
        /\ \A i \in DOMAIN l : \/ i \in DOMAIN k
                               \/ /\ i = Len(l) /\ l[i].chunk = c
                                  /\ \A j \in DOMAIN l :
                                         j <= i /\ (j < i => l[j].chunk < c)
    <3>1. \A i \in DOMAIN k : ~k[i].provisional /\ k[i].chunk < c
      BY <1>1
    <3> HIDE DEF k
    <3>2. QED
      BY <1>1, <3>1, OneMore
  <2> HIDE DEF y, k, l
  <2>3. y \in Session /\ OnlyLines(x, y) /\ y.lines = l /\ y.shows = FALSE
    BY <2>1, <2>2 DEF Session, OnlyLines
  <2>4. ShownLast(y)
    BY <2>2, <2>3 DEF ShownLast
  <2>5. LinesOK(y, provider)
    <3>1. y.lines \in Seq(Lines) /\ Len(y.lines) <= MaxLines
      BY <1>1, <1>3, <2>2, <2>3, LiveCaptionsAssumption
    <3>2. QED
      BY <2>3, <2>4, <3>1, FinalLinesOK
  <2>6. Grows(x.lines, y.lines, c)
    BY <1>1, <2>2, <2>3 DEF Grows
  <2>7. LinesStay(x, y)
    BY <1>1, <2>2, <2>3 DEF LinesStay, IsFinal
  <2>8. QED
    BY <2>3, <2>5, <2>6, <2>7 DEF OneLine, y
<1>4. QED
  BY <1>2, <1>3

LEMMA Shows ==
    ASSUME NEW x \in Session, LinesOK(x, provider), NEW c \in 1 .. MaxFeeds,
           \A i \in DOMAIN Dropped(x) : Dropped(x)[i].chunk < c,
           provider \notin {"deepgram", "whisper"}
    PROVE  OneLine(x, SetProvisional(x, c), c)
<1> DEFINE k == Dropped(x)
           y == SetProvisional(x, c)
           l == Append(k, [chunk |-> c, provisional |-> TRUE])
<1>1. /\ k \in Seq(Lines) /\ Len(k) <= MaxLines /\ Len(k) \in Nat
      /\ \A i \in DOMAIN k : i \in DOMAIN x.lines /\ k[i] = x.lines[i] /\ ~k[i].provisional
      /\ \A i \in DOMAIN x.lines : ~x.lines[i].provisional => i \in DOMAIN k
  BY DroppedLines, LineTypes
<1>2. y = [x EXCEPT !.lines = l, !.shows = TRUE]
  BY DEF SetProvisional
<1>3. /\ l \in Seq(Lines) /\ Len(l) = Len(k) + 1 /\ l # <<>>
      /\ Last(l).provisional = TRUE
      /\ \A i \in DOMAIN l : l[i].provisional => i = Len(l)
      /\ \A i \in DOMAIN k : i \in DOMAIN l /\ l[i] = k[i]
      /\ \A i \in DOMAIN l : \/ i \in DOMAIN k
                             \/ /\ i = Len(l) /\ l[i].chunk = c
                                /\ \A j \in DOMAIN l :
                                       j <= i /\ (j < i => l[j].chunk < c)
  <2>1. \A i \in DOMAIN k : ~k[i].provisional /\ k[i].chunk < c
    BY <1>1
  <2> HIDE DEF k
  <2>2. QED
    BY <1>1, <2>1, OneMore
<1> HIDE DEF y, k, l
<1>4. y \in Session /\ OnlyLines(x, y) /\ y.lines = l /\ y.shows = TRUE
  BY <1>2, <1>3 DEF Session, OnlyLines
<1>5. ShownLast(y)
  BY <1>3, <1>4 DEF ShownLast
<1>6. LinesOK(y, provider)
  <2>1. y.lines \in Seq(Lines) /\ Len(y.lines) <= MaxLines + 1
    BY <1>1, <1>3, <1>4, LiveCaptionsAssumption
  <2>2. y.shows \in BOOLEAN /\ y.shows
    BY <1>4
  <2>3. QED
    BY <1>5, <2>1, <2>2 DEF LinesOK
<1>7. Grows(x.lines, y.lines, c)
  BY <1>1, <1>3, <1>4 DEF Grows
<1>8. LinesStay(x, y)
  BY <1>1, <1>3, <1>4 DEF LinesStay, IsFinal
<1>9. QED
  BY <1>4, <1>6, <1>7, <1>8 DEF OneLine, y

LEMMA Hides ==
    ASSUME NEW x \in Session, LinesOK(x, provider), NEW c \in 1 .. MaxFeeds
    PROVE  OneLine(x, HideProvisional(x), c)
<1> DEFINE k == Dropped(x)
           y == HideProvisional(x)
<1>1. /\ k \in Seq(Lines) /\ Len(k) <= MaxLines /\ Len(k) \in Nat
      /\ \A i \in DOMAIN k : i \in DOMAIN x.lines /\ k[i] = x.lines[i] /\ ~k[i].provisional
      /\ \A i \in DOMAIN x.lines : ~x.lines[i].provisional => i \in DOMAIN k
  BY DroppedLines, LineTypes
<1>2. y = [x EXCEPT !.lines = k, !.shows = FALSE]
  BY DEF HideProvisional
<1> HIDE DEF y, k
<1>3. y \in Session /\ OnlyLines(x, y) /\ y.lines = k /\ y.shows = FALSE
  BY <1>1, <1>2 DEF Session, OnlyLines
<1>4. ShownLast(y)
  BY <1>1, <1>3, LineTypes DEF ShownLast, Last
<1>5. LinesOK(y, provider)
  <2>1. y.lines \in Seq(Lines) /\ Len(y.lines) <= MaxLines
    BY <1>1, <1>3
  <2>2. QED
    BY <1>3, <1>4, <2>1, FinalLinesOK
<1>6. Grows(x.lines, y.lines, c) /\ LinesStay(x, y)
  BY <1>1, <1>3 DEF Grows, LinesStay, IsFinal
<1>7. QED
  BY <1>3, <1>5, <1>6 DEF OneLine, y

(* What hearing audio up to chunk c leaves of a session, whoever hears it.  *)
Heard(x, y, c) ==
    /\ y \in Session /\ OnlyLines(x, y) /\ LinesOK(y, provider)
    /\ UpTo(Said(y.lines), c) /\ LinesInOrder(y, provider)
    /\ provider # "whisper" => LinesStay(x, y)

(* Whisper's lines: one that is printed, and one that is taken back.       *)
LEMMA Prints ==
    ASSUME provider = "whisper", NEW x \in Session, LinesOK(x, provider),
           NEW e \in 1 .. MaxFeeds, NotFalling(Said(x.lines)), UpTo(Said(x.lines), e)
    PROVE  LET y == AddLine(x, e)
           IN  /\ y \in Session /\ OnlyLines(x, y) /\ LinesOK(y, provider)
               /\ y.committed = x.committed
               /\ NotFalling(Said(y.lines)) /\ UpTo(Said(y.lines), e)
<1> DEFINE y == AddLine(x, e)
           l == x.lines
           a == [chunk |-> e, provisional |-> FALSE]
           m == IF Len(l) >= MaxLines THEN l ELSE Append(l, a)
<1>1. ~x.shows /\ Dropped(x) = l /\ l \in Seq(Lines)
  BY DEF LinesOK, Dropped
<1>2. y = [x EXCEPT !.lines = m, !.shows = FALSE]
  BY <1>1 DEF AddLine
<1>3. /\ Len(l) \in Nat /\ Len(l) <= MaxLines /\ DOMAIN l = 1 .. Len(l) /\ DOMAIN Said(l) = DOMAIN l
      /\ \A i \in DOMAIN l : /\ ~l[i].provisional /\ l[i].chunk \in Nat
                             /\ Said(l)[i] = l[i].chunk /\ l[i].chunk <= e
  <2>1. \A i \in DOMAIN Dropped(x) : ~Dropped(x)[i].provisional
    BY DroppedLines
  <2>2. Len(Dropped(x)) <= MaxLines
    BY DroppedLines
  <2>3. /\ Len(l) \in Nat /\ DOMAIN l = 1 .. Len(l) /\ DOMAIN Said(l) = DOMAIN l
        /\ \A i \in DOMAIN l : Said(l)[i] = l[i].chunk /\ l[i].chunk \in 1 .. MaxFeeds
    BY <1>1, LineTypes
  <2>4. \A i \in DOMAIN l : l[i].chunk <= e
    BY <2>3 DEF UpTo
  <2>5. QED
    BY <1>1, <2>1, <2>2, <2>3, <2>4
<1>4. a \in Lines /\ a.chunk = e /\ ~a.provisional
  BY DEF Lines
<1>5. /\ m \in Seq(Lines) /\ Len(m) <= MaxLines /\ DOMAIN m = 1 .. Len(m)
      /\ \A i \in DOMAIN m : \/ i \in DOMAIN l /\ m[i] = l[i]
                             \/ i = Len(l) + 1 /\ m[i] = a
  <2>1. CASE Len(l) >= MaxLines
    BY <1>1, <1>3, <2>1
  <2>2. CASE ~(Len(l) >= MaxLines)
    <3> DEFINE t == Append(l, a)
    <3> HIDE DEF a, l
    <3>1. /\ t \in Seq(Lines) /\ Len(t) = Len(l) + 1 /\ t[Len(l) + 1] = a
          /\ \A i \in 1 .. Len(l) : t[i] = l[i]
      BY <1>1, <1>4, AppendProperties
    <3>2. DOMAIN t = 1 .. Len(l) + 1 /\ m = t
      BY <2>2, <3>1, LenProperties
    <3> HIDE DEF t, m
    <3>3. Len(m) <= MaxLines
      BY <1>3, <2>2, <3>1, <3>2, LiveCaptionsAssumption
    <3>4. \A i \in 1 .. Len(l) + 1 : i \in 1 .. Len(l) \/ i = Len(l) + 1
      BY <1>3
    <3>5. QED
      BY <1>3, <3>1, <3>2, <3>3, <3>4
  <2>3. QED
    BY <2>1, <2>2
<1> HIDE DEF a, m, y
<1>6. /\ y \in Session /\ OnlyLines(x, y) /\ y.lines = m /\ y.shows = FALSE
      /\ y.committed = x.committed
  BY <1>2, <1>5 DEF Session, OnlyLines
<1>7. \A i \in DOMAIN m : ~m[i].provisional /\ m[i].chunk \in Nat /\ m[i].chunk <= e
  BY <1>3, <1>4, <1>5
<1>8. ShownLast(y)
  BY <1>5, <1>6, <1>7, LineTypes DEF ShownLast, Last
<1>9. LinesOK(y, provider)
  BY <1>5, <1>6, <1>8, FinalLinesOK
<1>10. DOMAIN Said(m) = DOMAIN m /\ \A i \in DOMAIN m : Said(m)[i] = m[i].chunk
  BY DEF Said
<1>11. UpTo(Said(m), e)
  BY <1>7, <1>10 DEF UpTo
<1>12. ASSUME NEW i \in DOMAIN m, NEW j \in DOMAIN m, i < j PROVE Said(m)[i] <= Said(m)[j]
  <2>1. CASE j \in DOMAIN l /\ m[j] = l[j]
    <3>1. i \in DOMAIN l /\ m[i] = l[i]
      BY <1>3, <1>5, <1>12, <2>1
    <3>2. Said(l)[i] <= Said(l)[j]
      BY <1>3, <1>12, <2>1, <3>1 DEF NotFalling
    <3>3. QED
      BY <1>3, <1>10, <2>1, <3>1, <3>2
  <2>2. CASE m[j] = a
    BY <1>4, <1>7, <1>10, <2>2
  <2>3. QED
    BY <1>5, <2>1, <2>2
<1>13. NotFalling(Said(m))
  BY <1>10, <1>12 DEF NotFalling
<1>14. QED
  BY <1>6, <1>9, <1>11, <1>13 DEF y

LEMMA TakesBack ==
    ASSUME provider = "whisper", NEW x \in Session, LinesOK(x, provider), x.lines # <<>>,
           NEW c, NotFalling(Said(x.lines)), UpTo(Said(x.lines), c),
           NEW y, y = [x EXCEPT !.lines = Front(@)]
    PROVE  /\ y \in Session /\ OnlyLines(x, y) /\ LinesOK(y, provider)
           /\ y.committed = x.committed
           /\ NotFalling(Said(y.lines)) /\ UpTo(Said(y.lines), c)
<1> DEFINE l == x.lines
           m == Front(l)
<1>1. ~x.shows /\ Dropped(x) = l /\ l \in Seq(Lines)
  BY DEF LinesOK, Dropped
<1>2. /\ Len(l) \in Nat \ {0} /\ Len(l) <= MaxLines /\ DOMAIN l = 1 .. Len(l)
      /\ \A i \in DOMAIN l : l[i] \in Lines /\ ~l[i].provisional
  <2>1. Len(l) \in Nat /\ DOMAIN l = 1 .. Len(l) /\ (l = <<>> <=> Len(l) = 0)
        /\ \A i \in DOMAIN l : l[i] \in Lines
    BY <1>1, LineTypes
  <2>2. /\ Len(Dropped(x)) <= MaxLines
        /\ \A i \in DOMAIN Dropped(x) : ~Dropped(x)[i].provisional
    BY DroppedLines
  <2>3. QED
    BY <1>1, <2>1, <2>2
<1>3. /\ m \in Seq(Lines) /\ Len(m) = Len(l) - 1
      /\ DOMAIN m = 1 .. Len(l) - 1
      /\ \A i \in 1 .. Len(l) - 1 : m[i] = l[i]
  <2>1. \A i \in 1 .. Len(l) - 1 : l[i] \in Lines
    BY <1>2
  <2>2. /\ SubSeq(l, 1, Len(l) - 1) \in Seq(Lines)
        /\ Len(SubSeq(l, 1, Len(l) - 1)) = IF 1 <= Len(l) - 1 THEN (Len(l) - 1) - 1 + 1 ELSE 0
        /\ \A i \in 1 .. (Len(l) - 1) - 1 + 1 : SubSeq(l, 1, Len(l) - 1)[i] = l[1 + i - 1]
    BY <1>2, <2>1, SubSeqProperties
  <2>3. m \in Seq(Lines) /\ Len(m) = Len(l) - 1
    BY <1>2, <2>2 DEF Front
  <2>4. \A i \in 1 .. Len(l) - 1 : m[i] = l[i]
    BY <1>2, <2>2 DEF Front
  <2>5. QED
    BY <2>3, <2>4, LenProperties
<1>4. \A i \in DOMAIN m : i \in DOMAIN l /\ m[i] = l[i]
  BY <1>2, <1>3
<1> HIDE DEF m
<1>5. /\ y \in Session /\ OnlyLines(x, y) /\ y.lines = m /\ y.shows = FALSE
      /\ y.committed = x.committed
  <2>1. y = [x EXCEPT !.lines = m]
    BY DEF Session, m
  <2>2. QED
    BY <1>1, <1>3, <2>1 DEF Session, OnlyLines
<1>6. ShownLast(y)
  <2>1. \A i \in DOMAIN m : ~m[i].provisional
    BY <1>2, <1>4
  <2>2. m # <<>> => Len(m) \in DOMAIN m
    BY <1>3, LineTypes
  <2>3. QED
    BY <1>5, <2>1, <2>2 DEF ShownLast, Last
<1>7. LinesOK(y, provider)
  <2>1. Len(m) <= MaxLines
    BY <1>2, <1>3, LiveCaptionsAssumption
  <2>2. QED
    BY <1>3, <1>5, <1>6, <2>1, FinalLinesOK
<1>8. /\ DOMAIN Said(m) = DOMAIN m /\ DOMAIN Said(l) = DOMAIN l
      /\ \A i \in DOMAIN m : Said(m)[i] = m[i].chunk
      /\ \A i \in DOMAIN l : Said(l)[i] = l[i].chunk
  BY DEF Said
<1>9. \A i \in DOMAIN Said(m) : i \in DOMAIN Said(l) /\ Said(m)[i] = Said(l)[i]
  BY <1>4, <1>8
<1>10. NotFalling(Said(m)) /\ UpTo(Said(m), c)
  BY <1>9 DEF NotFalling, UpTo
<1>11. QED
  BY <1>5, <1>7, <1>10

LEMMA SetsCommitted ==
    ASSUME NEW x \in Session, NEW e \in 0 .. MaxFeeds, NEW y, y = [x EXCEPT !.committed = e]
    PROVE  /\ y \in Session /\ y.committed = e /\ y.lines = x.lines /\ OnlyLines(x, y)
           /\ \A p : LinesOK(x, p) => LinesOK(y, p)
<1>1. /\ y \in Session /\ y.committed = e /\ y.lines = x.lines /\ y.shows = x.shows
      /\ OnlyLines(x, y)
  BY DEF Session, OnlyLines
<1>2. QED
  BY <1>1 DEF LinesOK, ShownLast

LEMMA OnlyLinesTwice ==
    ASSUME NEW x \in Session, NEW y \in Session, NEW z \in Session,
           OnlyLines(x, y), OnlyLines(y, z)
    PROVE  OnlyLines(x, z)
BY DEF OnlyLines, Session

(* What a step of a window keeps.                                          *)
WindowStep(x, y, c) ==
    y \in Session /\ OnlyLines(x, y) /\ LinesOK(y, provider) /\ WindowsOK(y, c)

LEMMA UpToMore ==
    ASSUME NEW l \in Seq(Lines), NEW c \in 0 .. MaxFeeds, NEW d \in 0 .. MaxFeeds, c <= d,
           UpTo(Said(l), c)
    PROVE  UpTo(Said(l), d)
<1>1. \A i \in DOMAIN Said(l) : Said(l)[i] \in 1 .. MaxFeeds /\ Said(l)[i] <= c
  BY LineTypes DEF UpTo
<1>2. QED
  BY <1>1 DEF UpTo

LEMMA LinesAreSeq ==
    ASSUME NEW x \in Session
    PROVE  x.lines \in Seq(Lines)
BY DEF Session

LEMMA Takes ==
    ASSUME provider = "whisper", NEW x \in Session, LinesOK(x, provider),
           NEW c \in 0 .. MaxFeeds, WindowsOK(x, c), NEW y \in Segments(x, c)
    PROVE  WindowStep(x, y, c)
<1>1. PICK e \in {b \in 1 .. c : b >= x.committed} : y \in TakeSegment(x, e)
  BY DEF Segments
<1>2. e \in 1 .. MaxFeeds /\ e \in 0 .. MaxFeeds /\ e <= c /\ x.committed <= e
      /\ x.committed \in 0 .. MaxFeeds /\ x.lines \in Seq(Lines)
  BY <1>1, LiveCaptionsAssumption DEF Session
<1>3. NotFalling(Said(x.lines)) /\ UpTo(Said(x.lines), e)
  BY <1>2, UpToMore DEF WindowsOK
<1> DEFINE b == [x EXCEPT !.lines = Front(@)]
<1>4. PICK w \in {x} \union (IF x.committed # 0 /\ x.lines # <<>> THEN {b} ELSE {}) :
          y \in {[w EXCEPT !.committed = e], [AddLine(w, e) EXCEPT !.committed = e]}
  BY <1>1 DEF TakeSegment
<1>5. /\ w \in Session /\ OnlyLines(x, w) /\ LinesOK(w, provider)
      /\ NotFalling(Said(w.lines)) /\ UpTo(Said(w.lines), e)
  <2>1. CASE w = x
    BY <1>3, <2>1 DEF OnlyLines, Session
  <2>2. CASE x.lines # <<>> /\ w = b
    <3>1. w = [x EXCEPT !.lines = Front(@)]
      BY <2>2
    <3> HIDE DEF b
    <3>2. QED
      BY <1>2, <1>3, <2>2, <3>1, TakesBack
  <2>3. QED
    BY <1>4, <2>1, <2>2
<1> HIDE DEF b
<1>6. PICK v \in {w, AddLine(w, e)} : y = [v EXCEPT !.committed = e]
  BY <1>4
<1>7. /\ v \in Session /\ OnlyLines(w, v) /\ LinesOK(v, provider)
      /\ NotFalling(Said(v.lines)) /\ UpTo(Said(v.lines), e)
  <2>1. CASE v = w
    BY <1>5, <2>1 DEF OnlyLines, Session
  <2>2. CASE v = AddLine(w, e)
    BY <1>2, <1>5, <2>2, Prints
  <2>3. QED
    BY <1>6, <2>1, <2>2
<1>8. /\ y \in Session /\ y.committed = e /\ y.lines = v.lines /\ OnlyLines(v, y)
      /\ LinesOK(y, provider)
  BY <1>2, <1>6, <1>7, SetsCommitted
<1>9. WindowsOK(y, c)
  <2>1. v.lines \in Seq(Lines)
    BY <1>7, LinesAreSeq
  <2>2. UpTo(Said(v.lines), c)
    BY <1>2, <1>7, <2>1, UpToMore
  <2>3. QED
    BY <1>2, <1>7, <1>8, <2>2 DEF WindowsOK
<1>10. QED
  BY <1>5, <1>7, <1>8, <1>9, OnlyLinesTwice DEF WindowStep

LEMMA Window ==
    ASSUME provider = "whisper", NEW x \in Session, LinesOK(x, provider),
           NEW c \in 0 .. MaxFeeds, WindowsOK(x, c), NEW y \in WhisperHears(x, c)
    PROVE  WindowStep(x, y, c)
<1>1. CASE y = x
  BY <1>1 DEF WindowStep, OnlyLines, Session
<1>2. CASE y \in Segments(x, c)
  BY <1>2, Takes
<1>3. ASSUME NEW z \in Segments(x, c), y \in Segments(z, c) PROVE WindowStep(x, y, c)
  <2>1. WindowStep(x, z, c)
    BY Takes
  <2>2. WindowStep(z, y, c)
    BY <1>3, <2>1, Takes DEF WindowStep
  <2>3. QED
    BY <2>1, <2>2, OnlyLinesTwice DEF WindowStep
<1>4. QED
  BY <1>1, <1>2, <1>3 DEF WhisperHears

LEMMA WindowHeard ==
    ASSUME provider = "whisper", NEW x, NEW y, NEW c, WindowStep(x, y, c)
    PROVE  Heard(x, y, c)
BY DEF WindowStep, WindowsOK, Heard, LinesInOrder

LEMMA OnceHeard ==
    ASSUME provider # "whisper", NEW x \in Session, NEW y, NEW c \in 1 .. MaxFeeds,
           OneLine(x, y, c), Rising(Said(x.lines)), UpTo(Said(x.lines), c)
    PROVE  Heard(x, y, c)
<1>1. /\ x.lines \in Seq(Lines) /\ y.lines \in Seq(Lines) /\ Grows(x.lines, y.lines, c)
      /\ c \in Nat /\ c <= c
  BY LiveCaptionsAssumption DEF OneLine, Session
<1>2. Rising(Said(y.lines)) /\ UpTo(Said(y.lines), c)
  BY <1>1, GrowsOrder
<1>3. QED
  BY <1>2 DEF Heard, OneLine, LinesInOrder

(* Whatever the engine makes of audio up to chunk c, when all lines that   *)
(* count are older than it; Whisper's may be of it.                        *)
LEMMA Hearing ==
    ASSUME NEW x \in Session, LinesOK(x, provider), NEW c \in 1 .. MaxFeeds,
           provider \in Providers, NEW y \in Hears(x, c), LinesInOrder(x, provider),
           UpTo(Said(x.lines), c),
           provider # "whisper" => \A i \in DOMAIN Dropped(x) : Dropped(x)[i].chunk < c,
           provider = "whisper" => WindowsOK(x, c)
    PROVE  Heard(x, y, c) /\ (provider = "whisper" => WindowsOK(y, c))
<1>1. CASE provider # "whisper"
  <2>1. OneLine(x, x, c)
    BY LineTypes DEF OneLine, OnlyLines, Grows, LinesStay, LinesOK, Session
  <2>2. OneLine(x, AddLine(x, c), c) /\ OneLine(x, HideProvisional(x), c)
    BY <1>1, Commits, Hides
  <2>3. ASSUME provider = "deepgram" PROVE OneLine(x, y, c)
    BY <2>1, <2>2, <2>3 DEF Hears, DeepgramHears
  <2>4. ASSUME provider = "vosk" PROVE OneLine(x, y, c)
    BY <1>1, <2>1, <2>2, <2>4, Shows DEF Hears, VoskHears
  <2>5. ASSUME provider = "mistral" PROVE OneLine(x, y, c)
    BY <1>1, <2>1, <2>2, <2>5, Shows DEF Hears, MistralHears
  <2>6. OneLine(x, y, c)
    BY <1>1, <2>3, <2>4, <2>5, LiveCaptionsAssumption
  <2>7. QED
    BY <1>1, <2>6, OnceHeard DEF LinesInOrder
<1>2. CASE provider = "whisper"
  <2>1. y \in WhisperHears(x, c) /\ c \in 0 .. MaxFeeds
    BY <1>2 DEF Hears
  <2>2. QED
    BY <1>2, <2>1, Window, WindowHeard DEF WindowStep
<1>3. QED
  BY <1>1, <1>2

-----------------------------------------------------------------------------
(* Sessions.  What each step of one makes of it; most leave the lines, or  *)
(* the buffers, alone.                                                     *)
LEMMA SessionFields ==
    ASSUME NEW x \in Session
    PROVE  /\ x.stdin \in Seq(1 .. MaxFeeds) /\ x.pcm \in Seq(0 .. MaxFeeds)
           /\ x.queue \in Seq(0 .. MaxFeeds) /\ x.lines \in Seq(Lines)
           /\ x.shows \in BOOLEAN /\ x.heard \in 0 .. MaxFeeds
           /\ x.first \in 1 .. MaxFeeds + 1 /\ x.earlier \in Seq(Seq(Lines))
           /\ x.swallowed \in BOOLEAN /\ x.committed \in 0 .. MaxFeeds
           /\ x.stream \in {"none", "starting", "open", "closing", "unread", "eof"}
           /\ x.run \in {"none", "listening", "over", "merging", "writing", "saved", "lost"}
BY DEF Session

LEMMA LaterIsOK ==
    ASSUME NEW p, NEW f, NEW n \in Nat, NEW x, SessionOK(x, n, f, p)
    PROVE  SessionOK(x, n + 1, f, p)
<1>1. ASSUME NEW S \in SUBSET Nat, NEW q \in Seq(S), UpTo(q, n) PROVE UpTo(q, n + 1)
  <2>1. \A i \in DOMAIN q : q[i] \in Nat
    BY LenProperties, ElementOfSeq
  <2>2. \A i \in DOMAIN q : q[i] <= n + 1
    BY <1>1, <2>1 DEF UpTo
  <2>3. QED
    BY <2>2 DEF UpTo
<1>2. x \in Session /\ HeardOK(x, n) /\ BuffersOK(x, n, f)
  BY DEF SessionOK
<1>3. UpTo(x.stdin, n + 1) /\ UpTo(x.pcm, n + 1) /\ UpTo(x.queue, n + 1)
  <2>1. /\ 1 .. MaxFeeds \in SUBSET Nat /\ 0 .. MaxFeeds \in SUBSET Nat
        /\ x.stdin \in Seq(1 .. MaxFeeds) /\ x.pcm \in Seq(0 .. MaxFeeds)
        /\ x.queue \in Seq(0 .. MaxFeeds)
    BY <1>2, SessionFields, LiveCaptionsAssumption
  <2>2. UpTo(x.stdin, n) /\ UpTo(x.pcm, n) /\ UpTo(x.queue, n)
    BY <1>2 DEF BuffersOK
  <2>3. QED
    BY <1>1, <2>1, <2>2
<1>4. BuffersOK(x, n + 1, f)
  BY <1>2, <1>3 DEF BuffersOK
<1>5. HeardOK(x, n + 1)
  <2>1. UpTo(Said(x.lines), n + 1)
    <3>1. \A i \in DOMAIN Said(x.lines) : Said(x.lines)[i] \in 1 .. MaxFeeds
      BY <1>2, LineTypes, SessionFields
    <3>2. \A i \in DOMAIN Said(x.lines) : Said(x.lines)[i] <= n
      BY <1>2 DEF HeardOK, UpTo
    <3>3. QED
      BY <3>1, <3>2 DEF UpTo
  <2>2. QED
    BY <1>2, <2>1, SessionFields, LiveCaptionsAssumption DEF HeardOK
<1>6. QED
  BY <1>4, <1>5 DEF SessionOK

(* The same lines.                                                         *)
SameLines(x, y) ==
    /\ y.lines = x.lines /\ y.shows = x.shows
    /\ y.run = "listening" =>
           x.run = "listening" /\ y.heard = x.heard /\ y.committed = x.committed
    /\ y.run = "none" => x.run = "none"

LEMMA SameLinesOK ==
    ASSUME NEW p, NEW f, NEW n, NEW x, SessionOK(x, n, f, p), NEW y \in Session, SameLines(x, y),
           y.stream = "starting" => x.stream = "starting" /\ y.first = x.first
    PROVE  LinesOK(y, p) /\ HeardOK(y, n) /\ SaidOK(y, p)
<1>1. LinesOK(y, p)
  BY DEF SessionOK, LinesOK, SameLines, ShownLast
<1>2. HeardOK(y, n)
  BY DEF SessionOK, HeardOK, SameLines
<1>3. SaidOK(y, p)
  BY DEF SessionOK, SaidOK, SameLines, LinesInOrder, WindowsOK
<1>4. QED
  BY <1>1, <1>2, <1>3

(* With its buffers empty a session is all right when its lines are.       *)
LEMMA EmptyBuffersOK ==
    ASSUME NEW p, NEW f, NEW n, NEW y \in Session, LinesOK(y, p), HeardOK(y, n), SaidOK(y, p),
           y.stdin = <<>>, y.pcm = <<>>, y.queue = <<>>
    PROVE  SessionOK(y, n, f, p)
<1>1. Continuous(y)
  BY EmptyOrder DEF Continuous
<1>2. BuffersOK(y, n, f)
  BY EmptyOrder, EmptySeq, LiveCaptionsAssumption DEF BuffersOK
<1>3. QED
  BY <1>1, <1>2 DEF SessionOK

LEMMA EmptiedOK ==
    ASSUME NEW p, NEW f, NEW n, NEW x, SessionOK(x, n, f, p), NEW y \in Session, SameLines(x, y),
           y.stream = "starting" => x.stream = "starting" /\ y.first = x.first,
           y.stdin = <<>>, y.pcm = <<>>, y.queue = <<>>
    PROVE  SessionOK(y, n, f, p)
BY SameLinesOK, EmptyBuffersOK

(* Only the stages of the run and of the stream go on.                     *)
LEMMA StagesOK ==
    ASSUME NEW p, NEW f, NEW n, NEW x, SessionOK(x, n, f, p), NEW y \in Session, SameLines(x, y),
           \/ y.stream = x.stream
           \/ x.stream = "open" /\ y.stream = "closing"
           \/ y.stream \in {"unread", "eof"},
           y.stdin = x.stdin, y.pcm = x.pcm, y.queue = x.queue, y.first = x.first
    PROVE  SessionOK(y, n, f, p)
<1>1. LinesOK(y, p) /\ HeardOK(y, n) /\ SaidOK(y, p)
  BY SameLinesOK
<1>2. Continuous(y)
  BY DEF Continuous, SessionOK, SameLines
<1>3. BuffersOK(y, n, f)
  BY DEF BuffersOK, SessionOK, Running
<1>4. QED
  BY <1>1, <1>2, <1>3 DEF SessionOK

LEMMA BufferTypes ==
    /\ 1 .. MaxFeeds \in SUBSET Nat /\ 0 .. MaxFeeds \in SUBSET Nat
    /\ 1 .. MaxFeeds \subseteq 0 .. MaxFeeds /\ End \in 0 .. MaxFeeds
BY LiveCaptionsAssumption DEF End

(* Every line is older than what is still to be heard.                     *)
LEMMA HeardIsBefore ==
    ASSUME NEW l \in Seq(Lines), NEW c, UpTo(Said(l), c), c \in 1 .. MaxFeeds,
           NEW S \in SUBSET Nat, NEW q \in Seq(S), Above(c, q)
    PROVE  Before(Said(l), q)
<1>1. \A i \in DOMAIN Said(l) : Said(l)[i] \in 1 .. MaxFeeds /\ Said(l)[i] <= c
  BY LineTypes DEF UpTo
<1>2. \A j \in DOMAIN q : q[j] \in Nat
  BY LenProperties, ElementOfSeq
<1>3. QED
  BY <1>1, <1>2 DEF Before, Above, End

(* Final lines stay but for Whisper's while it listens.                    *)
KeepsLines(x, y) ==
    LinesStay(x, y) \/ (provider = "whisper" /\ x.run = "listening")

LEMMA TakesOK ==
    ASSUME provider \in Providers,
           NEW f, NEW n \in Nat, NEW x, SessionOK(x, n, f, provider), x.run = "listening",
           x.queue # <<>>, Head(x.queue) # End,
           NEW y \in Hears([x EXCEPT !.queue = Tail(@), !.heard = Head(x.queue)], Head(x.queue))
    PROVE  /\ SessionOK(y, n, f, provider) /\ KeepsLines(x, y)
           /\ y.run = x.run /\ y.earlier = x.earlier
<1> DEFINE c == Head(x.queue)
           t == Tail(x.queue)
           z == [x EXCEPT !.queue = Tail(@), !.heard = Head(x.queue)]
<1>1. /\ x \in Session /\ LinesOK(x, provider) /\ HeardOK(x, n) /\ SaidOK(x, provider)
      /\ BuffersOK(x, n, f) /\ Continuous(x)
  BY DEF SessionOK
<1>2. /\ c \in 0 .. MaxFeeds /\ t \in Seq(0 .. MaxFeeds) /\ Len(t) = Len(x.queue) - 1
      /\ Rising(x.queue) => Rising(t) /\ Above(c, t)
      /\ NoEnd(x.queue) => NoEnd(t)
      /\ UpTo(x.queue, n) => UpTo(t, n) /\ c <= n
      /\ \A q : Before(q, x.queue) => Before(q, t) /\ Below(q, c)
      /\ \A r : Before(x.queue, r) => Before(t, r) /\ Above(c, r)
  BY <1>1, SessionFields, BufferTypes, TailOrder
<1>3. c \in 1 .. MaxFeeds
  BY <1>2 DEF End
<1>4. /\ z = [x EXCEPT !.queue = t, !.heard = c]
      /\ y \in Hears(z, c)
  OBVIOUS
<1> HIDE DEF c, t, z
<1>5. /\ z \in Session /\ z.lines = x.lines /\ z.shows = x.shows
      /\ z.committed = x.committed
      /\ z.queue = t /\ z.heard = c /\ z.stdin = x.stdin /\ z.pcm = x.pcm
      /\ z.stream = x.stream /\ z.run = x.run /\ z.earlier = x.earlier
  BY <1>1, <1>2, <1>3, <1>4 DEF Session
<1>6. LinesOK(z, provider) /\ LinesInOrder(z, provider) /\ Below(Said(x.lines), c)
  BY <1>1, <1>2, <1>5 DEF LinesOK, ShownLast, Continuous, SaidOK, LinesInOrder
<1>7. \A i \in DOMAIN x.lines : x.lines[i].chunk < c
  <2>1. \A i \in DOMAIN x.lines :
            /\ i \in DOMAIN Said(x.lines) /\ Said(x.lines)[i] = x.lines[i].chunk
    BY <1>1, LineTypes, SessionFields
  <2>2. c # End
    BY <1>3 DEF End
  <2>3. \A i \in DOMAIN Said(x.lines) : Said(x.lines)[i] < c
    BY <1>6, <2>2 DEF Below
  <2>4. QED
    BY <2>1, <2>3
<1>8. UpTo(Said(z.lines), c)
  <2>1. \A i \in DOMAIN Said(x.lines) :
            i \in DOMAIN x.lines /\ Said(x.lines)[i] = x.lines[i].chunk
            /\ x.lines[i].chunk \in 1 .. MaxFeeds
    BY <1>1, LineTypes, SessionFields
  <2>2. QED
    BY <1>3, <1>5, <1>7, <2>1 DEF UpTo
<1>9. \A i \in DOMAIN Dropped(z) : Dropped(z)[i].chunk < c
  BY <1>5, <1>6, <1>7, DroppedLines
<1>10. provider = "whisper" => WindowsOK(z, c)
  BY <1>1, <1>5, <1>8 DEF SaidOK, WindowsOK
<1>11. Heard(z, y, c) /\ (provider = "whisper" => WindowsOK(y, c))
  BY <1>3, <1>4, <1>5, <1>6, <1>8, <1>9, <1>10, Hearing
<1>12. /\ y \in Session /\ LinesOK(y, provider) /\ LinesInOrder(y, provider)
       /\ UpTo(Said(y.lines), c) /\ (provider = "whisper" => WindowsOK(y, c))
       /\ y.queue = t /\ y.heard = c /\ y.stdin = x.stdin /\ y.pcm = x.pcm
       /\ y.stream = x.stream /\ y.run = x.run /\ y.earlier = x.earlier
  <2>1. /\ y \in Session /\ OnlyLines(z, y) /\ LinesOK(y, provider)
        /\ LinesInOrder(y, provider) /\ UpTo(Said(y.lines), c)
        /\ (provider = "whisper" => WindowsOK(y, c))
    BY <1>11 DEF Heard
  <2>2. /\ y.queue = z.queue /\ y.heard = z.heard /\ y.stdin = z.stdin /\ y.pcm = z.pcm
        /\ y.stream = z.stream /\ y.run = z.run /\ y.earlier = z.earlier
    BY <1>5, <2>1 DEF OnlyLines, Session
  <2>3. QED
    BY <1>5, <2>1, <2>2
<1>13. KeepsLines(x, y)
  BY <1>5, <1>11 DEF Heard, KeepsLines, LinesStay
<1>14. Continuous(y)
  <2>1. y.lines \in Seq(Lines)
    BY <1>12, SessionFields
  <2>2. /\ Above(c, t) /\ Above(c, x.pcm) /\ Above(c, x.stdin)
        /\ t \in Seq(0 .. MaxFeeds) /\ x.pcm \in Seq(0 .. MaxFeeds)
        /\ x.stdin \in Seq(1 .. MaxFeeds)
    BY <1>1, <1>2, SessionFields DEF Continuous
  <2>3. /\ Before(Said(y.lines), t) /\ Before(Said(y.lines), x.pcm)
        /\ Before(Said(y.lines), x.stdin)
    BY <1>3, <1>12, <2>1, <2>2, BufferTypes, HeardIsBefore
  <2>4. QED
    BY <1>1, <1>2, <1>12, <2>3 DEF Continuous
<1>15. c <= n /\ y.stream # "starting"
  BY <1>1, <1>2, <1>12 DEF BuffersOK
<1>16. UpTo(Said(y.lines), n)
  <2>1. \A i \in DOMAIN Said(y.lines) : Said(y.lines)[i] \in 1 .. MaxFeeds
    BY <1>12, LineTypes, SessionFields
  <2>2. \A i \in DOMAIN Said(y.lines) : Said(y.lines)[i] <= c
    BY <1>12 DEF UpTo
  <2>3. QED
    BY <1>3, <1>15, <2>1, <2>2 DEF UpTo
<1>17. HeardOK(y, n) /\ SaidOK(y, provider)
  BY <1>12, <1>15, <1>16 DEF HeardOK, SaidOK
<1>18. BuffersOK(y, n, f)
  <2>1. Len(t) <= QueueSize
    BY <1>1, <1>2, SessionFields, LineTypes, LenProperties, LiveCaptionsAssumption DEF BuffersOK
  <2>2. QED
    BY <1>1, <1>2, <1>12, <2>1 DEF BuffersOK, Running
<1>19. QED
  BY <1>12, <1>13, <1>14, <1>17, <1>18 DEF SessionOK

(* What an end of run() leaves.                                            *)
LEMMA OverFields ==
    ASSUME NEW x \in Session
    PROVE  LET y == Over(x)
           IN  /\ y \in Session /\ y.run = "over" /\ y.earlier = x.earlier
               /\ y.stdin = <<>> /\ y.pcm = <<>> /\ y.queue = <<>>
               /\ y.stream \in {x.stream, "unread", "eof"} /\ ~Running(y)
               /\ y.first = x.first /\ y.lines = x.lines /\ SameLines(x, y)
<1> DEFINE y == Over(x)
           u == Unread(x.stream)
<1>1. y = [x EXCEPT !.run = "over", !.queue = <<>>, !.pcm = <<>>, !.stdin = <<>>,
                    !.stream = u, !.heard = 0, !.committed = 0]
  BY DEF Over
<1>2. /\ u \in {x.stream, "unread", "eof"} \ {"open", "closing"}
      /\ 0 \in 0 .. MaxFeeds
  BY LiveCaptionsAssumption DEF Unread
<1> HIDE DEF y, u
<1>3. /\ y \in Session /\ y.run = "over" /\ y.earlier = x.earlier
      /\ y.stdin = <<>> /\ y.pcm = <<>> /\ y.queue = <<>>
      /\ y.stream = u /\ y.first = x.first
      /\ y.lines = x.lines /\ y.shows = x.shows
  BY <1>1, <1>2, EmptySeq DEF Session
<1>4. QED
  BY <1>2, <1>3 DEF y, SameLines, Running

LEMMA OverOK ==
    ASSUME NEW p, NEW f, NEW n, NEW x, SessionOK(x, n, f, p)
    PROVE  SessionOK(Over(x), n, f, p)
<1>1. x \in Session
  BY DEF SessionOK
<1>2. QED
  BY <1>1, OverFields, EmptiedOK

(* The last results are for what was heard since the line before, or are   *)
(* whatever Whisper's last window says.                                    *)
LEMMA ClosesOK ==
    ASSUME provider \in Providers, NEW f, NEW n \in Nat, NEW x, SessionOK(x, n, f, provider),
           x.run = "listening", x.stream # "starting", NEW y \in Closes(x)
    PROVE  SessionOK(Over(y), n, f, provider) /\ KeepsLines(x, Over(y))
           /\ Over(y).run = "over"
<1> DEFINE l == x.lines
           h == x.heard
<1>1. /\ x \in Session /\ LinesOK(x, provider) /\ HeardOK(x, n) /\ SaidOK(x, provider)
      /\ l \in Seq(Lines) /\ h \in 0 .. MaxFeeds
  BY SessionFields DEF SessionOK
<1>2. /\ Len(l) \in Nat /\ DOMAIN l = 1 .. Len(l) /\ (l = <<>> <=> Len(l) = 0)
      /\ DOMAIN Said(l) = DOMAIN l
      /\ \A i \in DOMAIN l : Said(l)[i] = l[i].chunk /\ l[i].chunk \in 1 .. MaxFeeds
  BY <1>1, LineTypes
<1>3. UpTo(Said(l), h) /\ h <= n /\ \A i \in DOMAIN l : l[i].chunk <= h
  BY <1>1, <1>2 DEF HeardOK, UpTo
<1>4. ASSUME provider # "whisper", Uncommitted(x)
      PROVE  h \in 1 .. MaxFeeds /\ \A i \in DOMAIN Dropped(x) : Dropped(x)[i].chunk < h
  <2>1. \A i \in DOMAIN l : i # Len(l) => l[i].chunk < l[Len(l)].chunk
    <3>1. ASSUME NEW i \in DOMAIN l, i # Len(l) PROVE l[i].chunk < l[Len(l)].chunk
      <4>1. Len(l) \in DOMAIN l /\ i < Len(l)
        BY <1>2, <3>1
      <4>2. Said(l)[Len(l)] = End \/ Said(l)[i] < Said(l)[Len(l)]
        BY <1>1, <1>2, <1>4, <3>1, <4>1 DEF SaidOK, LinesInOrder, Rising
      <4>3. QED
        BY <1>2, <3>1, <4>1, <4>2 DEF End
    <3>2. QED
      BY <3>1
  <2>2. h \in 1 .. MaxFeeds
    <3>1. CASE l = <<>>
      BY <1>1, <1>4, <3>1 DEF Uncommitted
    <3>2. CASE l # <<>>
      BY <1>1, <1>2, <1>3, <3>2
    <3>3. QED
      BY <3>1, <3>2
  <2>3. /\ \A i \in DOMAIN Dropped(x) : i \in DOMAIN l /\ Dropped(x)[i] = l[i]
        /\ \A i \in DOMAIN Dropped(x) : ~Dropped(x)[i].provisional
    BY <1>1, DroppedLines
  <2>4. ASSUME NEW i \in DOMAIN Dropped(x) PROVE l[i].chunk < h
    <3>1. CASE i # Len(l)
      <4>1. Len(l) \in DOMAIN l
        BY <1>2, <2>3, <2>4
      <4>2. QED
        BY <1>2, <1>3, <2>1, <2>2, <2>3, <2>4, <3>1, <4>1
    <3>2. CASE i = Len(l)
      <4>1. l # <<>> /\ ~l[Len(l)].provisional
        BY <1>2, <2>3, <2>4, <3>2
      <4>2. QED
        BY <1>4, <3>2, <4>1 DEF Uncommitted, Last
    <3>3. QED
      BY <3>1, <3>2
  <2>5. QED
    BY <2>2, <2>3, <2>4
<1>5. ASSUME y # x PROVE Heard(x, y, h)
  <2>1. CASE provider = "whisper"
    <3>1. y \in WhisperHears(x, h) \/ (h # 0 /\ y = AddLine(x, h))
      BY <2>1 DEF Closes
    <3>2. WindowsOK(x, h)
      BY <1>1, <2>1 DEF SaidOK
    <3>3. CASE y \in WhisperHears(x, h)
      BY <1>1, <2>1, <3>2, <3>3, Window, WindowHeard
    <3>4. CASE h # 0 /\ y = AddLine(x, h)
      <4>1. h \in 1 .. MaxFeeds
        BY <1>1, <3>4
      <4>2. /\ y \in Session /\ OnlyLines(x, y) /\ LinesOK(y, provider)
            /\ NotFalling(Said(y.lines)) /\ UpTo(Said(y.lines), h)
        BY <1>1, <1>3, <2>1, <3>2, <3>4, <4>1, Prints DEF WindowsOK
      <4>3. QED
        BY <2>1, <4>2 DEF Heard, LinesInOrder
    <3>5. QED
      BY <3>1, <3>3, <3>4
  <2>2. CASE provider # "whisper"
    <3>1. Uncommitted(x) /\ y \in Hears(x, h)
      BY <1>5, <2>2 DEF Closes
    <3>2. h \in 1 .. MaxFeeds /\ \A i \in DOMAIN Dropped(x) : Dropped(x)[i].chunk < h
      BY <1>4, <2>2, <3>1
    <3>3. LinesInOrder(x, provider)
      BY <1>1 DEF SaidOK
    <3>4. QED
      BY <1>1, <1>3, <2>2, <3>1, <3>2, <3>3, Hearing
  <2>3. QED
    BY <2>1, <2>2
<1>6. /\ y \in Session /\ LinesOK(y, provider) /\ LinesInOrder(y, provider)
      /\ UpTo(Said(y.lines), n) /\ y.run = "listening" /\ y.stream = x.stream
      /\ y.earlier = x.earlier
      /\ provider # "whisper" => LinesStay(x, y)
  <2>1. CASE y = x
    BY <1>1, <2>1, LineTypes DEF SaidOK, HeardOK, LinesStay, LinesOK
  <2>2. CASE y # x
    <3>1. /\ y \in Session /\ OnlyLines(x, y) /\ LinesOK(y, provider)
          /\ LinesInOrder(y, provider) /\ UpTo(Said(y.lines), h)
          /\ provider # "whisper" => LinesStay(x, y)
      BY <1>5, <2>2 DEF Heard
    <3>2. y.run = "listening" /\ y.stream = x.stream /\ y.earlier = x.earlier
      BY <1>1, <3>1 DEF OnlyLines, Session
    <3>3. UpTo(Said(y.lines), n)
      <4>1. \A i \in DOMAIN Said(y.lines) : Said(y.lines)[i] \in 1 .. MaxFeeds
        BY <3>1, LineTypes, SessionFields
      <4>2. \A i \in DOMAIN Said(y.lines) : Said(y.lines)[i] <= h
        BY <3>1 DEF UpTo
      <4>3. QED
        BY <1>1, <1>3, <4>1, <4>2 DEF UpTo
    <3>4. QED
      BY <3>1, <3>2, <3>3
  <2>3. QED
    BY <2>1, <2>2
<1> DEFINE w == Over(y)
<1>7. /\ w \in Session /\ w.run = "over" /\ w.stdin = <<>> /\ w.pcm = <<>> /\ w.queue = <<>>
      /\ w.stream # "starting" /\ w.lines = y.lines /\ w.shows = y.shows
  BY <1>6, OverFields DEF SameLines
<1> HIDE DEF w
<1>8. LinesOK(w, provider) /\ HeardOK(w, n) /\ SaidOK(w, provider)
  BY <1>6, <1>7 DEF LinesOK, ShownLast, HeardOK, SaidOK, LinesInOrder
<1>9. SessionOK(w, n, f, provider)
  BY <1>7, <1>8, EmptyBuffersOK
<1>10. KeepsLines(x, w)
  BY <1>6, <1>7 DEF KeepsLines, LinesStay
<1>11. QED
  BY <1>7, <1>9, <1>10 DEF w

(* A step of the buffers: the lines stay as they are, and so do the stage  *)
(* of the run and what was read.                                           *)
BuffersOnly(x, y) ==
    SameLines(x, y) /\ y.run = x.run /\ y.earlier = x.earlier /\ y.first = x.first

LEMMA BuffersStepOK ==
    ASSUME NEW p, NEW f, NEW n, NEW x, SessionOK(x, n, f, p), NEW y \in Session,
           BuffersOnly(x, y), y.stream = "starting" => x.stream = "starting",
           NEW g, BuffersOK(y, n, g),
           Rising(y.stdin), Rising(y.pcm), Rising(y.queue),
           Before(y.pcm, y.stdin), Before(y.queue, y.stdin), Before(y.queue, y.pcm),
           Before(Said(x.lines), y.queue), Before(Said(x.lines), y.pcm),
           Before(Said(x.lines), y.stdin)
    PROVE  SessionOK(y, n, g, p)
<1>1. LinesOK(y, p) /\ HeardOK(y, n) /\ SaidOK(y, p)
  BY SameLinesOK DEF BuffersOnly
<1>2. Continuous(y)
  BY <1>1 DEF Continuous, BuffersOnly, SameLines
<1>3. QED
  BY <1>1, <1>2 DEF SessionOK

LEMMA DecodeOK ==
    ASSUME NEW p, NEW f, NEW n \in Nat, NEW x, SessionOK(x, n, f, p), Running(x), x.stdin # <<>>
    PROVE  SessionOK(ReadLoop(x), n, f, p) /\ BuffersOnly(x, ReadLoop(x))
<1> DEFINE y == ReadLoop(x)
           c == Head(x.stdin)
           t == Tail(x.stdin)
<1>1. x \in Session /\ BuffersOK(x, n, f) /\ Continuous(x)
  BY DEF SessionOK
<1>2. /\ c \in 1 .. MaxFeeds /\ t \in Seq(1 .. MaxFeeds)
      /\ Rising(x.stdin) => Rising(t) /\ Above(c, t)
      /\ UpTo(x.stdin, n) => UpTo(t, n) /\ c <= n
      /\ \A q : Before(q, x.stdin) => Before(q, t) /\ Below(q, c)
  BY <1>1, SessionFields, BufferTypes, TailOrder
<1>3. c \in 0 .. MaxFeeds /\ c # End
  BY <1>2, BufferTypes DEF End
<1> HIDE DEF c, t
<1>4. CASE Len(x.pcm) > PcmSize
  <2>1. y = [x EXCEPT !.stdin = t]
    BY <1>1, <1>4 DEF ReadLoop, Session, t
  <2> HIDE DEF y
  <2>2. /\ y \in Session /\ y.stdin = t /\ y.pcm = x.pcm /\ y.queue = x.queue
        /\ y.stream = x.stream /\ BuffersOnly(x, y)
    BY <1>1, <1>2, <2>1 DEF Session, BuffersOnly, SameLines
  <2>3. BuffersOK(y, n, f)
    BY <1>1, <1>2, <2>2 DEF BuffersOK, Running
  <2>4. QED
    BY <1>1, <1>2, <2>2, <2>3, BuffersStepOK DEF Continuous, y
<1>5. CASE ~(Len(x.pcm) > PcmSize)
  <2> DEFINE a == Append(x.pcm, c)
  <2>1. y = [x EXCEPT !.stdin = t, !.pcm = a]
    BY <1>1, <1>5 DEF ReadLoop, Session, t, c
  <2>2. /\ a \in Seq(0 .. MaxFeeds) /\ Len(a) = Len(x.pcm) + 1
        /\ Rising(x.pcm) /\ Below(x.pcm, c) => Rising(a)
        /\ NoEnd(x.pcm) /\ c # End => NoEnd(a)
        /\ UpTo(x.pcm, n) /\ c <= n => UpTo(a, n)
        /\ \A q : Before(q, x.pcm) /\ Below(q, c) => Before(q, a)
        /\ \A r : Before(x.pcm, r) /\ Above(c, r) => Before(a, r)
    BY <1>1, <1>3, SessionFields, BufferTypes, AppendOrder
  <2> HIDE DEF y, a
  <2>3. /\ y \in Session /\ y.stdin = t /\ y.pcm = a /\ y.queue = x.queue
        /\ y.stream = x.stream /\ BuffersOnly(x, y)
    BY <1>1, <1>2, <2>1, <2>2 DEF Session, BuffersOnly, SameLines
  <2>4. Len(a) <= PcmSize + 1 /\ Len(a) <= PcmSize + 2
    BY <1>1, <1>5, <2>2, SessionFields, LenProperties, LiveCaptionsAssumption
  <2>5. BuffersOK(y, n, f)
    BY <1>1, <1>2, <1>3, <2>2, <2>3, <2>4 DEF BuffersOK, Running
  <2>6. QED
    BY <1>1, <1>2, <2>2, <2>3, <2>5, BuffersStepOK DEF Continuous, y
<1>6. QED
  BY <1>4, <1>5

LEMMA SaidNotEnd ==
    ASSUME NEW l \in Seq(Lines)
    PROVE  Below(Said(l), End)
BY LineTypes DEF Below, End

LEMMA StreamEndsOK ==
    ASSUME NEW p, NEW f, NEW n \in Nat, NEW x, SessionOK(x, n, f, p), Running(x),
           NEW y, y = [x EXCEPT !.stdin = <<>>, !.pcm = Append(@, End), !.stream = "eof"]
    PROVE  SessionOK(y, n, f, p) /\ BuffersOnly(x, y)
<1> DEFINE a == Append(x.pcm, End)
<1>1. x \in Session /\ BuffersOK(x, n, f) /\ Continuous(x)
  BY DEF SessionOK
<1>2. y = [x EXCEPT !.stdin = <<>>, !.pcm = a, !.stream = "eof"]
  BY <1>1 DEF Session
<1>3. /\ a \in Seq(0 .. MaxFeeds) /\ Len(a) = Len(x.pcm) + 1
      /\ Rising(x.pcm) /\ Below(x.pcm, End) => Rising(a)
      /\ UpTo(x.pcm, n) /\ End <= n => UpTo(a, n)
      /\ \A q : Before(q, x.pcm) /\ Below(q, End) => Before(q, a)
  BY <1>1, SessionFields, BufferTypes, AppendOrder
<1> HIDE DEF a
<1>4. /\ y \in Session /\ y.stdin = <<>> /\ y.pcm = a /\ y.queue = x.queue
      /\ y.stream = "eof" /\ BuffersOnly(x, y)
  <2>1. <<>> \in Seq(1 .. MaxFeeds) /\ a \in Seq(0 .. MaxFeeds)
    BY <1>3, EmptySeq
  <2>2. /\ y.stdin = <<>> /\ y.pcm = a /\ y.queue = x.queue /\ y.stream = "eof"
        /\ BuffersOnly(x, y)
    BY <1>1, <1>2 DEF Session, BuffersOnly, SameLines
  <2>3. y \in Session
    BY <1>1, <1>2, <2>1 DEF Session
  <2>4. QED
    BY <2>2, <2>3
<1>5. Below(x.pcm, End) /\ Below(x.queue, End) /\ Below(Said(x.lines), End)
  BY <1>1, SaidNotEnd, SessionFields DEF BuffersOK, NoEnd, Below
<1>6. Len(a) <= PcmSize + 2
  BY <1>1, <1>3, SessionFields, LenProperties, LiveCaptionsAssumption DEF BuffersOK
<1>7. End <= n
  BY DEF End
<1>8. BuffersOK(y, n, f)
  BY <1>1, <1>3, <1>4, <1>6, <1>7, EmptyOrder DEF BuffersOK, Running
<1>9. /\ Rising(y.stdin) /\ Rising(y.pcm) /\ Rising(y.queue)
      /\ Before(y.pcm, y.stdin) /\ Before(y.queue, y.stdin) /\ Before(y.queue, y.pcm)
      /\ Before(Said(x.lines), y.queue) /\ Before(Said(x.lines), y.pcm)
      /\ Before(Said(x.lines), y.stdin)
  BY <1>1, <1>3, <1>4, <1>5, EmptyOrder DEF Continuous
<1>10. QED
  BY <1>4, <1>8, <1>9, BuffersStepOK

LEMMA PumpOverOK ==
    ASSUME NEW p, NEW f, NEW n \in Nat, NEW x, SessionOK(x, n, f, p), x.pcm # <<>>,
           Head(x.pcm) # End
    PROVE  SessionOK(PumpOver(x), n, f, p) /\ BuffersOnly(x, PumpOver(x))
<1> DEFINE y == PumpOver(x)
           room == Len(x.queue) < QueueSize
           a == IF room THEN Append(x.queue, End) ELSE x.queue
           u == Unread(x.stream)
<1>1. x \in Session /\ BuffersOK(x, n, f) /\ Continuous(x)
  BY DEF SessionOK
<1>2. y = [x EXCEPT !.pcm = <<>>, !.stdin = <<>>, !.stream = u, !.queue = a,
                    !.swallowed = ~room]
  BY <1>1 DEF PumpOver, Session
<1>3. /\ x.stream \notin {"none", "starting"}
      /\ u \in {"unread", "eof"}
  BY <1>1 DEF BuffersOK, Unread, Session
<1>4. NoEnd(x.queue)
  <2>1. 1 \in DOMAIN x.pcm
    BY <1>1, SessionFields, LenProperties, EmptySeq
  <2>2. Before(x.queue, x.pcm)
    BY <1>1 DEF Continuous
  <2>3. QED
    BY <2>1, <2>2 DEF Before, NoEnd
<1>5. Below(x.queue, End) /\ Below(Said(x.lines), End) /\ End <= n
  BY <1>1, <1>4, SaidNotEnd, SessionFields DEF NoEnd, Below, End
<1>6. /\ a \in Seq(0 .. MaxFeeds) /\ Rising(a) /\ UpTo(a, n) /\ Len(a) <= QueueSize
      /\ Before(Said(x.lines), a)
  <2>1. CASE room
    <3> DEFINE b == Append(x.queue, End)
    <3>1. /\ b \in Seq(0 .. MaxFeeds) /\ Len(b) = Len(x.queue) + 1
          /\ Rising(x.queue) /\ Below(x.queue, End) => Rising(b)
          /\ UpTo(x.queue, n) /\ End <= n => UpTo(b, n)
          /\ \A q : Before(q, x.queue) /\ Below(q, End) => Before(q, b)
      BY <1>1, SessionFields, BufferTypes, AppendOrder
    <3>2. a = b
      BY <2>1
    <3>3. Len(x.queue) + 1 <= QueueSize
      BY <1>1, <2>1, SessionFields, LenProperties, LiveCaptionsAssumption
    <3> HIDE DEF a, b
    <3>4. QED
      BY <1>1, <1>5, <3>1, <3>2, <3>3 DEF Continuous, BuffersOK
  <2>2. CASE ~room
    BY <1>1, <2>2, SessionFields DEF Continuous, BuffersOK
  <2>3. QED
    BY <2>1, <2>2
<1>7. room \in BOOLEAN
  OBVIOUS
<1> HIDE DEF y, a, u, room
<1>8. /\ y \in Session /\ y.stdin = <<>> /\ y.pcm = <<>> /\ y.queue = a /\ y.stream = u
      /\ BuffersOnly(x, y)
  <2>1. \A S : <<>> \in Seq(S)
    BY EmptySeq
  <2>2. y \in Session
    BY <1>1, <1>2, <1>3, <1>6, <1>7, <2>1 DEF Session
  <2>3. QED
    BY <1>1, <1>2, <2>2 DEF Session, BuffersOnly, SameLines
<1>9. BuffersOK(y, n, f)
  <2>1. Len(<<>>) <= PcmSize + 2
    BY EmptySeq, LiveCaptionsAssumption
  <2>2. ~Running(y) /\ y.stream \notin {"none", "starting"}
    BY <1>3, <1>8 DEF Running
  <2>3. QED
    BY <1>6, <1>8, <2>1, <2>2, EmptyOrder DEF BuffersOK
<1>10. QED
  BY <1>3, <1>6, <1>8, <1>9, EmptyOrder, BuffersStepOK DEF y

LEMMA PumpOK ==
    ASSUME NEW p, NEW f, NEW n \in Nat, NEW x, SessionOK(x, n, f, p), x.pcm # <<>>
    PROVE  SessionOK(Pumped(x), n, f, p) /\ BuffersOnly(x, Pumped(x))
<1> DEFINE y == Pumped(x)
           c == Head(x.pcm)
           t == Tail(x.pcm)
           a == Append(x.queue, c)
<1>1. x \in Session /\ BuffersOK(x, n, f) /\ Continuous(x)
  BY DEF SessionOK
<1>2. /\ c \in 0 .. MaxFeeds /\ t \in Seq(0 .. MaxFeeds) /\ Len(t) = Len(x.pcm) - 1
      /\ Rising(x.pcm) => Rising(t) /\ Above(c, t)
      /\ NoEnd(x.pcm) => NoEnd(t) /\ c # End
      /\ UpTo(x.pcm, n) => UpTo(t, n) /\ c <= n
      /\ \A q : Before(q, x.pcm) => Before(q, t) /\ Below(q, c)
      /\ \A r : Before(x.pcm, r) => Before(t, r) /\ Above(c, r)
  BY <1>1, SessionFields, BufferTypes, TailOrder
<1>3. x.stream \notin {"none", "starting"}
  BY <1>1 DEF BuffersOK
<1>4. Len(t) <= PcmSize + 2 /\ (Running(x) => Len(t) <= PcmSize + 1)
  BY <1>1, <1>2, SessionFields, LenProperties, LiveCaptionsAssumption DEF BuffersOK
<1>5. CASE Len(x.queue) < QueueSize
  <2>1. y = [x EXCEPT !.pcm = t, !.queue = a]
    BY <1>1, <1>5 DEF Pumped, Session
  <2>2. /\ a \in Seq(0 .. MaxFeeds) /\ Len(a) = Len(x.queue) + 1
        /\ Rising(x.queue) /\ Below(x.queue, c) => Rising(a)
        /\ NoEnd(x.queue) /\ c # End => NoEnd(a)
        /\ UpTo(x.queue, n) /\ c <= n => UpTo(a, n)
        /\ \A q : Before(q, x.queue) /\ Below(q, c) => Before(q, a)
        /\ \A r : Before(x.queue, r) /\ Above(c, r) => Before(a, r)
    BY <1>1, <1>2, SessionFields, BufferTypes, AppendOrder
  <2> HIDE DEF y, c, t, a
  <2>3. /\ y \in Session /\ y.stdin = x.stdin /\ y.pcm = t /\ y.queue = a
        /\ y.stream = x.stream /\ BuffersOnly(x, y)
    BY <1>1, <1>2, <2>1, <2>2 DEF Session, BuffersOnly, SameLines
  <2>4. Len(a) <= QueueSize
    BY <1>1, <1>5, <2>2, SessionFields, LenProperties, LiveCaptionsAssumption
  <2>5. BuffersOK(y, n, f)
    BY <1>1, <1>2, <1>3, <1>4, <2>2, <2>3, <2>4 DEF BuffersOK, Running
  <2>6. QED
    BY <1>1, <1>2, <1>3, <2>2, <2>3, <2>5, BuffersStepOK DEF Continuous, y
<1>6. CASE ~(Len(x.queue) < QueueSize) /\ c = End
  <2>1. y = [x EXCEPT !.pcm = t, !.swallowed = TRUE]
    BY <1>1, <1>6 DEF Pumped, Session
  <2> HIDE DEF y, c, t
  <2>2. /\ y \in Session /\ y.stdin = x.stdin /\ y.pcm = t /\ y.queue = x.queue
        /\ y.stream = x.stream /\ BuffersOnly(x, y)
    BY <1>1, <1>2, <2>1 DEF Session, BuffersOnly, SameLines
  <2>3. BuffersOK(y, n, f)
    BY <1>1, <1>2, <1>3, <1>4, <2>2 DEF BuffersOK, Running
  <2>4. QED
    BY <1>1, <1>2, <1>3, <2>2, <2>3, BuffersStepOK DEF Continuous, y
<1>7. CASE ~(Len(x.queue) < QueueSize) /\ c # End
  <2>1. y = x
    BY <1>7 DEF Pumped
  <2>2. QED
    BY <2>1 DEF BuffersOnly, SameLines
<1>8. QED
  BY <1>5, <1>6, <1>7

(* Chunk n + 1 comes after everything that was fed.                        *)
LEMMA NextIsLater ==
    ASSUME NEW n \in Nat, NEW S \in SUBSET Nat, NEW q \in Seq(S), UpTo(q, n), NoEnd(q)
    PROVE  Below(q, n + 1)
<1>1. \A i \in DOMAIN q : q[i] \in Nat
  BY LenProperties, ElementOfSeq
<1>2. QED
  BY <1>1 DEF UpTo, NoEnd, Below

LEMMA SaidIsEarlier ==
    ASSUME NEW n \in Nat, NEW x \in Session, HeardOK(x, n)
    PROVE  Below(Said(x.lines), n + 1)
<1>1. UpTo(Said(x.lines), n)
  BY DEF HeardOK
<1>2. \A i \in DOMAIN Said(x.lines) : Said(x.lines)[i] \in 1 .. MaxFeeds
  BY LineTypes, SessionFields
<1>3. QED
  BY <1>1, <1>2, LiveCaptionsAssumption DEF Below, UpTo, End

LEMMA OfferedOK ==
    ASSUME NEW p, NEW n \in Nat, n < MaxFeeds, NEW x, SessionOK(x, n, NotYet, p)
    PROVE  /\ SessionOK(Offered(x, n + 1), n + 1, NotYet, p)
           /\ BuffersOnly(x, Offered(x, n + 1))
<1> DEFINE c == n + 1
           y == Offered(x, c)
<1>1. x \in Session /\ HeardOK(x, n) /\ BuffersOK(x, n, NotYet)
  BY DEF SessionOK
<1>2. SessionOK(x, c, NotYet, p)
  BY LaterIsOK
<1>3. BuffersOK(x, c, NotYet) /\ Continuous(x)
  BY <1>2 DEF SessionOK
<1>4. c \in 1 .. MaxFeeds /\ c \in 0 .. MaxFeeds /\ c # End /\ c \in Nat /\ c <= c
  BY LiveCaptionsAssumption DEF End
<1>5. Below(Said(x.lines), c)
  BY <1>1, SaidIsEarlier
<1>6. CASE x.run = "listening" /\ x.stream = "none" /\ Len(x.queue) < QueueSize
  <2> DEFINE a == Append(x.queue, c)
  <2>1. y = [x EXCEPT !.queue = a]
    BY <1>1, <1>6 DEF Offered, Session
  <2>2. x.queue \in Seq(0 .. MaxFeeds) /\ NoEnd(x.queue) /\ UpTo(x.queue, n)
    BY <1>1, <1>6, SessionFields DEF BuffersOK
  <2>3. Below(x.queue, c)
    BY <2>2, NextIsLater, BufferTypes
  <2> HIDE DEF c
  <2>4. /\ a \in Seq(0 .. MaxFeeds) /\ Len(a) = Len(x.queue) + 1
        /\ Rising(x.queue) /\ Below(x.queue, c) => Rising(a)
        /\ NoEnd(x.queue) /\ c # End => NoEnd(a)
        /\ UpTo(x.queue, c) /\ c <= c => UpTo(a, c)
        /\ \A q : Before(q, x.queue) /\ Below(q, c) => Before(q, a)
    BY <1>4, <2>2, BufferTypes, AppendOrder
  <2> HIDE DEF y, a
  <2>5. /\ y \in Session /\ y.stdin = x.stdin /\ y.pcm = x.pcm /\ y.queue = a
        /\ y.stream = "none" /\ BuffersOnly(x, y)
    BY <1>1, <1>6, <2>1, <2>4 DEF Session, BuffersOnly, SameLines
  <2>6. Len(a) <= QueueSize
    BY <1>6, <2>2, <2>4, LenProperties, LiveCaptionsAssumption
  <2>7. BuffersOK(y, c, NotYet)
    BY <1>3, <1>4, <1>6, <2>2, <2>4, <2>5, <2>6 DEF BuffersOK, Running
  <2>8. x.stdin = <<>> /\ x.pcm = <<>>
    BY <1>1, <1>6 DEF BuffersOK
  <2>9. QED
    BY <1>2, <1>3, <1>5, <2>3, <2>4, <2>5, <2>7, <2>8, EmptyOrder, BuffersStepOK
       DEF Continuous, y, c
<1>7. CASE x.run = "listening" /\ x.stream = "open"
  <2> DEFINE a == Append(x.stdin, c)
  <2>1. y = [x EXCEPT !.stdin = a]
    BY <1>1, <1>7 DEF Offered, Session
  <2>2. /\ x.stdin \in Seq(1 .. MaxFeeds) /\ x.pcm \in Seq(0 .. MaxFeeds)
        /\ x.queue \in Seq(0 .. MaxFeeds)
        /\ UpTo(x.stdin, n) /\ UpTo(x.pcm, n) /\ UpTo(x.queue, n)
        /\ NoEnd(x.pcm) /\ NoEnd(x.queue)
    BY <1>1, <1>7, SessionFields DEF BuffersOK, Running
  <2>3. NoEnd(x.stdin)
    <3>1. \A i \in DOMAIN x.stdin : x.stdin[i] \in 1 .. MaxFeeds
      BY <2>2, LenProperties, ElementOfSeq
    <3>2. QED
      BY <3>1 DEF NoEnd, End
  <2>4. Below(x.stdin, c) /\ Below(x.pcm, c) /\ Below(x.queue, c)
    BY <2>2, <2>3, NextIsLater, BufferTypes
  <2> HIDE DEF c
  <2>5. /\ a \in Seq(1 .. MaxFeeds)
        /\ Rising(x.stdin) /\ Below(x.stdin, c) => Rising(a)
        /\ UpTo(x.stdin, c) /\ c <= c => UpTo(a, c)
        /\ \A q : Before(q, x.stdin) /\ Below(q, c) => Before(q, a)
    BY <1>4, <2>2, BufferTypes, AppendOrder
  <2> HIDE DEF y, a
  <2>6. /\ y \in Session /\ y.stdin = a /\ y.pcm = x.pcm /\ y.queue = x.queue
        /\ y.stream = "open" /\ BuffersOnly(x, y)
    BY <1>1, <1>7, <2>1, <2>5 DEF Session, BuffersOnly, SameLines
  <2>7. BuffersOK(y, c, NotYet)
    BY <1>3, <1>4, <1>7, <2>5, <2>6 DEF BuffersOK, Running
  <2>8. QED
    BY <1>2, <1>3, <1>5, <2>4, <2>5, <2>6, <2>7, BuffersStepOK DEF Continuous, y, c
<1>8. CASE y = x
  BY <1>2, <1>8 DEF BuffersOnly, SameLines
<1>9. QED
  BY <1>6, <1>7, <1>8 DEF Offered

LEMMA OneBlock ==
    ASSUME NEW c \in Nat \ {0}
    PROVE  /\ Rising(<<c>>) /\ NoEnd(<<c>>) /\ UpTo(<<c>>, c) /\ Len(<<c>>) = 1
           /\ \A S : c \in S => <<c>> \in Seq(S)
BY DEF Rising, NoEnd, UpTo, End

LEMMA NoLines ==
    /\ DOMAIN Said(<<>>) = {}
    /\ \A q : Before(Said(<<>>), q)
    /\ Rising(Said(<<>>)) /\ NotFalling(Said(<<>>)) /\ \A n : UpTo(Said(<<>>), n)
    /\ \A x, p : x.lines = <<>> /\ x.shows = FALSE => LinesOK(x, p)
<1>1. DOMAIN Said(<<>>) = {}
  BY DEF Said
<1>2. \A q : Before(Said(<<>>), q)
  BY <1>1 DEF Before
<1>3. Rising(Said(<<>>)) /\ NotFalling(Said(<<>>)) /\ \A n : UpTo(Said(<<>>), n)
  BY <1>1 DEF Rising, NotFalling, UpTo
<1>4. ASSUME NEW x, NEW p, x.lines = <<>>, x.shows = FALSE PROVE LinesOK(x, p)
  <2>1. ShownLast(x)
    BY <1>4 DEF ShownLast
  <2>2. Len(x.lines) <= MaxLines /\ Len(x.lines) <= MaxLines + 1 /\ x.lines \in Seq(Lines)
    BY <1>4, EmptySeq, LiveCaptionsAssumption
  <2>3. QED
    BY <1>4, <2>1, <2>2 DEF LinesOK
<1>5. QED
  BY <1>1, <1>2, <1>3, <1>4

LEMMA NewSessionOK ==
    ASSUME NEW p, NEW f, NEW c \in 1 .. MaxFeeds, NEW b \in BOOLEAN
    PROVE  /\ SessionOK(NewSession(c, b), c, f, p)
           /\ NewSession(c, b).run = "listening" /\ NewSession(c, b).lines = <<>>
<1> DEFINE y == NewSession(c, b)
<1>1. c \in Nat \ {0} /\ c \in 0 .. MaxFeeds /\ c \in 1 .. MaxFeeds + 1 /\ 0 <= c /\ c <= c
  BY LiveCaptionsAssumption
<1>2. /\ y.run = "listening" /\ y.failed = "no" /\ y.first = c /\ y.heard = 0
      /\ y.stream = IF b THEN "starting" ELSE "none"
      /\ y.queue = IF b THEN <<>> ELSE <<c>>
      /\ y.stdin = <<>> /\ y.pcm = <<>> /\ y.lines = <<>>
      /\ y.shows = FALSE /\ y.earlier = <<>> /\ y.swallowed = FALSE
  BY DEF NewSession
<1>3. y \in Session
  <2> DEFINE q == IF b THEN <<>> ELSE <<c>>
             st == IF b THEN "starting" ELSE "none"
  <2>1. \A S : <<>> \in Seq(S)
    BY EmptySeq
  <2>2. <<c>> \in Seq(0 .. MaxFeeds)
    BY <1>1, OneBlock
  <2>3. q \in Seq(0 .. MaxFeeds) /\ st \in {"starting", "none"}
    BY <2>1, <2>2
  <2>4. 0 \in 0 .. MaxFeeds
    BY LiveCaptionsAssumption
  <2>5. y = [run |-> "listening", failed |-> "no", stream |-> st, first |-> c,
             heard |-> 0, stdin |-> <<>>, pcm |-> <<>>, queue |-> q, lines |-> <<>>,
             shows |-> FALSE, committed |-> 0, earlier |-> <<>>, swallowed |-> FALSE]
    BY DEF NewSession
  <2> HIDE DEF y, q, st
  <2>6. QED
    BY <1>1, <2>1, <2>3, <2>4, <2>5 DEF Session
<1>4. LinesOK(y, p)
  BY <1>2, NoLines
<1>5. HeardOK(y, c) /\ SaidOK(y, p)
  BY <1>1, <1>2, NoLines DEF HeardOK, SaidOK, LinesInOrder, WindowsOK
<1>6. BuffersOK(y, c, f)
  <2>1. Len(y.queue) <= QueueSize /\ UpTo(y.queue, c) /\ NoEnd(y.queue)
    BY <1>1, <1>2, OneBlock, EmptyOrder, EmptySeq, LiveCaptionsAssumption
  <2>2. Len(y.pcm) <= PcmSize + 2 /\ Len(y.pcm) <= PcmSize + 1
    BY <1>2, EmptySeq, LiveCaptionsAssumption
  <2>3. QED
    BY <1>2, <2>1, <2>2, EmptyOrder DEF BuffersOK
<1>7. Continuous(y)
  BY <1>1, <1>2, EmptyOrder, OneBlock, NoLines DEF Continuous
<1>8. QED
  BY <1>2, <1>3, <1>4, <1>5, <1>6, <1>7 DEF SessionOK

LEMMA NoSessionYetOK ==
    ASSUME NEW p, NEW f
    PROVE  /\ SessionOK(NoSessionYet, 0, f, p)
           /\ NoSessionYet.run = "none" /\ NoSessionYet.earlier = <<>>
<1> DEFINE y == NoSessionYet
<1>1. y = [run |-> "none", failed |-> "no", stream |-> "none", first |-> 1,
           heard |-> 0, stdin |-> <<>>, pcm |-> <<>>, queue |-> <<>>, lines |-> <<>>,
           shows |-> FALSE, committed |-> 0, earlier |-> <<>>, swallowed |-> FALSE]
  <2> DEFINE z == [run |-> "listening", failed |-> "no", stream |-> "none", first |-> 1,
                   heard |-> 0, stdin |-> <<>>, pcm |-> <<>>, queue |-> <<1>>, lines |-> <<>>,
                   shows |-> FALSE, committed |-> 0, earlier |-> <<>>, swallowed |-> FALSE]
  <2>1. NewSession(1, FALSE) = z
    BY DEF NewSession
  <2>2. y = [z EXCEPT !.run = "none", !.queue = <<>>]
    BY <2>1 DEF NoSessionYet
  <2>3. QED
    BY <2>2
<1> HIDE DEF y
<1>2. y \in Session
  <2>1. \A S : <<>> \in Seq(S)
    BY EmptySeq
  <2>2. 0 \in 0 .. MaxFeeds /\ 1 \in 1 .. MaxFeeds + 1
    BY LiveCaptionsAssumption
  <2>3. QED
    BY <1>1, <2>1, <2>2 DEF Session
<1>3. LinesOK(y, p)
  BY <1>1, NoLines
<1>4. HeardOK(y, 0) /\ SaidOK(y, p)
  BY <1>1, NoLines DEF HeardOK, SaidOK, LinesInOrder
<1>5. BuffersOK(y, 0, f)
  BY <1>1, EmptyOrder, EmptySeq, LiveCaptionsAssumption DEF BuffersOK
<1>6. Continuous(y)
  BY <1>1, EmptyOrder, NoLines DEF Continuous
<1>7. QED
  BY <1>1, <1>2, <1>3, <1>4, <1>5, <1>6 DEF SessionOK, y

LEMMA OpenedOK ==
    ASSUME NEW p, NEW f, NEW n \in 0 .. MaxFeeds, NEW x, SessionOK(x, n, f, p),
           x.stream = "starting"
    PROVE  SessionOK(Opened(x), n, f, p) /\ BuffersOnly(x, Opened(x))
<1> DEFINE y == Opened(x)
           c == x.first
<1>1. x \in Session /\ HeardOK(x, n) /\ BuffersOK(x, n, f) /\ Continuous(x)
  BY DEF SessionOK
<1>2. c \in 1 .. MaxFeeds /\ c \in Nat \ {0} /\ c <= n /\ n \in Nat
  BY <1>1, SessionFields, LiveCaptionsAssumption DEF HeardOK
<1>3. x.pcm = <<>> /\ x.queue = <<>> /\ x.lines = <<>>
  BY <1>1 DEF BuffersOK, HeardOK
<1>4. CASE x.run = "listening"
  <2>1. y = [x EXCEPT !.stream = "open", !.stdin = <<c>>]
    BY <1>4 DEF Opened
  <2>2. <<c>> \in Seq(1 .. MaxFeeds) /\ Rising(<<c>>) /\ UpTo(<<c>>, c)
    BY <1>2, OneBlock
  <2>3. UpTo(<<c>>, n)
    BY <1>2 DEF UpTo
  <2> HIDE DEF y, c
  <2>4. /\ y \in Session /\ y.stdin = <<c>> /\ y.pcm = <<>> /\ y.queue = <<>>
        /\ y.stream = "open" /\ BuffersOnly(x, y)
    BY <1>1, <1>3, <2>1, <2>2 DEF Session, BuffersOnly, SameLines
  <2>5. BuffersOK(y, n, f)
    <3>1. UpTo(<<>>, n) /\ NoEnd(<<>>) /\ Len(<<>>) = 0
      BY EmptyOrder, EmptySeq
    <3>2. QED
      BY <2>3, <2>4, <3>1, LiveCaptionsAssumption DEF BuffersOK
  <2>6. QED
    BY <1>3, <2>2, <2>4, <2>5, EmptyOrder, NoLines, BuffersStepOK DEF y
<1>5. CASE x.run # "listening"
  <2>1. y = [x EXCEPT !.stream = "unread"]
    BY <1>5 DEF Opened
  <2> HIDE DEF y
  <2>2. /\ y \in Session /\ y.stream = "unread" /\ BuffersOnly(x, y)
        /\ y.stdin = x.stdin /\ y.pcm = x.pcm /\ y.queue = x.queue
    BY <1>1, <2>1 DEF Session, BuffersOnly, SameLines
  <2>3. QED
    BY <2>2, StagesOK DEF BuffersOnly, y
<1>6. QED
  BY <1>4, <1>5

(* Files.  A session is filing from the end of its run to the end of its   *)
(* write; a step of anything else leaves alone what that relies on.        *)
Unfiled == {"none", "listening", "over"}

KeepsFiling(x, y) ==
    \/ x.run \in Unfiled /\ y.run \in Unfiled
    \/ y.run = x.run /\ y.earlier = x.earlier /\ y.lines = x.lines

LEMMA SameLinesKept ==
    ASSUME NEW x, NEW y, y.lines = x.lines
    PROVE  KeepsLines(x, y)
BY DEF KeepsLines, LinesStay

LEMMA BuffersOnlyKeeps ==
    ASSUME NEW x, NEW y, BuffersOnly(x, y)
    PROVE  KeepsFiling(x, y) /\ KeepsLines(x, y)
BY SameLinesKept DEF BuffersOnly, SameLines, KeepsFiling

LEMMA ClosedOK ==
    ASSUME NEW p, NEW f, NEW n, NEW x, SessionOK(x, n, f, p)
    PROVE  SessionOK(Closed(x), n, f, p) /\ BuffersOnly(x, Closed(x))
<1> DEFINE y == Closed(x)
<1>1. x \in Session
  BY DEF SessionOK
<1>2. y = [x EXCEPT !.stream = IF x.stream = "open" THEN "closing"
                                 ELSE IF x.stream = "unread" THEN "eof" ELSE x.stream]
  BY <1>1 DEF Closed, Session
<1> HIDE DEF y
<1>3. /\ y \in Session /\ BuffersOnly(x, y)
      /\ \/ y.stream = x.stream \/ y.stream = "eof"
         \/ x.stream = "open" /\ y.stream = "closing"
      /\ y.stdin = x.stdin /\ y.pcm = x.pcm /\ y.queue = x.queue
  BY <1>1, <1>2 DEF Session, BuffersOnly, SameLines
<1>4. QED
  BY <1>3, StagesOK DEF BuffersOnly, y

LEMMA CancelledOK ==
    ASSUME NEW p, NEW f, NEW n, NEW x, SessionOK(x, n, f, p)
    PROVE  /\ SessionOK(Cancelled(x), n, f, p)
           /\ KeepsFiling(x, Cancelled(x)) /\ KeepsLines(x, Cancelled(x))
<1>1. CASE x.run = "listening"
  <2>1. Cancelled(x) = Over(x)
    BY <1>1 DEF Cancelled
  <2>2. QED
    BY <1>1, <2>1, OverOK, OverFields, SameLinesKept DEF KeepsFiling, Unfiled, SessionOK
<1>2. CASE x.run # "listening"
  BY <1>2, SameLinesKept DEF Cancelled, KeepsFiling
<1>3. QED
  BY <1>1, <1>2

LEMMA CollectedOK ==
    ASSUME NEW p, NEW f, NEW n, NEW x, SessionOK(x, n, f, p)
    PROVE  /\ SessionOK(Collected(x), n, f, p)
           /\ KeepsFiling(x, Collected(x)) /\ KeepsLines(x, Collected(x))
<1> DEFINE z == Cancelled(x)
           y == Closed(z)
<1>1. SessionOK(z, n, f, p) /\ KeepsFiling(x, z) /\ KeepsLines(x, z)
  BY CancelledOK
<1> HIDE DEF z
<1>2. SessionOK(y, n, f, p) /\ BuffersOnly(z, y)
  BY <1>1, ClosedOK
<1>3. /\ y.run = z.run /\ y.earlier = z.earlier /\ y.lines = z.lines
  BY <1>2 DEF BuffersOnly, SameLines
<1> HIDE DEF y
<1>4. KeepsFiling(x, y) /\ KeepsLines(x, y)
  BY <1>1, <1>3 DEF KeepsFiling, KeepsLines, LinesStay
<1>5. QED
  BY <1>2, <1>4 DEF Collected, y, z

LEMMA AnyFinishOK ==
    ASSUME NEW p, NEW f, NEW g, g # NotYet, NEW n, NEW x, SessionOK(x, n, f, p)
    PROVE  SessionOK(x, n, g, p)
BY DEF SessionOK, BuffersOK

LEMMA FinishedOK ==
    ASSUME NEW p, NEW n \in Nat, NEW x, SessionOK(x, n, NotYet, p), NEW g, g # NotYet
    PROVE  /\ SessionOK(Finished(x), n, g, p)
           /\ KeepsFiling(x, Finished(x)) /\ KeepsLines(x, Finished(x))
<1> DEFINE y == Finished(x)
<1>1. /\ x \in Session /\ BuffersOK(x, n, NotYet) /\ Continuous(x)
  BY DEF SessionOK
<1>2. CASE x.run # "listening" \/ x.stream # "none"
  <2>1. y = Closed(x)
    BY <1>2 DEF Finished
  <2>2. QED
    BY <2>1, ClosedOK, AnyFinishOK, BuffersOnlyKeeps
<1>3. CASE ~(x.run # "listening" \/ x.stream # "none") /\ Len(x.queue) < QueueSize
  <2> DEFINE a == Append(x.queue, End)
  <2>1. y = [x EXCEPT !.queue = a]
    BY <1>1, <1>3 DEF Finished, Session
  <2>2. x.queue \in Seq(0 .. MaxFeeds) /\ NoEnd(x.queue) /\ UpTo(x.queue, n)
    BY <1>1, <1>3, SessionFields DEF BuffersOK
  <2>3. Below(x.queue, End) /\ Below(Said(x.lines), End) /\ End <= n
    BY <1>1, <2>2, SaidNotEnd, SessionFields DEF NoEnd, Below, End
  <2>4. /\ a \in Seq(0 .. MaxFeeds) /\ Len(a) = Len(x.queue) + 1
        /\ Rising(x.queue) /\ Below(x.queue, End) => Rising(a)
        /\ UpTo(x.queue, n) /\ End <= n => UpTo(a, n)
        /\ \A q : Before(q, x.queue) /\ Below(q, End) => Before(q, a)
    BY <2>2, BufferTypes, AppendOrder
  <2> HIDE DEF y, a
  <2>5. /\ y \in Session /\ y.stdin = x.stdin /\ y.pcm = x.pcm /\ y.queue = a
        /\ y.stream = "none" /\ BuffersOnly(x, y)
    BY <1>1, <1>3, <2>1, <2>4 DEF Session, BuffersOnly, SameLines
  <2>6. Len(a) <= QueueSize
    BY <1>3, <2>2, <2>4, LenProperties, LiveCaptionsAssumption
  <2>7. x.stdin = <<>> /\ x.pcm = <<>>
    BY <1>1, <1>3 DEF BuffersOK
  <2>8. BuffersOK(y, n, g)
    BY <1>1, <2>2, <2>3, <2>4, <2>5, <2>6, <2>7 DEF BuffersOK, Running
  <2>9. SessionOK(y, n, g, p)
    BY <1>1, <2>3, <2>4, <2>5, <2>7, <2>8, EmptyOrder, BuffersStepOK DEF Continuous
  <2>10. QED
    BY <2>5, <2>9, BuffersOnlyKeeps DEF y
<1>4. CASE ~(x.run # "listening" \/ x.stream # "none") /\ ~(Len(x.queue) < QueueSize)
  <2>1. y = Cancelled(x)
    BY <1>4 DEF Finished
  <2>2. QED
    BY <2>1, CancelledOK, AnyFinishOK
<1>5. QED
  BY <1>2, <1>3, <1>4

LEMMA DeadOK ==
    ASSUME NEW p, NEW f, NEW n, NEW x, SessionOK(x, n, f, p)
    PROVE  /\ SessionOK(Dead(x), n, f, p) /\ KeepsLines(x, Dead(x))
           /\ Dead(x).lines = x.lines
           /\ Dead(x).run \in {"none", "saved", "lost"}
           /\ x.run = "saved" => Dead(x).run = "saved"
<1>1. CASE x.run = "none"
  BY <1>1, SameLinesKept DEF Dead
<1>2. CASE x.run # "none"
  <2> DEFINE z == Over(x)
             r == IF x.run = "saved" THEN "saved" ELSE "lost"
             y == Dead(x)
  <2>1. /\ SessionOK(z, n, f, p) /\ z.lines = x.lines
        /\ z.stdin = <<>> /\ z.pcm = <<>> /\ z.queue = <<>>
    BY OverOK, OverFields DEF SessionOK
  <2>2. y = [z EXCEPT !.run = r, !.failed = "no", !.stream = "eof"]
    BY <1>2 DEF Dead
  <2>3. r \in {"saved", "lost"} /\ (x.run = "saved" => r = "saved")
    OBVIOUS
  <2>4. z \in Session
    BY <2>1 DEF SessionOK
  <2> HIDE DEF z, r, y
  <2>5. /\ y \in Session /\ y.run = r /\ y.stream = "eof" /\ y.lines = x.lines
        /\ y.stdin = <<>> /\ y.pcm = <<>> /\ y.queue = <<>> /\ SameLines(z, y)
    BY <2>1, <2>2, <2>3, <2>4 DEF Session, SameLines
  <2>6. SessionOK(y, n, f, p)
    BY <2>1, <2>5, EmptiedOK
  <2>7. QED
    BY <2>3, <2>5, <2>6, SameLinesKept DEF y
<1>3. QED
  BY <1>1, <1>2

-----------------------------------------------------------------------------
(* Steps.  What the invariant says afterwards of the sessions.             *)
AllKeepLines == \A t \in Sessions : KeepsLines(session[t], session'[t])
AllKeepFiling == \A t \in Sessions : KeepsFiling(session[t], session'[t])

LEMMA OneMoves ==
    ASSUME session \in [Sessions -> Session], NEW s \in Sessions, NEW y, Becomes(s, y),
           SessionOK(y, fed', finish', provider'),
           \A t \in Sessions \ {s} : SessionOK(session[t], fed', finish', provider'),
           KeepsLines(session[s], y)
    PROVE  /\ SessionsOK' /\ AllKeepLines
           /\ KeepsFiling(session[s], y) => AllKeepFiling
<1>1. y \in Session
  BY DEF SessionOK
<1>2. /\ session' \in [Sessions -> Session] /\ session'[s] = y
      /\ \A t \in Sessions \ {s} : session'[t] = session[t]
  BY <1>1 DEF Becomes
<1>3. \A t \in Sessions : SessionOK(session'[t], fed', finish', provider')
  BY <1>2
<1>4. AllKeepLines
  BY <1>2, SameLinesKept DEF AllKeepLines
<1>5. KeepsFiling(session[s], y) => AllKeepFiling
  BY <1>2 DEF AllKeepFiling, KeepsFiling
<1>6. QED
  BY <1>2, <1>3, <1>4, <1>5 DEF SessionsOK

LEMMA Moves ==
    ASSUME SessionsOK, NEW s \in Sessions, NEW y, Becomes(s, y),
           SessionOK(y, fed, finish, provider), KeepsLines(session[s], y),
           fed' = fed, finish' = finish, provider' = provider
    PROVE  /\ SessionsOK' /\ AllKeepLines
           /\ KeepsFiling(session[s], y) => AllKeepFiling
BY OneMoves DEF SessionsOK

LEMMA NoneMoves ==
    ASSUME UNCHANGED session
    PROVE  AllKeepLines /\ AllKeepFiling
BY SameLinesKept DEF AllKeepLines, AllKeepFiling, KeepsFiling

LEMMA EngineSteps ==
    ASSUME ManagerOK, SessionsOK, NEW s \in Sessions, Engine(s)
    PROVE  ManagerOK' /\ SessionsOK' /\ AllKeepLines /\ AllKeepFiling /\ UNCHANGED onDisk
<1> DEFINE x == session[s]
<1>1. /\ SessionOK(x, fed, finish, provider) /\ fed \in Nat /\ provider \in Providers
      /\ x \in Session /\ BuffersOK(x, fed, finish)
  BY LiveCaptionsAssumption DEF ManagerOK, SessionsOK, SessionOK
<1>2. /\ UNCHANGED <<provider, current, fed, finish, onDisk>>
      /\ ManagerOK'
  BY DEF Engine, EngineTakes, EngineCloses, EngineFails, DeepgramHangsUp, Cool, ManagerOK
<1>3. CASE EngineTakes(s)
  <2>1. x.run = "listening" /\ x.queue # <<>> /\ Head(x.queue) # End
    BY <1>3 DEF EngineTakes
  <2>2. PICK y \in Hears([x EXCEPT !.queue = Tail(@), !.heard = Head(x.queue)],
                         Head(x.queue)) : Becomes(s, y)
    BY <1>3 DEF EngineTakes
  <2>3. /\ SessionOK(y, fed, finish, provider) /\ KeepsLines(x, y)
        /\ y.run = x.run /\ y.earlier = x.earlier
    <3> HIDE DEF x
    <3>1. QED
      BY <1>1, <2>1, <2>2, TakesOK
  <2>4. KeepsLines(x, y) /\ KeepsFiling(x, y)
    BY <2>1, <2>3 DEF KeepsFiling, Unfiled
  <2>5. QED
    BY <1>2, <2>2, <2>3, <2>4, Moves
<1>4. CASE EngineCloses(s)
  <2>1. x.run = "listening" /\ x.queue # <<>>
    BY <1>4 DEF EngineCloses
  <2>2. x.stream # "starting"
    BY <1>1, <2>1 DEF BuffersOK
  <2>3. PICK y \in Closes(x) : Becomes(s, Over(y))
    BY <1>4 DEF EngineCloses
  <2>4. /\ SessionOK(Over(y), fed, finish, provider) /\ KeepsLines(x, Over(y))
        /\ Over(y).run = "over"
    <3> HIDE DEF x
    <3>1. QED
      BY <1>1, <2>1, <2>2, <2>3, ClosesOK
  <2>5. KeepsFiling(x, Over(y))
    BY <2>1, <2>4 DEF KeepsFiling, Unfiled
  <2>6. QED
    BY <1>2, <2>3, <2>4, <2>5, Moves
<1>5. ASSUME x.run = "listening", NEW y, Becomes(s, y),
             y = Over(x) \/ y = [Over(x) EXCEPT !.failed = "cooling"]
      PROVE  SessionsOK' /\ AllKeepLines /\ AllKeepFiling
  <2> DEFINE w == Over(x)
  <2>1. /\ SessionOK(w, fed, finish, provider) /\ w.run = "over" /\ w.lines = x.lines
        /\ w \in Session
    <3> HIDE DEF x
    <3>1. QED
      BY <1>1, OverOK, OverFields
  <2>2. y = w \/ y = [w EXCEPT !.failed = "cooling"]
    BY <1>5
  <2> HIDE DEF w
  <2>3. /\ y \in Session /\ SameLines(w, y) /\ y.run = "over" /\ y.lines = x.lines
        /\ y.stream = w.stream /\ y.first = w.first
        /\ y.stdin = w.stdin /\ y.pcm = w.pcm /\ y.queue = w.queue
    BY <2>1, <2>2 DEF Session, SameLines
  <2>4. SessionOK(y, fed, finish, provider)
    BY <2>1, <2>3, StagesOK
  <2>5. KeepsLines(x, y) /\ KeepsFiling(x, y)
    BY <1>5, <2>3, SameLinesKept DEF KeepsFiling, Unfiled
  <2>6. QED
    BY <1>2, <1>5, <2>4, <2>5, Moves
<1>6. CASE EngineFails(s)
  BY <1>2, <1>5, <1>6 DEF EngineFails
<1>7. CASE DeepgramHangsUp(s)
  BY <1>2, <1>5, <1>7 DEF DeepgramHangsUp
<1>8. CASE Cool(s)
  <2> DEFINE y == [x EXCEPT !.failed = "cooled"]
  <2>1. Becomes(s, y)
    BY <1>8 DEF Cool
  <2>2. /\ y \in Session /\ BuffersOnly(x, y) /\ y.stream = x.stream
        /\ y.stdin = x.stdin /\ y.pcm = x.pcm /\ y.queue = x.queue
    BY <1>1 DEF Session, BuffersOnly, SameLines
  <2> HIDE DEF y
  <2>3. SessionOK(y, fed, finish, provider)
    BY <1>1, <2>2, StagesOK DEF BuffersOnly
  <2>4. QED
    BY <1>2, <2>1, <2>2, <2>3, BuffersOnlyKeeps, Moves
<1>9. QED
  BY <1>2, <1>3, <1>4, <1>6, <1>7, <1>8 DEF Engine

LEMMA DecoderSteps ==
    ASSUME ManagerOK, SessionsOK, NEW s \in Sessions, Decoder(s)
    PROVE  ManagerOK' /\ SessionsOK' /\ AllKeepLines /\ AllKeepFiling /\ UNCHANGED onDisk
<1> DEFINE x == session[s]
<1>1. /\ SessionOK(x, fed, finish, provider) /\ fed \in Nat /\ fed \in 0 .. MaxFeeds
      /\ x \in Session
  BY LiveCaptionsAssumption DEF ManagerOK, SessionsOK, SessionOK
<1>2. /\ UNCHANGED <<provider, fed, finish, onDisk>>
      /\ current' = current \/ current' = s
  BY DEF Decoder, StartOk, StartFails, Decode, StreamEnds, Pump, PumpFails
<1>3. ManagerOK'
  BY <1>2 DEF ManagerOK
<1>4. ASSUME NEW y, Becomes(s, y), SessionOK(y, fed, finish, provider), BuffersOnly(x, y)
      PROVE  SessionsOK' /\ AllKeepLines /\ AllKeepFiling
  BY <1>2, <1>4, BuffersOnlyKeeps, Moves
<1>5. CASE StartOk(s)
  <2>1. x.stream = "starting" /\ Becomes(s, Opened(x))
    BY <1>5 DEF StartOk
  <2>2. SessionOK(Opened(x), fed, finish, provider) /\ BuffersOnly(x, Opened(x))
    <3> HIDE DEF x
    <3>1. QED
      BY <1>1, <2>1, OpenedOK
  <2>3. QED
    BY <1>2, <1>3, <1>4, <2>1, <2>2
<1>6. CASE StartFails(s)
  <2> DEFINE y == [x EXCEPT !.stream = "eof", !.failed = "cooling"]
  <2>1. x.stream = "starting" /\ Becomes(s, y)
    BY <1>6 DEF StartFails
  <2>2. /\ y \in Session /\ BuffersOnly(x, y) /\ y.stream = "eof"
        /\ y.stdin = x.stdin /\ y.pcm = x.pcm /\ y.queue = x.queue
    BY <1>1 DEF Session, BuffersOnly, SameLines
  <2> HIDE DEF y
  <2>3. SessionOK(y, fed, finish, provider)
    BY <1>1, <2>2, StagesOK DEF BuffersOnly
  <2>4. QED
    BY <1>2, <1>3, <1>4, <2>1, <2>2, <2>3
<1>7. CASE Decode(s)
  <2>1. Running(x) /\ x.stdin # <<>> /\ Becomes(s, ReadLoop(x))
    BY <1>7 DEF Decode
  <2>2. SessionOK(ReadLoop(x), fed, finish, provider) /\ BuffersOnly(x, ReadLoop(x))
    <3> HIDE DEF x
    <3>1. QED
      BY <1>1, <2>1, DecodeOK
  <2>3. QED
    BY <1>2, <1>3, <1>4, <2>1, <2>2
<1>8. CASE StreamEnds(s)
  <2> DEFINE y == [x EXCEPT !.stdin = <<>>, !.pcm = Append(@, End), !.stream = "eof"]
  <2>1. Running(x) /\ Becomes(s, y)
    BY <1>8 DEF StreamEnds
  <2>2. SessionOK(y, fed, finish, provider) /\ BuffersOnly(x, y)
    <3> HIDE DEF x
    <3>1. QED
      BY <1>1, <2>1, StreamEndsOK
  <2> HIDE DEF y
  <2>3. QED
    BY <1>2, <1>3, <1>4, <2>1, <2>2
<1>9. CASE Pump(s)
  <2>1. x.pcm # <<>> /\ Becomes(s, Pumped(x))
    BY <1>9 DEF Pump
  <2>2. SessionOK(Pumped(x), fed, finish, provider) /\ BuffersOnly(x, Pumped(x))
    <3> HIDE DEF x
    <3>1. QED
      BY <1>1, <2>1, PumpOK
  <2>3. QED
    BY <1>2, <1>3, <1>4, <2>1, <2>2
<1>10. CASE PumpFails(s)
  <2>1. x.pcm # <<>> /\ Head(x.pcm) # End /\ Becomes(s, PumpOver(x))
    BY <1>10 DEF PumpFails
  <2>2. SessionOK(PumpOver(x), fed, finish, provider) /\ BuffersOnly(x, PumpOver(x))
    <3> HIDE DEF x
    <3>1. QED
      BY <1>1, <2>1, PumpOverOK
  <2>3. QED
    BY <1>2, <1>3, <1>4, <2>1, <2>2
<1>11. QED
  BY <1>5, <1>6, <1>7, <1>8, <1>9, <1>10 DEF Decoder

LEMMA FeedSteps ==
    ASSUME ManagerOK, SessionsOK, Feed
    PROVE  ManagerOK' /\ SessionsOK' /\ AllKeepLines /\ AllKeepFiling /\ UNCHANGED onDisk
<1>1. /\ fed < MaxFeeds /\ finish = NotYet /\ fed' = fed + 1
      /\ finish' = finish /\ provider' = provider /\ UNCHANGED onDisk
  BY DEF Feed
<1>2. /\ fed \in Nat /\ fed + 1 \in 1 .. MaxFeeds /\ fed + 1 \in 0 .. MaxFeeds
      /\ session \in [Sessions -> Session]
      /\ current \in Sessions \union {NoSession}
  BY <1>1, LiveCaptionsAssumption DEF ManagerOK, SessionsOK
<1>3. \A t \in Sessions : SessionOK(session[t], fed', finish', provider')
  BY <1>1, <1>2, LaterIsOK DEF SessionsOK
<1>4. CASE FeedSession
  <2> DEFINE x == session[current]
             y == Offered(x, fed + 1)
  <2>1. current \in Sessions /\ Becomes(current, y) /\ current' = current
    BY <1>2, <1>4 DEF FeedSession
  <2>2. SessionOK(x, fed, NotYet, provider)
    BY <1>1, <2>1 DEF SessionsOK
  <2>3. SessionOK(y, fed + 1, NotYet, provider) /\ BuffersOnly(x, y)
    <3> HIDE DEF x
    <3>1. QED
      BY <1>1, <1>2, <2>2, OfferedOK
  <2> HIDE DEF y
  <2>4. SessionOK(y, fed', finish', provider')
    BY <1>1, <2>3
  <2>5. KeepsLines(x, y) /\ KeepsFiling(x, y)
    BY <2>3, BuffersOnlyKeeps
  <2>6. SessionsOK' /\ AllKeepLines /\ AllKeepFiling
    BY <1>2, <1>3, <2>1, <2>4, <2>5, OneMoves
  <2>7. QED
    BY <1>1, <1>2, <2>1, <2>6 DEF ManagerOK
<1>5. CASE FeedCooling
  <2>1. session' = session /\ current' = current
    BY <1>5 DEF FeedCooling
  <2>2. SessionsOK' /\ AllKeepLines /\ AllKeepFiling
    BY <1>2, <1>3, <2>1, NoneMoves DEF SessionsOK
  <2>3. QED
    BY <1>1, <1>2, <2>1, <2>2 DEF ManagerOK
<1>6. CASE FeedNew
  <2> DEFINE y == NewSession(fed + 1, WantsPcm)
  <2>1. PICK s \in Fresh : /\ Becomes(s, y)
                           /\ current' = IF WantsPcm THEN NoSession ELSE s
    BY <1>6 DEF FeedNew
  <2>2. s \in Sessions /\ session[s].run = "none" /\ current' \in Sessions \union {NoSession}
    BY <2>1 DEF Fresh
  <2>3. session[s].lines = <<>>
    BY <2>2 DEF SessionsOK, SessionOK, HeardOK
  <2>4. WantsPcm \in BOOLEAN
    BY DEF WantsPcm
  <2>5. SessionOK(y, fed + 1, NotYet, provider) /\ y.run = "listening" /\ y.lines = <<>>
    BY <1>2, <2>4, NewSessionOK
  <2> HIDE DEF y
  <2>6. SessionOK(y, fed', finish', provider')
    BY <1>1, <2>5
  <2>7. KeepsLines(session[s], y) /\ KeepsFiling(session[s], y)
    BY <2>2, <2>3, <2>5, SameLinesKept DEF KeepsFiling, Unfiled
  <2>8. SessionsOK' /\ AllKeepLines /\ AllKeepFiling
    BY <1>2, <1>3, <2>1, <2>2, <2>6, <2>7, OneMoves
  <2>9. QED
    BY <1>1, <1>2, <2>2, <2>8 DEF ManagerOK
<1>7. QED
  BY <1>4, <1>5, <1>6 DEF Feed

LEMMA FinishSteps ==
    ASSUME ManagerOK, SessionsOK, Finish
    PROVE  ManagerOK' /\ SessionsOK' /\ AllKeepLines /\ AllKeepFiling /\ UNCHANGED onDisk
<1>1. /\ finish = NotYet /\ finish' = current
      /\ current' = current /\ fed' = fed /\ provider' = provider /\ UNCHANGED onDisk
  BY DEF Finish
<1>2. /\ fed \in Nat /\ session \in [Sessions -> Session]
      /\ current \in Sessions \union {NoSession}
  BY LiveCaptionsAssumption DEF ManagerOK, SessionsOK
<1>3. finish' # NotYet
  BY <1>1, <1>2, LiveCaptionsAssumption DEF Sessions, NoSession, NotYet
<1>4. \A t \in Sessions : SessionOK(session[t], fed', finish', provider')
  BY <1>1, <1>3, AnyFinishOK DEF SessionsOK
<1>5. ManagerOK'
  BY <1>1, <1>2 DEF ManagerOK
<1>6. CASE current = NoSession
  <2>1. session' = session
    BY <1>6 DEF Finish
  <2>2. QED
    BY <1>1, <1>2, <1>4, <1>5, <2>1, NoneMoves DEF SessionsOK
<1>7. CASE current # NoSession
  <2> DEFINE x == session[current]
             y == Finished(x)
  <2>1. current \in Sessions /\ Becomes(current, y)
    BY <1>2, <1>7 DEF Finish
  <2>2. SessionOK(x, fed, NotYet, provider)
    BY <1>1, <2>1 DEF SessionsOK
  <2>3. /\ SessionOK(y, fed, finish', provider)
        /\ KeepsLines(x, y) /\ KeepsFiling(x, y)
    <3> HIDE DEF x
    <3>1. QED
      BY <1>2, <1>3, <2>2, FinishedOK
  <2> HIDE DEF y
  <2>4. SessionOK(y, fed', finish', provider')
    BY <1>1, <2>3
  <2>5. SessionsOK' /\ AllKeepLines /\ AllKeepFiling
    BY <1>2, <1>4, <2>1, <2>3, <2>4, OneMoves
  <2>6. QED
    BY <1>1, <1>5, <2>5
<1>8. QED
  BY <1>6, <1>7

LEMMA CollectSteps ==
    ASSUME ManagerOK, SessionsOK, Collect
    PROVE  ManagerOK' /\ SessionsOK' /\ AllKeepLines /\ AllKeepFiling /\ UNCHANGED onDisk
<1> DEFINE x == session[current]
           y == Collected(x)
<1>1. /\ current \in Sessions /\ Becomes(current, y) /\ current' = NoSession
      /\ UNCHANGED <<provider, fed, finish, onDisk>>
  BY DEF Collect, ManagerOK
<1>2. SessionOK(x, fed, finish, provider)
  BY <1>1 DEF SessionsOK
<1>3. /\ SessionOK(y, fed, finish, provider)
      /\ KeepsLines(x, y) /\ KeepsFiling(x, y)
  <2> HIDE DEF x
  <2>1. QED
    BY <1>2, CollectedOK
<1> HIDE DEF y
<1>4. SessionsOK' /\ AllKeepLines /\ AllKeepFiling
  BY <1>1, <1>3, Moves
<1>5. QED
  BY <1>1, <1>4 DEF ManagerOK

-----------------------------------------------------------------------------
(* The file.  No line is provisional but the last, so that the final lines *)
(* are a sequence.                                                         *)
LEMMA FinalsType ==
    ASSUME NEW p, NEW x, LinesOK(x, p)
    PROVE  Finals(x.lines) \in Seq(Lines)
<1> DEFINE l == x.lines
           F == {i \in DOMAIN l : IsFinal(l[i])}
           k == Dropped(x)
<1>1. /\ l \in Seq(Lines) /\ Len(l) \in Nat /\ DOMAIN l = 1 .. Len(l)
  BY LineTypes DEF LinesOK
<1>2. /\ k \in Seq(Lines)
      /\ \A i \in DOMAIN k : i \in DOMAIN l /\ k[i] = l[i] /\ ~k[i].provisional
      /\ \A i \in DOMAIN l : ~l[i].provisional => i \in DOMAIN k
  BY DroppedLines
<1>3. DOMAIN k = F
  BY <1>2 DEF IsFinal
<1>4. k = [i \in F |-> l[i]]
  <2>1. k = [i \in DOMAIN k |-> k[i]]
    BY <1>2, LenProperties
  <2>2. QED
    BY <1>2, <1>3, <2>1
<1>5. Finals(l) = [i \in F |-> l[i]]
  BY DEF Finals, Restrict
<1>6. QED
  BY <1>2, <1>4, <1>5

LEMMA FilingFrame ==
    ASSUME FileTypes, FileOK, AllKeepFiling, UNCHANGED onDisk
    PROVE  FileTypes' /\ FileOK'
<1>1. /\ file' = file /\ order' = order /\ overlapped' = overlapped /\ damaged' = damaged
      /\ \A i \in DOMAIN order : order[i] \in Sessions
  BY LenProperties, ElementOfSeq DEF onDisk, FileTypes
<1>2. \A i \in DOMAIN order : /\ session[order[i]].run = "saved"
                              /\ session'[order[i]].run = "saved"
                              /\ session'[order[i]].lines = session[order[i]].lines
  BY <1>1 DEF FileOK, AllKeepFiling, KeepsFiling, Unfiled
<1>3. Parts' = Parts
  BY <1>1, <1>2 DEF Parts
<1>4. \A t \in Sessions : /\ Saving(t)' <=> Saving(t)
                          /\ session'[t].run = "writing" <=> session[t].run = "writing"
                          /\ Saving(t) => session'[t].earlier = session[t].earlier
  BY DEF AllKeepFiling, KeepsFiling, Unfiled, Saving
<1>5. FileTypes'
  BY <1>1 DEF FileTypes
<1>6. FileOK'
  <2>1. \A i \in DOMAIN order' : session'[order'[i]].run = "saved"
    BY <1>1, <1>2
  <2>2. CASE overlapped \/ damaged
    BY <1>1, <2>1, <2>2 DEF FileOK
  <2>3. CASE ~(overlapped \/ damaged)
    <3>1. /\ \A s, t \in Sessions : Saving(s) /\ Saving(t) => s = t
          /\ file.state = "half" => \E s \in Sessions : session[s].run = "writing"
          /\ file.state # "half" => file.parts = Parts
          /\ \A s \in Sessions : Saving(s) => session[s].earlier = Parts
      BY <2>3 DEF FileOK
    <3>2. \A s, t \in Sessions : Saving(s)' /\ Saving(t)' => s = t
      BY <1>4, <3>1
    <3>3. file'.state = "half" => \E s \in Sessions : session'[s].run = "writing"
      BY <1>1, <1>4, <3>1
    <3>4. file'.state # "half" => file'.parts = Parts'
      BY <1>1, <1>3, <3>1
    <3>5. \A s \in Sessions : Saving(s)' => session'[s].earlier = Parts'
      BY <1>3, <1>4, <3>1
    <3>6. QED
      BY <2>1, <3>2, <3>3, <3>4, <3>5 DEF FileOK
  <2>4. QED
    BY <2>2, <2>3
<1>7. QED
  BY <1>5, <1>6

(* A session that files moves to the next stage.                           *)
LEMMA StageMoves ==
    ASSUME ManagerOK, SessionsOK, FileTypes, NEW s \in Sessions,
           NEW r \in {"merging", "writing", "saved", "lost"}, NEW e \in Seq(Seq(Lines)),
           Becomes(s, [session[s] EXCEPT !.run = r, !.earlier = e]),
           session[s].run # "none",
           UNCHANGED <<provider, current, fed, finish>>
    PROVE  /\ ManagerOK' /\ SessionsOK' /\ AllKeepLines
           /\ session'[s].run = r /\ session'[s].earlier = e
           /\ \A t \in Sessions \ {s} : session'[t] = session[t]
           /\ \A t \in Sessions : session'[t].lines = session[t].lines
<1> DEFINE x == session[s]
           y == [x EXCEPT !.run = r, !.earlier = e]
<1>1. x \in Session /\ SessionOK(x, fed, finish, provider)
  BY DEF SessionsOK
<1>2. /\ y \in Session /\ SameLines(x, y) /\ y.stream = x.stream /\ y.first = x.first
      /\ y.stdin = x.stdin /\ y.pcm = x.pcm /\ y.queue = x.queue
      /\ y.run = r /\ y.earlier = e /\ y.lines = x.lines
  BY <1>1 DEF Session, SameLines
<1>3. Becomes(s, y)
  OBVIOUS
<1> HIDE DEF y
<1>4. SessionOK(y, fed, finish, provider)
  BY <1>1, <1>2, StagesOK
<1>5. KeepsLines(x, y)
  BY <1>2, SameLinesKept
<1>6. SessionsOK' /\ AllKeepLines
  BY <1>3, <1>4, <1>5, Moves
<1>7. session'[s] = y /\ \A t \in Sessions \ {s} : session'[t] = session[t]
  BY <1>3 DEF Becomes, SessionsOK
<1>8. QED
  BY <1>2, <1>6, <1>7 DEF ManagerOK

LEMMA PersistSteps ==
    ASSUME ManagerOK, SessionsOK, FileTypes, FileOK, NEW s \in Sessions, Persist(s)
    PROVE  ManagerOK' /\ SessionsOK' /\ AllKeepLines /\ FileTypes' /\ FileOK'
<1> DEFINE x == session[s]
<1>1. /\ x \in Session /\ LinesOK(x, provider)
      /\ x.earlier \in Seq(Seq(Lines)) /\ file.parts \in Seq(Seq(Lines))
  BY SessionFields DEF SessionsOK, SessionOK, FileTypes
<1>2. x = [x EXCEPT !.earlier = x.earlier]
  BY <1>1 DEF Session
<1>3. \A i \in DOMAIN order : order[i] \in Sessions /\ session[order[i]].run = "saved"
  BY LenProperties, ElementOfSeq DEF FileTypes, FileOK
<1>4. CASE ReadEarlier(s)
  <2>1. /\ Becomes(s, [x EXCEPT !.run = "merging", !.earlier = file.parts])
        /\ x.run = "over"
        /\ UNCHANGED <<provider, current, fed, finish, file, order, damaged>>
        /\ overlapped' = (overlapped \/ \E q \in Sessions \ {s} : Saving(q))
    BY <1>4 DEF ReadEarlier, Earlier
  <2>2. /\ ManagerOK' /\ SessionsOK' /\ AllKeepLines
        /\ session'[s].run = "merging" /\ session'[s].earlier = file.parts
        /\ \A t \in Sessions \ {s} : session'[t] = session[t]
        /\ \A t \in Sessions : session'[t].lines = session[t].lines
    BY <1>1, <2>1, StageMoves
  <2>3. Parts' = Parts
    BY <1>3, <2>1, <2>2 DEF Parts
  <2>4. \A i \in DOMAIN order' : session'[order'[i]].run = "saved"
    BY <1>3, <2>1, <2>2
  <2>5. FileTypes'
    BY <2>1 DEF FileTypes
  <2>6. CASE overlapped' \/ damaged'
    BY <2>2, <2>4, <2>5, <2>6 DEF FileOK
  <2>7. CASE ~(overlapped' \/ damaged')
    <3>1. ~overlapped /\ ~damaged /\ \A q \in Sessions \ {s} : ~Saving(q)
      BY <2>1, <2>7
    <3>2. \A q \in Sessions : ~Saving(q) /\ session[q].run # "writing"
      BY <2>1, <3>1 DEF Saving
    <3>3. file.state # "half" /\ file.parts = Parts
      BY <3>1, <3>2 DEF FileOK
    <3>4. \A t \in Sessions : Saving(t)' => t = s
      BY <2>2, <3>2 DEF Saving
    <3>5. QED
      BY <2>1, <2>2, <2>3, <2>4, <2>5, <3>3, <3>4 DEF FileOK
  <2>8. QED
    BY <2>6, <2>7
<1>5. CASE Truncate(s)
  <2>1. /\ Becomes(s, [x EXCEPT !.run = "writing"])
        /\ x.run = "merging" /\ file' = HalfFile
        /\ UNCHANGED <<provider, current, fed, finish, order, overlapped, damaged>>
    BY <1>5 DEF Truncate
  <2>2. Becomes(s, [x EXCEPT !.run = "writing", !.earlier = x.earlier])
    BY <1>1, <2>1 DEF Session
  <2>3. /\ ManagerOK' /\ SessionsOK' /\ AllKeepLines
        /\ session'[s].run = "writing" /\ session'[s].earlier = x.earlier
        /\ \A t \in Sessions \ {s} : session'[t] = session[t]
        /\ \A t \in Sessions : session'[t].lines = session[t].lines
    BY <1>1, <2>1, <2>2, StageMoves
  <2>4. Parts' = Parts
    BY <1>3, <2>1, <2>3 DEF Parts
  <2>5. \A i \in DOMAIN order' : session'[order'[i]].run = "saved"
    BY <1>3, <2>1, <2>3
  <2>6. FileTypes' /\ file'.state = "half"
    BY <2>1, EmptySeq DEF FileTypes, HalfFile
  <2>7. CASE overlapped' \/ damaged'
    BY <2>3, <2>5, <2>6, <2>7 DEF FileOK
  <2>8. CASE ~(overlapped' \/ damaged')
    <3>1. \A t \in Sessions : Saving(t) => t = s
      BY <2>1, <2>8 DEF FileOK, Saving
    <3>2. x.earlier = Parts
      BY <2>1, <2>8 DEF FileOK, Saving
    <3>3. \A t \in Sessions : Saving(t)' => t = s
      BY <2>3, <3>1 DEF Saving
    <3>4. QED
      BY <2>3, <2>4, <2>5, <2>6, <3>2, <3>3 DEF FileOK
  <2>9. QED
    BY <2>7, <2>8
<1>6. CASE Write(s)
  <2> DEFINE v == Finals(x.lines)
  <2>1. /\ Becomes(s, [x EXCEPT !.run = "saved", !.earlier = <<>>])
        /\ x.run = "writing"
        /\ UNCHANGED <<provider, current, fed, finish, overlapped, damaged>>
        /\ file' = WholeFile(Append(x.earlier, v)) /\ order' = Append(order, s)
    BY <1>6 DEF Write
  <2>2. v \in Seq(Lines) /\ <<>> \in Seq(Seq(Lines))
    BY <1>1, FinalsType, EmptySeq
  <2> HIDE DEF v
  <2>3. /\ ManagerOK' /\ SessionsOK' /\ AllKeepLines
        /\ session'[s].run = "saved"
        /\ \A t \in Sessions \ {s} : session'[t] = session[t]
        /\ \A t \in Sessions : session'[t].lines = session[t].lines
    BY <2>1, <2>2, StageMoves
  <2>4. /\ order' \in Seq(Sessions) /\ Len(order') = Len(order) + 1
        /\ \A i \in 1 .. Len(order) : order'[i] = order[i]
        /\ order'[Len(order) + 1] = s
        /\ order \in Seq(Sessions)
    BY <2>1, AppendProperties DEF FileTypes
  <2>5. /\ Len(order) \in Nat /\ DOMAIN order = 1 .. Len(order)
        /\ DOMAIN order' = 1 .. Len(order) + 1
    BY <2>4, LenProperties
  <2>6. \A i \in DOMAIN order' : session'[order'[i]].run = "saved"
    <3>1. \A i \in DOMAIN order' : order'[i] = s \/ (i \in DOMAIN order /\ order'[i] = order[i])
      BY <2>4, <2>5
    <3>2. QED
      BY <1>3, <2>3, <3>1, <2>1
  <2>7. Append(x.earlier, v) \in Seq(Seq(Lines))
    BY <1>1, <2>2, AppendProperties
  <2>8. FileTypes' /\ file'.state = "whole" /\ file'.parts = Append(x.earlier, v)
    BY <2>1, <2>4, <2>7 DEF FileTypes, WholeFile
  <2>9. CASE overlapped' \/ damaged'
    BY <2>3, <2>6, <2>8, <2>9 DEF FileOK
  <2>10. CASE ~(overlapped' \/ damaged')
    <3>1. x.earlier = Parts /\ \A t \in Sessions : Saving(t) => t = s
      BY <2>1, <2>10 DEF FileOK, Saving
    <3>2. \A t \in Sessions : ~Saving(t)'
      BY <2>3, <3>1 DEF Saving
    <3>3. Append(x.earlier, v) = Parts'
      <4> DEFINE a == Append(x.earlier, v)
      <4>1. /\ Len(a) = Len(x.earlier) + 1 /\ \A i \in 1 .. Len(x.earlier) : a[i] = x.earlier[i]
            /\ a[Len(x.earlier) + 1] = v
        BY <1>1, <2>2, AppendProperties
      <4>2. Len(x.earlier) = Len(order)
        <5>1. DOMAIN x.earlier = 1 .. Len(order) /\ DOMAIN x.earlier = 1 .. Len(x.earlier)
          BY <1>1, <2>5, <3>1, LenProperties DEF Parts
        <5>2. Len(x.earlier) \in Nat
          BY <1>1, LenProperties
        <5>3. QED
          BY <2>5, <5>1, <5>2
      <4>3. a = [i \in 1 .. Len(order) + 1 |-> a[i]]
        BY <2>7, <4>1, <4>2, LenProperties
      <4> HIDE DEF a
      <4>4. ASSUME NEW i \in 1 .. Len(order) + 1
            PROVE  a[i] = Finals(session'[order'[i]].lines)
        <5>1. CASE i = Len(order) + 1
          <6>1. order'[i] = s /\ session'[s].lines = x.lines
            BY <2>3, <2>4, <5>1
          <6>2. QED
            BY <4>1, <4>2, <5>1, <6>1 DEF v
        <5>2. CASE i \in 1 .. Len(order)
          <6>1. a[i] = Parts[i] /\ order'[i] = order[i] /\ order[i] \in Sessions
            BY <1>3, <2>4, <2>5, <3>1, <4>1, <4>2, <5>2
          <6>2. session'[order'[i]].lines = session[order[i]].lines
            BY <2>3, <6>1
          <6>3. QED
            BY <2>5, <5>2, <6>1, <6>2 DEF Parts
        <5>3. QED
          BY <2>5, <5>1, <5>2
      <4>5. Parts' = [i \in 1 .. Len(order) + 1 |-> Finals(session'[order'[i]].lines)]
        BY <2>5 DEF Parts
      <4>6. QED
        BY <4>3, <4>4, <4>5 DEF a
    <3>4. QED
      BY <2>3, <2>6, <2>8, <3>2, <3>3 DEF FileOK
  <2>11. QED
    BY <2>9, <2>10
<1>7. CASE SaveFails(s)
  <2>1. /\ Becomes(s, [x EXCEPT !.run = "lost"]) /\ Saving(s)
        /\ UNCHANGED <<provider, current, fed, finish, file, order, overlapped>>
        /\ damaged' = (damaged \/ x.run = "writing")
    BY <1>7 DEF SaveFails
  <2>2. Becomes(s, [x EXCEPT !.run = "lost", !.earlier = x.earlier])
    BY <1>1, <2>1 DEF Session
  <2>3. x.run \in {"merging", "writing"}
    BY <2>1 DEF Saving
  <2>4. /\ ManagerOK' /\ SessionsOK' /\ AllKeepLines
        /\ session'[s].run = "lost"
        /\ \A t \in Sessions \ {s} : session'[t] = session[t]
        /\ \A t \in Sessions : session'[t].lines = session[t].lines
    <3>1. x.run # "none" /\ UNCHANGED <<provider, current, fed, finish>>
      BY <2>1, <2>3
    <3>2. QED
      BY <1>1, <2>2, <3>1, StageMoves
  <2>5. Parts' = Parts
    BY <1>3, <2>1, <2>4 DEF Parts
  <2>6. \A i \in DOMAIN order' : session'[order'[i]].run = "saved"
    BY <1>3, <2>1, <2>3, <2>4
  <2>7. FileTypes'
    BY <2>1 DEF FileTypes
  <2>8. CASE overlapped' \/ damaged'
    BY <2>4, <2>6, <2>7, <2>8 DEF FileOK
  <2>9. CASE ~(overlapped' \/ damaged')
    <3>1. ~overlapped /\ ~damaged /\ x.run # "writing"
      BY <2>1, <2>9
    <3>2. \A t \in Sessions : Saving(t) => t = s
      BY <2>1, <3>1 DEF FileOK
    <3>3. file.state # "half" /\ file.parts = Parts
      BY <3>1, <3>2 DEF FileOK, Saving
    <3>4. \A t \in Sessions : ~Saving(t)'
      BY <2>4, <3>2 DEF Saving
    <3>5. QED
      BY <2>1, <2>4, <2>5, <2>6, <2>7, <3>3, <3>4 DEF FileOK
  <2>10. QED
    BY <2>8, <2>9
<1>8. QED
  BY <1>4, <1>5, <1>6, <1>7 DEF Persist

LEMMA CrashSteps ==
    ASSUME ManagerOK, SessionsOK, FileTypes, FileOK, Crash
    PROVE  ManagerOK' /\ SessionsOK' /\ AllKeepLines /\ FileTypes' /\ FileOK'
<1>1. /\ session' = [s \in Sessions |-> Dead(session[s])] /\ current' = NoSession
      /\ damaged' = (damaged \/ \E s \in Sessions : session[s].run = "writing")
      /\ UNCHANGED <<provider, fed, finish, file, order, overlapped>>
  BY DEF Crash
<1>2. \A t \in Sessions : SessionOK(session[t], fed, finish, provider)
  BY DEF SessionsOK
<1>3. \A t \in Sessions : /\ SessionOK(Dead(session[t]), fed, finish, provider)
                          /\ KeepsLines(session[t], Dead(session[t]))
                          /\ Dead(session[t]).lines = session[t].lines
                          /\ Dead(session[t]).run \in {"none", "saved", "lost"}
                          /\ session[t].run = "saved" => Dead(session[t]).run = "saved"
  BY <1>2, DeadOK
<1>4. \A t \in Sessions : session'[t] = Dead(session[t])
  BY <1>1
<1>5. ManagerOK'
  BY <1>1 DEF ManagerOK
<1>6. SessionsOK' /\ AllKeepLines
  BY <1>1, <1>3, <1>4 DEF SessionsOK, SessionOK, AllKeepLines
<1>7. FileTypes'
  BY <1>1 DEF FileTypes
<1>8. \A i \in DOMAIN order : order[i] \in Sessions /\ session[order[i]].run = "saved"
  BY LenProperties, ElementOfSeq DEF FileTypes, FileOK
<1>9. Parts' = Parts
  BY <1>1, <1>3, <1>4, <1>8 DEF Parts
<1>10. \A i \in DOMAIN order' : session'[order'[i]].run = "saved"
  BY <1>1, <1>3, <1>4, <1>8
<1>11. \A t \in Sessions : ~Saving(t)'
  BY <1>3, <1>4 DEF Saving
<1>12. CASE overlapped' \/ damaged'
  BY <1>5, <1>6, <1>7, <1>10, <1>12 DEF FileOK
<1>13. CASE ~(overlapped' \/ damaged')
  <2>1. file.state # "half" /\ file.parts = Parts
    BY <1>1, <1>13 DEF FileOK
  <2>2. QED
    BY <1>1, <1>5, <1>6, <1>7, <1>9, <1>10, <1>11, <2>1 DEF FileOK
<1>14. QED
  BY <1>12, <1>13

-----------------------------------------------------------------------------
LEMMA InitOK ==
    ASSUME Init
    PROVE  IInv
<1>1. /\ provider \in Providers /\ session = [s \in Sessions |-> NoSessionYet]
      /\ current = NoSession /\ fed = 0 /\ finish = NotYet
      /\ file = NoFile /\ order = <<>> /\ overlapped = FALSE /\ damaged = FALSE
  BY DEF Init
<1>2. ManagerOK
  BY <1>1, LiveCaptionsAssumption DEF ManagerOK
<1>3. /\ \A s \in Sessions : session[s] = NoSessionYet
      /\ SessionOK(NoSessionYet, 0, finish, provider)
      /\ NoSessionYet.run = "none" /\ NoSessionYet \in Session
  BY <1>1, NoSessionYetOK DEF SessionOK
<1>4. SessionsOK
  BY <1>1, <1>3 DEF SessionsOK
<1>5. FileTypes
  BY <1>1, EmptySeq DEF FileTypes, NoFile
<1>6. DOMAIN order = {}
  BY <1>1
<1>7. file.state = "absent" /\ file.parts = Parts
  BY <1>1, <1>6 DEF NoFile, Parts
<1>8. \A s \in Sessions : ~Saving(s)
  BY <1>3 DEF Saving
<1>9. FileOK
  BY <1>6, <1>7, <1>8 DEF FileOK
<1>10. QED
  BY <1>2, <1>4, <1>5, <1>9 DEF IInv

LEMMA NextOK ==
    ASSUME IInv, [Next]_vars
    PROVE  IInv' /\ AllKeepLines
<1>1. ManagerOK /\ SessionsOK /\ FileTypes /\ FileOK
  BY DEF IInv
<1>2. ASSUME ManagerOK', SessionsOK', AllKeepLines, AllKeepFiling, UNCHANGED onDisk
      PROVE  IInv' /\ AllKeepLines
  BY <1>1, <1>2, FilingFrame DEF IInv
<1>3. CASE Manager
  BY <1>1, <1>2, <1>3, FeedSteps, FinishSteps, CollectSteps DEF Manager
<1>4. CASE Crash
  BY <1>1, <1>4, CrashSteps DEF IInv
<1>5. ASSUME NEW s \in Sessions, Engine(s) PROVE IInv' /\ AllKeepLines
  BY <1>1, <1>2, <1>5, EngineSteps
<1>6. ASSUME NEW s \in Sessions, Decoder(s) PROVE IInv' /\ AllKeepLines
  BY <1>1, <1>2, <1>6, DecoderSteps
<1>7. ASSUME NEW s \in Sessions, Persist(s) PROVE IInv' /\ AllKeepLines
  BY <1>1, <1>7, PersistSteps DEF IInv
<1>8. CASE UNCHANGED vars
  <2>1. /\ UNCHANGED <<provider, current, fed, finish, onDisk>> /\ session' = session
    BY <1>8 DEF vars, memory
  <2>2. ManagerOK' /\ SessionsOK'
    BY <1>1, <2>1 DEF ManagerOK, SessionsOK
  <2>3. QED
    BY <1>2, <2>1, <2>2, NoneMoves
<1>9. QED
  BY <1>3, <1>4, <1>5, <1>6, <1>7, <1>8 DEF Next

LEMMA InvariantHolds == Spec => []IInv
<1>1. Init => IInv
  BY InitOK
<1>2. IInv /\ [Next]_vars => IInv'
  BY NextOK
<1>3. QED
  BY <1>1, <1>2, PTL DEF Spec

(* The manager, the buffers, the lines and the file have their types, and  *)
(* the queue, the decoded audio and the lines stay within their bounds,    *)
(* whatever the engine, the decoder and the phone do.                      *)
THEOREM CaptionTypes == Spec => []TypeOK
<1>1. IInv => TypeOK
  BY DEF IInv, ManagerOK, SessionsOK, FileTypes, SessionOK, LinesOK, BuffersOK, TypeOK
<1>2. QED
  BY <1>1, InvariantHolds, PTL

(* From ffmpeg's input to the engine the stream of a session is            *)
(* continuous: nothing is overtaken, handed over twice or put after the    *)
(* terminator.  Its lines are in the order of the audio; those of Whisper  *)
(* may repeat it, those of the others do not.                              *)
THEOREM StreamIsContinuous == Spec => []InOrder
<1>1. IInv => InOrder
  BY DEF IInv, SessionsOK, SessionOK, SaidOK, InOrder
<1>2. QED
  BY <1>1, InvariantHolds, PTL

(* The flag of _drop_provisional tells the truth about the last line, so   *)
(* that what is popped is speech in progress.                              *)
THEOREM OnlySpeechInProgressIsLast == Spec => []ProvisionalIsLast
<1>1. IInv => ProvisionalIsLast
  BY DEF IInv, SessionsOK, SessionOK, LinesOK, ProvisionalIsLast
<1>2. QED
  BY <1>1, InvariantHolds, PTL

(* The captions file is every final line of every session that wrote it,   *)
(* in the order they wrote, however many sessions a recording needed.      *)
THEOREM TranscriptIsComplete == Spec => []FileIsComplete
<1>1. IInv => FileIsComplete
  BY DEF IInv, FileTypes, FileOK, FileIsComplete, Parts
<1>2. QED
  BY <1>1, InvariantHolds, PTL

(* No step of the manager, of an engine, of the decoder, of the disk or a  *)
(* crash takes back a final line or changes it, but for the windows of a   *)
(* Whisper session that listens.                                           *)
THEOREM LinesAreKept == Spec => FinalLinesStay
<1>1. IInv /\ [Next]_vars =>
          [\A s \in Sessions : \A i \in DOMAIN session[s].lines :
               IsFinal(session[s].lines[i]) =>
                   \/ i \in DOMAIN session'[s].lines /\ session'[s].lines[i] = session[s].lines[i]
                   \/ provider = "whisper" /\ session[s].run = "listening"]_vars
  BY NextOK DEF AllKeepLines, KeepsLines, LinesStay
<1>2. QED
  BY <1>1, InvariantHolds, PTL DEF Spec, FinalLinesStay
=============================================================================
