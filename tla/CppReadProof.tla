---------------------------- MODULE CppReadProof ----------------------------
(***************************************************************************)
(* Theorems about CppRead, for every catalogue of messages, any number of  *)
(* them on the connection, and wherever the network cuts them.             *)
(*                                                                         *)
(* They rest on the layout of the messages: a read function that is given  *)
(* the bytes of its message, and nothing else, takes all of them, and      *)
(* compares _size with the size in the header only when _size counts the   *)
(* bytes of the body that it took so far.  Path gives the path of a read   *)
(* function on one message: for each step that it reaches, the values of   *)
(* its variables there.  TLC computes the paths and checks                 *)
(* LayoutAssumption on the messages of the libraries.  What the theorems   *)
(* add is the connection: reads that start where the last one ended, wait  *)
(* anywhere for bytes, and have those of the next messages before them.    *)
(* How far a read of decompressed data goes does not depend on the         *)
(* connection, so that InflatedInBounds is left to TLC.                    *)
(***************************************************************************)
EXTENDS CppRead, TLAPS

CONSTANT Path(_)   \* Path(m)[k]: where the read function of m is before step k

Points ==
  [offset : Nat, tally : Nat, taken : Nat, inflated : BOOLEAN, length : Nat, m_index : Nat]

\* Behind the header
Start(m) ==
  [offset |-> m.header, tally |-> 0, taken |-> 0, inflated |-> FALSE, length |-> 0, m_index |-> 0]

\* The size in the header is that of the message.
SizeIsRight(m) ==
  /\ m.header = m.uncounted + m.opcode
  /\ m.sizeField = m.written - m.uncounted

\* Enough compressed data were taken for the data there were.
Inflatable(s, p) == p.taken + 4 >= s.bytes + 11

\* The step compares _size with body_size.
LooksAtSize(s) == s.kind \in {"test", "return at end", "take rest"}

\* What a step needs of the point where it is reached
Sound(m, s, p) ==
  /\ LooksAtSize(s) =>
       SizeIsRight(m) /\ p.tally = p.offset - m.header
  /\ s.kind = "take" => SizeIsRight(m) /\ s.bytes <= m.written - m.header
  /\ s.kind = "inflate member" /\ ~Inflatable(s, p) => p.offset = m.written

\* Where a step leads to
After(m, s, p) ==
  CASE s.kind = "run" /\ ~p.inflated -> [p EXCEPT !.offset = @ + s.bytes, !.tally = @ + s.tally]
    [] s.kind = "run" /\ p.inflated -> [p EXCEPT !.m_index = @ + s.bytes, !.tally = @ + s.tally]
    [] s.kind = "take" ->
         LET n == m.written - m.header - s.bytes
         IN [p EXCEPT !.offset = @ + n, !.taken = n]
    [] s.kind = "take rest" -> [p EXCEPT !.offset = m.written, !.taken = m.written - p.offset]
    [] s.kind \in {"inflate", "inflate member"} ->
         [p EXCEPT !.inflated = TRUE, !.length = IF Inflatable(s, p) THEN s.bytes ELSE 0, !.m_index = 0]
    [] OTHER -> p

\* The steps of the read function that it leaves out after a step
Skipped(m, s, p) ==
  IF \/ s.kind = "test" /\ p.offset = m.written
     \/ s.kind = "end" /\ p.m_index >= p.length
  THEN s.skip ELSE 0

\* The step returns the object.
Ends(m, s, p) ==
  \/ s.kind = "return at end" /\ p.offset = m.written
  \/ s.kind = "inflate member" /\ ~Inflatable(s, p)

Behind(m) == Len(m.read) + 1

Layout(m, path) ==
  /\ DOMAIN path \subseteq 1..Behind(m)
  /\ 1 \in DOMAIN path /\ path[1] = Start(m)
  /\ \A k \in DOMAIN path :
       /\ path[k] \in Points
       /\ path[k].offset <= m.written
       /\ k = Behind(m) => path[k].offset = m.written
       /\ k # Behind(m) =>
            LET s == m.read[k]
                next == k + 1 + Skipped(m, s, path[k])
            IN /\ Sound(m, s, path[k])
               /\ ~Ends(m, s, path[k]) => next \in DOMAIN path /\ path[next] = After(m, s, path[k])

ASSUME LayoutAssumption ==
  \A group \in DOMAIN Catalogue : \A name \in DOMAIN Catalogue[group] :
    \A wire \in DOMAIN Catalogue[group][name] :
      Layout(Catalogue[group][name][wire], Path(Catalogue[group][name][wire]))

-----------------------------------------------------------------------------
(***************************************************************************)
(* The inductive invariant                                                 *)
(***************************************************************************)

\* message is one of the catalogue's.
Chosen ==
  /\ message[1] \in DOMAIN Catalogue
  /\ message[2] \in DOMAIN Catalogue[message[1]]
  /\ message[3] \in DOMAIN Catalogue[message[1]][message[2]]

\* Where the read function is, by the layout
point == Path(format)[at]
\* and where its step leads
ahead == After(format, step, point)

\* A read under way is on the path of the message, begun where the last
\* message ended.
OnPath ==
  /\ at \in DOMAIN Path(format)
  /\ position = returned * written + point.offset
  /\ tally = point.tally /\ taken = point.taken
  /\ inflated = point.inflated /\ length = point.length /\ m_index = point.m_index
  /\ body_size = Minus(format.sizeField, format.opcode)

ReadInv ==
  /\ TypeOK
  /\ Chosen
  /\ pc = "idle" => position = returned * written
  /\ pc = "reading" => OnPath

-----------------------------------------------------------------------------
(***************************************************************************)
(* Whole numbers of messages                                               *)
(***************************************************************************)

\* The bytes of some messages are a natural number, and one more message has
\* its own bytes more.
LEMMA MessagesMore ==
  \A n, bytes \in Nat : n * bytes \in Nat /\ (n + 1) * bytes = n * bytes + bytes
OBVIOUS

\* More messages never have fewer bytes.
LEMMA MessagesMonotone ==
  ASSUME NEW a \in Nat, NEW b \in Nat, NEW bytes \in Nat, a <= b
  PROVE  a * bytes <= b * bytes
<1> DEFINE more == b - a
<1>1. more \in Nat /\ b = a + more
  OBVIOUS
<1>2. b * bytes = a * bytes + more * bytes
  BY <1>1
<1>3. more * bytes \in Nat /\ a * bytes \in Nat
  BY <1>1, MessagesMore
<1> HIDE DEF more
<1> QED
  BY <1>2, <1>3

\* The messages whose bytes are there are as many as have been sent at most.
LEMMA WholeMessages ==
  ASSUME NEW a \in Nat, NEW b \in Nat, NEW bytes \in Nat \ {0},
         a * bytes <= b * bytes
  PROVE  a <= b
<1> SUFFICES ASSUME a >= b + 1
             PROVE  FALSE
  OBVIOUS
<1>1. (b + 1) * bytes <= a * bytes
  BY MessagesMonotone
<1>2. (b + 1) * bytes = b * bytes + bytes /\ b * bytes \in Nat /\ a * bytes \in Nat
  BY MessagesMore
<1> QED
  BY <1>1, <1>2

-----------------------------------------------------------------------------
(***************************************************************************)
(* The message                                                             *)
(***************************************************************************)

\* The message is of the types CppFormat gives it, and has a layout.
LEMMA FormatType ==
  ASSUME Chosen
  PROVE  /\ format \in Records
         /\ Layout(format, Path(format))
BY CatalogueAssumption, LayoutAssumption DEF Chosen, format

\* What the layout says of the step under way
LEMMA StepType ==
  ASSUME ReadInv, pc = "reading"
  PROVE  /\ format \in Records /\ written \in Nat \ {0}
         /\ Len(format.read) \in Nat
         /\ at \in 1..Behind(format) /\ at \in DOMAIN Path(format)
         /\ point \in Points /\ point.offset <= written
         /\ at = Behind(format) => point.offset = written
         /\ at <= Len(format.read) => step \in Steps /\ Sound(format, step, point)
<1>1. format \in Records /\ Layout(format, Path(format)) /\ at \in DOMAIN Path(format)
  BY FormatType DEF ReadInv, OnPath
<1>2. format.read \in Seq(Steps) /\ Len(format.read) \in Nat /\ written \in Nat \ {0}
  BY <1>1 DEF Records, written
<1>3. at \in 1..Behind(format)
  BY <1>1 DEF Layout
<1>4. /\ point \in Points /\ point.offset <= written
      /\ at = Behind(format) => point.offset = written
  BY <1>1 DEF Layout, point, written
<1>5. ASSUME at <= Len(format.read)
      PROVE  step \in Steps /\ Sound(format, step, point)
  <2>1. at \in 1..Len(format.read) /\ at # Behind(format)
    BY <1>2, <1>3, <1>5 DEF Behind
  <2>2. step \in Steps
    BY <1>2, <2>1 DEF step
  <2>3. Sound(format, step, point)
    BY <1>1, <2>1 DEF Layout, point, step
  <2> QED
    BY <2>2, <2>3
<1> QED
  BY <1>1, <1>2, <1>3, <1>4, <1>5

\* A step that does what the layout says, with bytes that have arrived, stays
\* on the path.
LEMMA StaysOnPath ==
  ASSUME ReadInv, pc = "reading", at <= Len(format.read), ~Ends(format, step, point),
         UNCHANGED <<connection, returned, pc, body_size>>,
         at' = at + 1 + Skipped(format, step, point),
         position' = position + (ahead.offset - point.offset), position' <= arrived,
         tally' = ahead.tally, taken' = ahead.taken,
         inflated' = ahead.inflated, length' = ahead.length, m_index' = ahead.m_index
  PROVE  ReadInv'
<1>1. /\ format \in Records /\ Layout(format, Path(format))
      /\ UNCHANGED <<message, format, written>>
  BY FormatType DEF ReadInv, connection, format, written
<1>2. /\ at \in DOMAIN Path(format) /\ at # Behind(format)
      /\ point \in Points /\ written \in Nat \ {0}
      /\ Len(format.read) \in Nat
  BY StepType DEF Behind
<1>3. at' \in DOMAIN Path(format) /\ Path(format)[at'] = ahead
  BY <1>1, <1>2 DEF Layout, point, step, ahead
<1>4. ahead \in Points /\ at' \in 1..Behind(format)
  BY <1>1, <1>3 DEF Layout
<1>5. point' = ahead
  BY <1>1, <1>3 DEF point
<1>6. /\ position = returned * written + point.offset
      /\ returned * written \in Nat
      /\ position' = returned * written + ahead.offset
  <2>1. position = returned * written + point.offset
    BY DEF ReadInv, OnPath
  <2>2. returned * written \in Nat
    BY <1>2, MessagesMore DEF ReadInv, TypeOK
  <2>3. point.offset \in Nat /\ ahead.offset \in Nat
    BY <1>2, <1>4 DEF Points
  <2> QED
    BY <2>1, <2>2, <2>3
<1>7. TypeOK'
  <2>1. /\ ahead.tally \in Nat /\ ahead.taken \in Nat /\ ahead.inflated \in BOOLEAN
        /\ ahead.length \in Nat /\ ahead.m_index \in Nat /\ ahead.offset \in Nat
    BY <1>4 DEF Points
  <2>2. position' \in 0..arrived
    BY <1>6, <2>1 DEF ReadInv, TypeOK
  <2> QED
    BY <1>1, <1>4, <2>1, <2>2 DEF ReadInv, TypeOK, Behind, connection
<1>8. OnPath'
  BY <1>1, <1>3, <1>5, <1>6 DEF ReadInv, OnPath, connection
<1>9. Chosen'
  BY <1>1 DEF ReadInv, Chosen
<1> QED
  BY <1>4, <1>7, <1>8, <1>9 DEF ReadInv

\* A read function that returns at the end of its message leaves the
\* connection at the start of the next.
LEMMA EndsWithMessage ==
  ASSUME ReadInv, pc = "reading", point.offset = written, ReturnObject,
         UNCHANGED <<connection, position, at, call, byte_reader>>
  PROVE  ReadInv'
<1>1. /\ UNCHANGED <<message, format, written>>
      /\ written \in Nat \ {0}
  BY StepType DEF connection, format, written
<1>2. position = (returned + 1) * written
  BY <1>1, MessagesMore DEF ReadInv, TypeOK, OnPath
<1>3. returned + 1 <= sent
  <2>1. (returned + 1) * written <= sent * written
    BY <1>1, <1>2, MessagesMore DEF ReadInv, TypeOK
  <2> QED
    BY <1>1, <2>1, WholeMessages DEF ReadInv, TypeOK
<1>4. TypeOK'
  BY <1>1, <1>3 DEF ReadInv, TypeOK, ReturnObject, connection, call, byte_reader
<1>5. Chosen'
  BY <1>1 DEF ReadInv, Chosen
<1> QED
  BY <1>1, <1>2, <1>4, <1>5 DEF ReadInv, ReturnObject, byte_reader

\* The size of the body is that of the bytes behind the header.
LEMMA BodySize ==
  ASSUME ReadInv, pc = "reading", SizeIsRight(format), format.header <= written
  PROVE  body_size = written - format.header
<1>1. /\ format \in Records
      /\ body_size = Minus(format.sizeField, format.opcode)
  BY StepType DEF ReadInv, OnPath
<1>2. /\ format.sizeField \in Nat /\ format.opcode \in Nat /\ format.uncounted \in Nat
      /\ format.header \in Nat /\ format.written \in Nat
  BY <1>1 DEF Records
<1>3. /\ format.sizeField - format.opcode = written - format.header
      /\ format.sizeField >= format.opcode
  BY <1>2 DEF SizeIsRight, written
<1> QED
  BY <1>1, <1>3 DEF Minus

\* Where a step looks at _size, what is left of the body is what is left of
\* the message.
LEMMA LeftOfBody ==
  ASSUME ReadInv, pc = "reading", at <= Len(format.read),
         LooksAtSize(step)
  PROVE  /\ body_size \in Nat /\ tally \in Nat
         /\ tally = point.offset - format.header
         /\ body_size - tally = written - point.offset
<1>1. SizeIsRight(format) /\ tally = point.offset - format.header
  BY StepType DEF Sound, ReadInv, OnPath
<1>2. body_size \in Nat /\ tally \in Nat
  BY DEF ReadInv, TypeOK
<1>3. point.offset \in Nat /\ format.header \in Nat /\ written \in Nat /\ point.offset <= written
  BY StepType DEF Points, Records
<1> DEFINE offset == point.offset
           size == format.header
<1>4. tally = offset - size /\ offset \in Nat /\ size \in Nat /\ offset <= written
  BY <1>1, <1>3
<1>5. size <= written
  <2> HIDE DEF offset, size
  <2> QED
    BY <1>2, <1>3, <1>4
<1>6. body_size = written - size
  BY <1>1, <1>5, BodySize
<1>7. body_size - tally = written - offset
  <2> HIDE DEF offset, size
  <2> QED
    BY <1>3, <1>4, <1>6
<1> QED
  BY <1>1, <1>2, <1>7

-----------------------------------------------------------------------------
(***************************************************************************)
(* Every step keeps the invariant                                          *)
(***************************************************************************)

\* The first bytes of a message are its header.
LEMMA HeaderInv == ReadInv /\ ReadHeader => ReadInv'
<1> SUFFICES ASSUME ReadInv, ReadHeader
             PROVE  ReadInv'
  OBVIOUS
<1> USE DEF ReadHeader
<1>1. /\ format \in Records /\ Layout(format, Path(format))
      /\ UNCHANGED <<message, format, written, sent, arrived>>
  BY FormatType DEF ReadInv, connection, format, written
<1>2. /\ format.sizeField \in Nat /\ format.opcode \in Nat
      /\ header \in Nat /\ written \in Nat /\ Len(format.read) \in Nat
  BY <1>1 DEF Records, header, written
<1>3. /\ 1 \in DOMAIN Path(format) /\ Path(format)[1] = Start(format)
  BY <1>1 DEF Layout
<1>4. point' = Start(format)
  BY <1>1, <1>3 DEF point
<1>5. body_size' \in Nat
  BY <1>2 DEF Minus, Wrapped
<1>6. position' \in 0..arrived /\ position' = returned * written + header
  BY <1>2 DEF ReadInv, TypeOK, Available
<1>7. TypeOK'
  <2>1. 1 \in 1..(Len(format.read) + 1)
    BY <1>2
  <2> QED
    BY <1>1, <1>5, <1>6, <2>1 DEF ReadInv, TypeOK
<1>8. OnPath'
  BY <1>1, <1>3, <1>4, <1>6 DEF OnPath, Start, header
<1>9. Chosen'
  BY <1>1 DEF ReadInv, Chosen
<1> QED
  BY <1>7, <1>8, <1>9 DEF ReadInv

\* A step of a read function
LEMMA StepInv ==
  ReadInv /\ (\/ Pull \/ PullInflated \/ TestSize \/ TestEnd \/ CheckRest
              \/ TakeFromBody \/ TakeRemainder \/ InflateBody \/ InflateArray \/ Return)
    => ReadInv'
<1> SUFFICES ASSUME ReadInv, pc = "reading",
                    \/ Pull \/ PullInflated \/ TestSize \/ TestEnd \/ CheckRest
                    \/ TakeFromBody \/ TakeRemainder \/ InflateBody \/ InflateArray \/ Return
             PROVE  ReadInv'
  BY DEF Pull, PullInflated, TestSize, TestEnd, CheckRest, TakeFromBody, TakeRemainder,
         InflateBody, InflateArray, Return, Reading
<1> USE DEF Reading, Go, call, byte_reader
<1>a. /\ at \in 1..Behind(format) /\ Len(format.read) \in Nat
      /\ point \in Points /\ point.offset <= written /\ written \in Nat
      /\ tally = point.tally /\ taken = point.taken
      /\ inflated = point.inflated /\ length = point.length /\ m_index = point.m_index
  BY StepType DEF ReadInv, OnPath
<1>b. position \in Nat /\ arrived \in Nat /\ position <= arrived
  BY StepType, MessagesMore DEF ReadInv, TypeOK
<1>c. at <= Len(format.read) => step \in Steps /\ Sound(format, step, point)
  BY StepType
<1>d. /\ point.offset \in Nat /\ point.m_index \in Nat /\ point.length \in Nat
      /\ at \in Nat
  BY <1>a DEF Points, Behind
<1>e. at <= Len(format.read) => step.bytes \in Nat /\ step.skip \in Nat
  BY <1>c DEF Steps
<1>1. CASE Pull
  <2> USE <1>1 DEF Pull
  <2>1. ahead = [point EXCEPT !.offset = @ + step.bytes, !.tally = @ + step.tally]
    BY <1>a DEF ahead, After
  <2>3. ~Ends(format, step, point) /\ Skipped(format, step, point) = 0
    BY DEF Ends, Skipped
  <2>4. position' = position + (ahead.offset - point.offset) /\ position' <= arrived
    BY <1>b, <1>d, <1>e, <2>1 DEF Points, Available
  <2> QED
    BY <1>a, <2>1, <2>3, <2>4, StaysOnPath DEF Points
<1>2. CASE PullInflated
  <2> USE <1>2 DEF PullInflated
  <2>1. ahead = [point EXCEPT !.m_index = @ + step.bytes, !.tally = @ + step.tally]
    BY <1>a DEF ahead, After
  <2>2. ~Ends(format, step, point) /\ Skipped(format, step, point) = 0
    BY DEF Ends, Skipped
  <2>3. position' = position + (ahead.offset - point.offset) /\ position' <= arrived
    BY <1>b, <1>d, <2>1 DEF Points
  <2> QED
    BY <1>a, <2>1, <2>2, <2>3, StaysOnPath DEF Points
<1>3. CASE TestSize
  <2> USE <1>3 DEF TestSize
  <2>1. ahead = point
    BY DEF ahead, After
  <2>2. tally < body_size <=> point.offset # written
    <3>1. LooksAtSize(step)
      BY DEF LooksAtSize
    <3> QED
      BY <1>a, <1>d, <3>1, LeftOfBody
  <2>3. ~Ends(format, step, point)
    BY DEF Ends
  <2>5. Skipped(format, step, point) = IF tally < body_size THEN 0 ELSE step.skip
    BY <2>2 DEF Skipped, written
  <2>6. at' = at + 1 + Skipped(format, step, point)
    BY <1>d, <1>e, <2>5
  <2>7. position' = position + (ahead.offset - point.offset) /\ position' <= arrived
    BY <1>b, <1>d, <2>1
  <2> QED
    BY <1>a, <2>1, <2>3, <2>6, <2>7, StaysOnPath
<1>4. CASE TestEnd
  <2> USE <1>4 DEF TestEnd
  <2>1. ahead = point
    BY DEF ahead, After
  <2>2. ~Ends(format, step, point)
    BY DEF Ends
  <2>4. Skipped(format, step, point) = IF m_index < length THEN 0 ELSE step.skip
    BY <1>a, <1>d DEF Skipped
  <2>5. at' = at + 1 + Skipped(format, step, point)
    BY <1>d, <1>e, <2>4
  <2>6. position' = position + (ahead.offset - point.offset) /\ position' <= arrived
    BY <1>b, <1>d, <2>1
  <2> QED
    BY <1>a, <2>1, <2>2, <2>5, <2>6, StaysOnPath
<1>5. CASE CheckRest
  <2>1. step.kind = "return at end"
    BY <1>5 DEF CheckRest
  <2>c. at <= Len(format.read)
    BY <1>5 DEF CheckRest
  <2>a. position' = position
    BY <1>5 DEF CheckRest
  <2>b. UNCHANGED <<connection, body_size, tally, taken, inflated, length, m_index>>
    BY <1>5 DEF CheckRest
  <2>2. body_size = tally <=> point.offset = written
    <3>1. LooksAtSize(step)
      BY <2>1 DEF LooksAtSize
    <3>2. /\ body_size \in Nat /\ tally \in Nat
          /\ body_size - tally = written - point.offset
      BY <2>c, <3>1, LeftOfBody
    <3> QED
      BY <1>a, <1>d, <3>2
  <2>3. CASE body_size = tally
    <3>1. ReturnObject /\ UNCHANGED at
      BY <1>5, <2>3 DEF CheckRest
    <3> QED
      BY <2>a, <2>b, <2>2, <2>3, <3>1, EndsWithMessage
  <2>4. CASE body_size # tally
    <3>0. at' = at + 1 /\ UNCHANGED <<returned, pc>>
      BY <1>5, <2>4 DEF CheckRest
    <3>1. ahead = point
      BY <2>1 DEF ahead, After
    <3>2. ~Ends(format, step, point) /\ Skipped(format, step, point) = 0
      BY <2>1, <2>2, <2>4 DEF Ends, Skipped, written
    <3>3. position' = position + (ahead.offset - point.offset) /\ position' <= arrived
      BY <1>b, <1>d, <2>a, <3>1
    <3> QED
      BY <1>a, <1>d, <2>a, <2>b, <2>c, <3>0, <3>1, <3>2, <3>3, StaysOnPath
  <2> QED
    BY <2>3, <2>4
<1>6. CASE TakeFromBody
  <2> DEFINE n == written - format.header - step.bytes
  <2> USE <1>6 DEF TakeFromBody, Compressed
  <2>1. ahead = [point EXCEPT !.offset = @ + n, !.taken = n]
    BY <1>a DEF ahead, After, written
  <2>2. /\ SizeIsRight(format) /\ step.bytes <= written - format.header
        /\ step.bytes \in Nat /\ format.header \in Nat
    BY <1>c, StepType DEF Sound, Steps, Records, written
  <2>3. Minus(body_size, step.bytes) = n /\ n \in Nat
    BY <1>a, <2>2, BodySize DEF Minus
  <2>4. ~Ends(format, step, point) /\ Skipped(format, step, point) = 0
    BY DEF Ends, Skipped
  <2> HIDE DEF n
  <2>5. position' = position + (ahead.offset - point.offset) /\ position' <= arrived
    BY <1>a, <1>b, <2>1, <2>3 DEF Points, Available
  <2> QED
    BY <1>a, <2>1, <2>3, <2>4, <2>5, StaysOnPath DEF Points
<1>7. CASE TakeRemainder
  <2> DEFINE n == written - point.offset
  <2>1. step.kind = "take rest"
    BY <1>7 DEF TakeRemainder
  <2>a. at <= Len(format.read) /\ Compressed(Minus(body_size, tally))
    BY <1>7 DEF TakeRemainder
  <2>2. ahead = [point EXCEPT !.offset = written, !.taken = n]
    BY <1>a, <2>1 DEF ahead, After, written
  <2>3. Minus(body_size, tally) = n /\ n \in Nat
    <3>1. LooksAtSize(step)
      BY <2>1 DEF LooksAtSize
    <3>2. /\ body_size \in Nat /\ tally \in Nat
          /\ body_size - tally = written - point.offset
      BY <2>a, <3>1, LeftOfBody
    <3> QED
      BY <1>a, <1>d, <3>2 DEF Minus
  <2>4. ~Ends(format, step, point) /\ Skipped(format, step, point) = 0
    BY <2>1 DEF Ends, Skipped
  <2>5. position' = position + (ahead.offset - point.offset) /\ position' <= arrived
    BY <1>a, <1>b, <1>d, <2>a, <2>2, <2>3 DEF Points, Available, Compressed
  <2> QED
    BY <1>a, <1>d, <2>a, <2>2, <2>3, <2>4, <2>5, StaysOnPath DEF Points, Compressed
<1>8. CASE InflateBody
  <2> USE <1>8 DEF InflateBody
  <2>1. ahead = [point EXCEPT !.inflated = TRUE, !.m_index = 0,
                              !.length = IF Decompresses THEN step.bytes ELSE 0]
    BY <1>a DEF ahead, After, Decompresses, Inflatable
  <2>2. ~Ends(format, step, point) /\ Skipped(format, step, point) = 0
    BY DEF Ends, Skipped
  <2>3. position' = position + (ahead.offset - point.offset) /\ position' <= arrived
    BY <1>b, <1>d, <2>1 DEF Points
  <2> QED
    BY <1>a, <2>1, <2>2, <2>3, StaysOnPath DEF Points, OnDecompressed
<1>9. CASE InflateArray
  <2>1. step.kind = "inflate member"
    BY <1>9 DEF InflateArray
  <2>c. at <= Len(format.read)
    BY <1>9 DEF InflateArray
  <2>a. position' = position
    BY <1>9 DEF InflateArray
  <2>b. UNCHANGED <<connection, body_size, tally, taken>>
    BY <1>9 DEF InflateArray
  <2>2. Decompresses <=> Inflatable(step, point)
    BY <1>a DEF Decompresses, Inflatable
  <2>3. CASE Decompresses
    <3>0. OnDecompressed(step.bytes) /\ UNCHANGED <<returned, pc>>
      BY <1>9, <2>3 DEF InflateArray
    <3>1. ahead = [point EXCEPT !.inflated = TRUE, !.m_index = 0, !.length = step.bytes]
      BY <1>a, <2>1, <2>2, <2>3 DEF ahead, After
    <3>2. ~Ends(format, step, point) /\ Skipped(format, step, point) = 0
      BY <2>1, <2>2, <2>3 DEF Ends, Skipped
    <3>3. position' = position + (ahead.offset - point.offset) /\ position' <= arrived
      BY <1>b, <1>d, <2>a, <3>1 DEF Points
    <3> QED
      BY <1>a, <1>d, <2>a, <2>b, <2>c, <3>0, <3>1, <3>2, <3>3, StaysOnPath DEF Points, OnDecompressed
  <2>4. CASE ~Decompresses
    <3>0. ReturnObject /\ UNCHANGED <<at, inflated, length, m_index>>
      BY <1>9, <2>4 DEF InflateArray
    <3>1. point.offset = written
      BY <1>c, <2>1, <2>c, <2>2, <2>4 DEF Sound, written
    <3> QED
      BY <2>a, <2>b, <3>0, <3>1, EndsWithMessage
  <2> QED
    BY <2>3, <2>4
<1>10. CASE Return
  <2>1. at = Behind(format)
    BY <1>10, <1>a DEF Return, Behind
  <2>2. point.offset = written
    BY <2>1, StepType
  <2> QED
    BY <1>10, <2>2, EndsWithMessage DEF Return
<1> QED
  BY <1>1, <1>2, <1>3, <1>4, <1>5, <1>6, <1>7, <1>8, <1>9, <1>10

\* More messages and more bytes may come at any time.
LEMMA PeerInv == ReadInv /\ (Send \/ Deliver) => ReadInv'
<1> SUFFICES ASSUME ReadInv, Send \/ Deliver
             PROVE  ReadInv'
  OBVIOUS
<1>1. /\ format \in Records
      /\ UNCHANGED <<message, format, written, point, returned, position, pc, at>>
      /\ UNCHANGED <<call, byte_reader>>
  BY FormatType DEF ReadInv, Send, Deliver, format, written, point
<1>2. written \in Nat \ {0} /\ sent \in Nat /\ sent * written \in Nat
  <2>1. written \in Nat \ {0} /\ sent \in Nat
    BY <1>1 DEF Records, written, ReadInv, TypeOK
  <2> QED
    BY <2>1, MessagesMore
<1>3. TypeOK'
  <2>1. CASE Send
    <3>1. sent' = sent + 1 /\ sent' \in 0..Messages /\ arrived' = arrived
      BY <2>1, MessagesAssumption DEF Send, ReadInv, TypeOK
    <3>2. sent' * written = sent * written + written
      BY <1>2, <3>1, MessagesMore
    <3> QED
      BY <1>1, <1>2, <3>1, <3>2 DEF ReadInv, TypeOK, call, byte_reader
  <2>2. CASE Deliver
    <3>1. PICK n \in Cuts : arrived < n /\ n <= sent * written /\ arrived' = n
      BY <2>2 DEF Deliver
    <3>2. sent' = sent /\ arrived' \in 0..(sent * written) /\ position <= arrived'
      <4>1. n \in Int
        BY <1>2, <3>1, MessagesMore, MessagesAssumption DEF Cuts
      <4> QED
        BY <1>2, <2>2, <3>1, <4>1 DEF ReadInv, TypeOK, Deliver
    <3> QED
      BY <1>1, <1>2, <3>2 DEF ReadInv, TypeOK, call, byte_reader
  <2> QED
    BY <2>1, <2>2
<1>4. Chosen'
  BY <1>1 DEF ReadInv, Chosen
<1>5. pc' = "reading" => OnPath'
  BY <1>1 DEF ReadInv, OnPath, call, byte_reader
<1> QED
  BY <1>1, <1>3, <1>4, <1>5 DEF ReadInv, byte_reader

-----------------------------------------------------------------------------
(***************************************************************************)
(* Theorems                                                                *)
(***************************************************************************)

\* For every catalogue with a layout: between two calls the connection is at
\* the start of a message, and a read function that waits in the middle of
\* one is where it would be if all of the message, and nothing else, had
\* arrived at once.
THEOREM ReadsOnPath == Spec => []ReadInv
<1>1. Init => ReadInv
  <2> SUFFICES ASSUME Init
               PROVE  ReadInv
    OBVIOUS
  <2>1. Chosen
    BY DEF Chosen, Init
  <2>2. format \in Records
    BY <2>1, FormatType
  <2>3. written \in Nat /\ Len(format.read) \in Nat
    BY <2>2 DEF Records, written
  <2>4. 0 * written = 0
    BY <2>3
  <2>5. /\ sent = 0 /\ arrived = 0 /\ returned = 0 /\ position = 0 /\ pc = "idle" /\ at = 1
        /\ body_size = 0 /\ tally = 0 /\ taken = 0 /\ length = 0 /\ m_index = 0
    BY DEF Init
  <2>6. inflated = FALSE
    BY DEF Init
  <2>7. TypeOK
    <3>1. sent \in 0..Messages /\ returned \in 0..sent
      BY <2>5, MessagesAssumption
    <3>2. arrived \in 0..(sent * written) /\ position \in 0..arrived
      BY <2>4, <2>5
    <3>3. at \in 1..(Len(format.read) + 1)
      BY <2>3, <2>5
    <3> QED
      BY <2>5, <2>6, <3>1, <3>2, <3>3 DEF TypeOK
  <2> QED
    BY <2>1, <2>4, <2>5, <2>7 DEF ReadInv
<1>2. ReadInv /\ [Next]_vars => ReadInv'
  <2> SUFFICES ASSUME ReadInv, [Next]_vars
               PROVE  ReadInv'
    OBVIOUS
  <2>1. CASE Library
    BY <2>1, HeaderInv, StepInv DEF Library
  <2>2. CASE Send \/ Deliver
    BY <2>2, PeerInv
  <2>3. CASE UNCHANGED vars
    <3>1. /\ UNCHANGED <<message, sent, arrived, returned, position, pc, at>>
          /\ UNCHANGED <<body_size, tally, taken, inflated, length, m_index>>
      BY <2>3 DEF vars, connection, call, byte_reader
    <3>2. UNCHANGED <<format, written, point>>
      BY <3>1 DEF format, written, point
    <3> QED
      BY <3>1, <3>2 DEF ReadInv, TypeOK, Chosen, OnPath
  <2> QED
    BY <2>1, <2>2, <2>3 DEF Next
<1> QED
  BY <1>1, <1>2, PTL DEF Spec

\* The variables keep their types, and no call reads bytes that have not been
\* sent.
THEOREM TypeCorrect == Spec => []TypeOK
<1>1. ReadInv => TypeOK
  BY DEF ReadInv
<1> QED
  BY <1>1, ReadsOnPath, PTL

\* No read takes a byte of the next message, or leaves one of its own,
\* however many messages have been sent ahead and wherever the network cuts
\* them.
THEOREM ReadsWhole == Spec => []ReadsWholeMessages
<1>1. ReadInv => ReadsWholeMessages
  <2> SUFFICES ASSUME ReadInv
               PROVE  position <= (returned + 1) * written
    BY DEF ReadInv, ReadsWholeMessages
  <2>1. returned \in Nat /\ pc \in {"idle", "reading"}
    BY MessagesAssumption DEF ReadInv, TypeOK
  <2>2. written \in Nat
    BY FormatType DEF ReadInv, Records, written
  <2>3. returned * written \in Nat /\ (returned + 1) * written = returned * written + written
    BY <2>1, <2>2, MessagesMore
  <2>4. CASE pc = "idle"
    BY <2>2, <2>3, <2>4 DEF ReadInv
  <2>5. CASE pc = "reading"
    <3>1. point.offset \in Nat /\ point.offset <= written
      BY <2>5, StepType DEF Points
    <3>2. position = returned * written + point.offset
      BY <2>5 DEF ReadInv, OnPath
    <3> QED
      BY <2>2, <2>3, <3>1, <3>2
  <2> QED
    BY <2>1, <2>4, <2>5
<1> QED
  BY <1>1, ReadsOnPath, PTL

\* _size is the number of bytes of the body that have been read whenever it is
\* compared with the size in the header.
THEOREM CountsBody == Spec => []CountsWhatItReads
<1>1. ASSUME ReadInv, pc = "reading", at <= Len(format.read), LooksAtSize(step)
      PROVE  position = returned * written + header + tally
  <2>1. point.offset \in Nat /\ header \in Nat /\ written \in Nat
    BY <1>1, StepType DEF Points, Records, header
  <2>2. returned \in Nat
    BY <1>1, MessagesAssumption DEF ReadInv, TypeOK
  <2>3. returned * written \in Nat
    BY <2>1, <2>2, MessagesMore
  <2>4. tally = point.offset - header
    BY <1>1, LeftOfBody DEF header
  <2>5. position = returned * written + point.offset
    BY <1>1 DEF ReadInv, OnPath
  <2> QED
    BY <2>1, <2>3, <2>4, <2>5
<1>2. (\E kind \in {"test", "return at end", "take rest"} : Reading(kind))
        => pc = "reading" /\ at <= Len(format.read) /\ LooksAtSize(step)
  BY DEF Reading, LooksAtSize
<1>3. ReadInv => CountsWhatItReads
  BY <1>1, <1>2 DEF CountsWhatItReads
<1> QED
  BY <1>3, ReadsOnPath, PTL

\* A step that takes bytes, if not of decompressed data, from the connection
Takes(s) == s.kind \in {"run", "take", "take rest"}

\* The bytes a step awaits take it along the path, and the path stays in the
\* message.
LEMMA AwaitsWithinMessage ==
  ASSUME ReadInv, pc = "reading", at <= Len(format.read), Takes(step)
  PROVE  point.offset + Awaits <= written /\ Awaits \in Nat
<1> DEFINE offset == point.offset
<1>n. written \in Nat /\ offset \in Nat /\ offset <= written
  BY StepType DEF Points
<1>p. point \in Points
  BY StepType
<1>i. inflated = point.inflated
  BY DEF ReadInv, OnPath
<1>l. Len(format.read) \in Nat
  BY StepType
<1>c. at # Behind(format)
  BY <1>l DEF Behind
<1>d. /\ step \in Steps /\ Sound(format, step, point)
      /\ at \in DOMAIN Path(format)
  BY StepType
<1>e. ahead.offset <= written
  <2>1. Layout(format, Path(format))
    BY FormatType DEF ReadInv
  <2>2. ~Ends(format, step, point)
    BY DEF Ends, Takes
  <2>3. \E next \in DOMAIN Path(format) : Path(format)[next] = ahead
    BY <1>c, <1>d, <2>1, <2>2 DEF Layout, ahead, point, step
  <2> QED
    BY <2>1, <2>3 DEF Layout, written
<1>1. CASE step.kind = "run" /\ inflated
  <2>1. Awaits = 0
    BY <1>1 DEF Awaits, Reading
  <2> HIDE DEF offset
  <2>2. offset + Awaits <= written
    BY <1>n, <2>1
  <2> QED
    BY <2>1, <2>2 DEF offset
<1>2. CASE step.kind = "run" /\ ~inflated
  <2>1. Awaits = step.bytes
    BY <1>2 DEF Awaits, Reading
  <2>2. ahead = [point EXCEPT !.offset = @ + step.bytes, !.tally = @ + step.tally]
    BY <1>i, <1>2 DEF ahead, After
  <2>3. ahead.offset = offset + step.bytes
    BY <1>p, <2>2 DEF Points
  <2>4. step.bytes \in Nat
    BY <1>d DEF Steps
  <2> QED
    BY <1>e, <2>1, <2>3, <2>4
<1>3. CASE step.kind = "take"
  <2> DEFINE n == written - format.header - step.bytes
  <2>1. Awaits = Minus(body_size, step.bytes)
    BY <1>3 DEF Awaits, Reading
  <2>2. /\ SizeIsRight(format) /\ step.bytes <= written - format.header
        /\ step.bytes \in Nat /\ format.header \in Nat
    BY <1>d, <1>3, StepType DEF Sound, Steps, Records, written
  <2>3. body_size = written - format.header
    BY <1>n, <2>2, BodySize
  <2>4. Minus(body_size, step.bytes) = n /\ n \in Nat
    BY <1>n, <2>2, <2>3 DEF Minus
  <2>5. ahead = [point EXCEPT !.offset = @ + n, !.taken = n]
    BY <1>3 DEF ahead, After, written
  <2> HIDE DEF n
  <2>6. ahead.offset = offset + n
    BY <1>p, <2>5 DEF Points
  <2> QED
    BY <1>e, <2>1, <2>4, <2>6
<1>r. ASSUME LooksAtSize(step)
      PROVE  Minus(body_size, tally) = written - offset
  <2>1. body_size \in Nat /\ tally \in Nat /\ body_size - tally = written - offset
    BY <1>r, LeftOfBody
  <2>2. body_size >= tally
    <3> HIDE DEF offset
    <3> QED
      BY <1>n, <2>1
  <2>3. Minus(body_size, tally) = body_size - tally
    BY <2>2 DEF Minus
  <2> QED
    BY <2>1, <2>3
<1>4. CASE step.kind = "take rest"
  <2>1. Awaits = Minus(body_size, tally)
    BY <1>4 DEF Awaits, Reading
  <2>2. LooksAtSize(step)
    BY <1>4 DEF LooksAtSize
  <2>3. Awaits = written - offset
    BY <1>r, <2>1, <2>2
  <2> HIDE DEF offset
  <2>4. offset + Awaits <= written /\ Awaits \in Nat
    BY <1>n, <2>3
  <2> QED
    BY <2>4 DEF offset
<1> QED
  BY <1>1, <1>2, <1>3, <1>4 DEF Takes

\* A peer that has sent a message and waits for the answer is not waited for:
\* what a read function still wants, also where it subtracts what it has
\* counted from the size in the header, is part of the message it reads.
\* This is the safety part of EventuallyReturned.
THEOREM WaitsForNoOther == Spec => []WaitsForItsOwn
<1>1. ReadInv => WaitsForItsOwn
  <2> SUFFICES ASSUME ReadInv
               PROVE  position + Awaits <= (returned + 1) * written
    BY DEF WaitsForItsOwn
  <2>1. returned \in Nat /\ pc \in {"idle", "reading"}
    BY MessagesAssumption DEF ReadInv, TypeOK
  <2>2. format \in Records /\ Layout(format, Path(format))
    BY FormatType DEF ReadInv
  <2>3. written \in Nat /\ header \in Nat
    BY <2>2 DEF Records, written, header
  <2>4. returned * written \in Nat /\ (returned + 1) * written = returned * written + written
    BY <2>1, <2>3, MessagesMore
  <2>5. CASE pc = "idle"
    <3>1. Start(format).offset <= format.written
      BY <2>2 DEF Layout
    <3>2. header <= written
      BY <3>1 DEF Start, header, written
    <3>3. position = returned * written /\ Awaits = header
      BY <2>5 DEF ReadInv, Awaits
    <3> QED
      BY <2>3, <2>4, <3>2, <3>3
  <2>6. CASE pc = "reading"
    <3>1. point.offset \in Nat /\ point.offset <= written
      BY <2>6, StepType DEF Points
    <3>2. position = returned * written + point.offset
      BY <2>6 DEF ReadInv, OnPath
    <3>3. CASE at <= Len(format.read) /\ Takes(step)
      <4>1. point.offset + Awaits <= written /\ Awaits \in Nat
        BY <2>6, <3>3, AwaitsWithinMessage
      <4> QED
        BY <2>3, <2>4, <3>1, <3>2, <4>1
    <3>4. CASE ~(at <= Len(format.read) /\ Takes(step))
      <4>1. Awaits = 0
        BY <2>6, <3>4 DEF Awaits, Takes, Reading
      <4> QED
        BY <2>3, <2>4, <3>1, <3>2, <4>1
    <3> QED
      BY <3>3, <3>4
  <2> QED
    BY <2>1, <2>5, <2>6
<1> QED
  BY <1>1, ReadsOnPath, PTL
=============================================================================
