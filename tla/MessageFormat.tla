--------------------------- MODULE MessageFormat ---------------------------
(***************************************************************************)
(* The vocabulary in which the generated read functions of the C libraries *)
(* are written down.  A generated X_read() is a straight line of macro     *)
(* invocations (READ_U8, READ_STRING, READ_ARRAY, ...), some of them under *)
(* an if on a field read earlier.  For one concrete message on the wire    *)
(* the conditions and the array lengths are known, so the function is the  *)
(* sequence of steps it performs on that message; each operator below      *)
(* builds one kind of step.  IncrementalRead executes the steps.           *)
(*                                                                         *)
(* A slot <<name, i>> is a pointer member of the message: i = 0 for a      *)
(* member of the message itself, i >= 1 for a member of the i-th element   *)
(* of the message's array of structs.                                      *)
(***************************************************************************)
EXTENDS Naturals, Sequences, SequencesExt

NoSlot == <<"none", 0>>

Member(name) == <<name, 0>>

(***************************************************************************)
(* One step: its kind; n, the bytes one length check asks for; count, how  *)
(* often it is repeated; slots, the pointers it sets; zero and set, the    *)
(* value it gives the condition that the free function tests, before and   *)
(* after the field is read; own, the pointers that the free function of    *)
(* the nested struct under read releases when the step fails.              *)
(***************************************************************************)
Step(kind, n, count, slots) ==
  [kind |-> kind, n |-> n, count |-> count, slots |-> slots,
   zero |-> FALSE, set |-> FALSE, own |-> {}]

\* The opcode (and size) read by X_opcode_read before it calls X_read.
Header(n) == Step("header", n, 1, {})

\* if (n > (reader->length - reader->index)) fail with the difference.
Minimum(n) == Step("minimum", n, 1, {})

\* object->member = NULL for every pointer member of the message.
SetNull(slots) == Step("null", 0, 1, slots)

\* READ_U8, READ_U32, READ_FLOAT, SKIP_FORWARD_BYTES: n bytes at once.
Fixed(n) == Step("int", n, 1, {})

\* object->field = 0; READ_Ux(object->field) of a field the free function
\* tests: zero is the outcome of the test for 0, set for the value read.
Field(n, zero, set) ==
  [Step("field", n, 1, {}) EXCEPT !.zero = zero, !.set = set]

\* READ_ARRAY(x, count, READ_Un(x[i])): count separate reads of n bytes.
Each(count, n) == Step("each", n, count, {})

\* READ_STRING: a length byte, then len bytes copied to the heap.
String(slot, len) == Step("string", len, 1, {slot})

\* READ_CSTRING: len bytes and the terminator, one at a time.
Cstring(slot, len) == Step("cstring", 1, len + 1, {slot})

\* x = calloc(number_of_x, sizeof(*x)) ahead of a READ_ARRAY.
Calloc(slot) == Step("calloc", 0, 1, {slot})

\* if (condition) { steps }
When(condition, steps) == IF condition THEN steps ELSE <<>>

\* The steps of X_read for a nested struct whose X_free releases own.
Nested(steps, own) == [k \in DOMAIN steps |-> [steps[k] EXCEPT !.own = own]]

\* WLM_CHECK_RETURN_CODE(Element_read(reader, &x[i])) for i in 1..count.
EachStruct(count, Element(_)) == FlattenSeq([i \in 1..count |-> Element(i)])

(***************************************************************************)
(* A message: the steps of its read function; written, the bytes its write *)
(* function emits; sizeField, what it puts in its own size field, and      *)
(* sized, the bytes it emits after that field (0 and 0 without one); the   *)
(* pointers X_free releases always and those it releases only under its    *)
(* condition; its array of structs and the pointers inside the elements.   *)
(***************************************************************************)
Message(name, steps, written) ==
  [name |-> name, read |-> steps, written |-> written,
   sizeField |-> 0, sized |-> 0,
   always |-> {}, guarded |-> {}, array |-> NoSlot, inner |-> {}]

\* (uint16_t)X_size(object), written ahead of sized bytes.
WithSize(message, size, sized) ==
  [message EXCEPT !.sizeField = size % 65536, !.sized = sized]

Frees(message, always, guarded) ==
  [message EXCEPT !.always = always, !.guarded = guarded]

FreesElements(message, array, inner) ==
  [message EXCEPT !.always = @ \union {array}, !.array = array, !.inner = inner]
=============================================================================
