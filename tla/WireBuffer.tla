----------------------------- MODULE WireBuffer -----------------------------
(***************************************************************************)
(* The wire-buffer primitive the codecs of of_type_maps.c read and write   *)
(* through: a byte store with big-endian fixed-width integer accessors     *)
(* (of_wire_buffer_u16_get/set, of_wire_buffer_u32_get/set and the raw     *)
(* buf_u16/buf_u32 helpers), and the object-relative addressing of         *)
(* OF_OBJECT_ABSOLUTE_OFFSET and OF_OBJECT_BUFFER_INDEX.  This code is not *)
(* under src/; it is modelled from spec section 6.                         *)
(*                                                                         *)
(* A buffer is a function from byte offsets to 0..255.  A value written    *)
(* into a field of width w is truncated modulo 2^(8w), the way the C       *)
(* conversion of an int argument to uint16_t/uint32_t truncates it.        *)
(***************************************************************************)
EXTENDS Integers

Byte == 0 .. 255

\* The bytes a buffer of n bytes may hold.
Buffers(n) == [0 .. n - 1 -> Byte]

\* Read a 16-bit big-endian value at byte offset off.
U16Get(buf, off) == buf[off] * 256 + buf[off + 1]

\* Write v, truncated to 16 bits, big-endian at byte offset off.
U16Set(buf, off, v) ==
    [buf EXCEPT ![off]     = (v \div 256) % 256,
                ![off + 1] = v % 256]

\* Read a 32-bit big-endian value at byte offset off.
U32Get(buf, off) == U16Get(buf, off) * 65536 + U16Get(buf, off + 2)

\* Write v, truncated to 32 bits, big-endian at byte offset off.
U32Set(buf, off, v) ==
    U16Set(U16Set(buf, off, (v \div 65536) % 65536), off + 2, v % 65536)

\* A u32 whose top bit may be set exceeds TLC's 31-bit integers: such a
\* word is carried as its two 16-bit halves.
U32WordGet(buf, off) == [hi |-> U16Get(buf, off), lo |-> U16Get(buf, off + 2)]
U32WordSet(buf, off, w) == U16Set(U16Set(buf, off, w.hi), off + 2, w.lo)

\* The word of a u32 constant below 2^31, to compare with a U32WordGet.
U32Word(v) == [hi |-> v \div 65536, lo |-> v % 65536]

\* The bytes a field of width w at offset off occupies.
Field(off, w) == off .. off + w - 1

\* OF_OBJECT_ABSOLUTE_OFFSET(obj, off): a field offset relative to the
\* object's own start, made absolute in the shared buffer.
AbsoluteOffset(obj, off) == obj.offset + off

=============================================================================
