--------------------------- MODULE KeepFinalBytes ---------------------------
(***************************************************************************)
(* keepFinalBytes (src/unnamed/part_001): the io.Reader wrapper UploadPart *)
(* puts around a part body whose SHA1 is "hex_digits_at_end".  It passes   *)
(* every Read through and copies the bytes that fall into the last 40      *)
(* bytes of the declared size into its sha array.                          *)
(*                                                                         *)
(* The stream is Size bytes long, as the caller of UploadPart declares it; *)
(* its byte at offset i (0-based) is modelled by the value i + 1, so the   *)
(* array shows which offsets it captured, and 0 is a zero byte.  Each Read *)
(* returns any n in 1..remain bytes: the HTTP client asks for at most the  *)
(* Content-Length still unsent, and the wrapped reader may return fewer.   *)
(***************************************************************************)
EXTENDS Integers

CONSTANT Sizes      \* declared part sizes to check

ASSUME Sizes \subseteq Nat

ShaLen == 40        \* len(keepFinalBytes.sha)

VARIABLES
    size,       \* the declared size (UploadPart's size argument)
    remain,     \* keepFinalBytes.remain
    sha,        \* keepFinalBytes.sha, a function 0..ShaLen-1 -> byte
    panicked    \* a slice expression in Read was out of range

vars == <<size, remain, sha, panicked>>

StreamByte(offset) == offset + 1

MaxOf(a, b) == IF a >= b THEN a ELSE b
MinOf(a, b) == IF a <= b THEN a ELSE b

\* UploadPart: r = &keepFinalBytes{r: r, remain: size}
Init ==
    /\ size \in Sizes
    /\ remain = size
    /\ sha = [j \in 0..ShaLen - 1 |-> 0]
    /\ panicked = FALSE

(* copy(k.sha[ki:ke], p[pi:pe]) where p holds the n bytes just read,      *)
(* starting at stream offset `start`.  Go panics unless                    *)
(* 0 <= lo <= hi <= cap on both slices; copy moves min of the lengths.     *)
CopyWindow(start, n, pi, pe, ki, ke) ==
    IF ~(0 <= ki /\ ki <= ke /\ ke <= ShaLen /\ 0 <= pi /\ pi <= pe /\ pe <= n)
        THEN panicked' = TRUE /\ UNCHANGED sha
    ELSE LET m == MinOf(ke - ki, pe - pi) IN
         /\ sha' = [j \in 0..ShaLen - 1 |->
                        IF ki <= j /\ j < ki + m
                            THEN StreamByte(start + pi + (j - ki)) ELSE sha[j]]
         /\ UNCHANGED panicked

\* Mutant: pi computed one byte too early.
WindowStartEarly(r) == MaxOf(0, -41 + r)

\* pi := -40 + k.remain; if pi < 0 { pi = 0 }
WindowStart(r) == MaxOf(0, -ShaLen + r)

(* keepFinalBytes.Read: n bytes come back from the wrapped reader.  If     *)
(* they all lie before the final 40 only remain shrinks; otherwise the     *)
(* part of them inside the final 40 is copied into sha.                    *)
Read(n) ==
    LET start == size - remain IN
    /\ ~panicked
    /\ IF remain - n > ShaLen
          THEN UNCHANGED <<sha, panicked>>
       ELSE CopyWindow(start, n, WindowStart(remain), n,
                       MaxOf(0, ShaLen - remain), n - remain + ShaLen)
    /\ remain' = remain - n
    /\ UNCHANGED size

Next == \E n \in 1..remain : Read(n)

Spec == Init /\ [][Next]_vars

-----------------------------------------------------------------------------
TypeOK ==
    /\ size \in Sizes
    /\ remain \in 0..size
    /\ sha \in [0..ShaLen - 1 -> 0..size]
    /\ panicked \in BOOLEAN

(* Reference: after `consumed` bytes the array holds every already-read    *)
(* byte of the final 40 at its place, right-aligned, and zeros elsewhere.  *)
Expected(consumed) ==
    [j \in 0..ShaLen - 1 |->
        LET off == size - ShaLen + j
        IN  IF 0 <= off /\ off < consumed THEN StreamByte(off) ELSE 0]

(* Spec section 4.3: whatever sizes the reads come in (smaller than,       *)
(* larger than or straddling the window), Read never slices out of range  *)
(* and, after every read, sha holds exactly the final-40 bytes seen so far *)
(* (so at the end the last 40 bytes, or all of a shorter stream).          *)
CapturesFinalBytes ==
    /\ ~panicked
    /\ sha = Expected(size - remain)

=============================================================================
