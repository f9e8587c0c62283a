------------------------------ MODULE JniText ------------------------------
(* Text on its way through the JNI bridge (jni_common.h).  A Java string is a *)
(* sequence of UTF-16 units, a C string a sequence of bytes that ends at the  *)
(* first NUL.  jstr_dup makes standard UTF-8 of a Java string, jstr_new a     *)
(* Java string of whatever bytes it is given.                                 *)
(*                                                                            *)
(* A text is held by Java or by native code and goes to and fro for as long   *)
(* as it is used: a file name is resolved, goes into the queue, to the engine *)
(* and the database, and comes back from there in the next process.  One      *)
(* action is one turn of the loop of either function, so that what it has     *)
(* read and what it has written can be compared.                              *)
(*                                                                            *)
(* Abstraction: a null string and a pending exception, which both functions   *)
(* hand on unread, do not occur.                                              *)
EXTENDS Integers, Sequences, FiniteSets

CONSTANTS
  JavaTexts,   \* texts that come from Java
  NativeTexts  \* texts that come from native code: replies, names, rows

Unit == {x \in Nat : x < 65536}
Byte == 0 .. 255

ASSUME TextAssumption ==
  JavaTexts \subseteq Seq(Unit) /\ NativeTexts \subseteq Seq(Byte \ {0})

VARIABLES
  at,       \* who holds the text, or the function it is in
  text,     \* the text, in the form its holder has it
  i,        \* units or bytes of it that the function has read
  out,      \* bytes the function has written
  returned  \* history: the Java strings native code has returned for it

textVars == <<at, text, i, out, returned>>

\* What a NUL-terminated reader sees of b: all before the first element of S.
UpTo(b, S) ==
  SubSeq(b, 1, Cardinality({k \in DOMAIN b : \A j \in 1 .. k : b[j] \notin S}))
CString(b) == UpTo(b, {0})

\* The n-th smallest of a set of positions, and what s has at a position.
Nth(S, n) == CHOOSE k \in S : Cardinality({j \in S : j < k}) = n - 1
ByteAt(s, k) == IF k \in DOMAIN s THEN s[k] ELSE 0

---------------------------------------------------------------------------
(* Code points *)

High == 55296 .. 56319
Low == 56320 .. 57343
Replacement == 65533

Alone(u, k) == FALSE
Paired(u, k) == u[k] \in High /\ k < Len(u) /\ u[k + 1] \in Low
UnitsRead(u, k) == IF Paired(u, k) THEN 2 ELSE 1
Scalar(u, k) ==
  CASE Paired(u, k) -> 65536 + (u[k] - 55296) * 1024 + (u[k + 1] - 56320)
    [] ~Paired(u, k) /\ u[k] \in High \cup Low -> Replacement
    [] OTHER -> u[k]

Continued(x) == 128 + (x % 64)
Continuation == 128 .. 191

Utf8(cp) ==
  IF cp < 128 THEN <<cp>>
  ELSE IF cp < 2048 THEN <<192 + (cp \div 64), Continued(cp)>>
  ELSE IF cp < 65536 THEN <<224 + (cp \div 4096), Continued(cp \div 64), Continued(cp)>>
  ELSE <<240 + (cp \div 262144), Continued(cp \div 4096), Continued(cp \div 64), Continued(cp)>>

\* The form NewStringUTF takes: no NUL, and a pair of surrogates of three bytes
\* each for what UTF-16 needs a pair for.
Modified(cp) ==
  IF cp = 0 THEN <<192, 128>>
  ELSE IF cp < 65536 THEN Utf8(cp)
  ELSE Utf8(55296 + ((cp - 65536) \div 1024)) \o Utf8(56320 + ((cp - 65536) % 1024))

\* The bytes a lead byte claims, 0 when it is none, and what it contributes.
Claimed(b) ==
  CASE b < 128 -> 1
    [] b \in 192 .. 223 -> 2
    [] b \in 224 .. 239 -> 3
    [] b \in 240 .. 247 -> 4
    [] OTHER -> 0

Complete(s, k) ==
  /\ Claimed(s[k]) > 0
  /\ k + Claimed(s[k]) - 1 <= Len(s)
  /\ \A j \in 1 .. Claimed(s[k]) - 1 : s[k + j] \in Continuation

Value(s, k) ==
  CASE Claimed(s[k]) = 1 -> s[k]
    [] Claimed(s[k]) = 2 -> (s[k] % 32) * 64 + (s[k + 1] % 64)
    [] Claimed(s[k]) = 3 -> (s[k] % 16) * 4096 + (s[k + 1] % 64) * 64 + (s[k + 2] % 64)
    [] OTHER -> (s[k] % 8) * 262144 + (s[k + 1] % 64) * 4096
                  + (s[k + 2] % 64) * 64 + (s[k + 3] % 64)

\* Overlong forms, surrogates and values out of range are rejected.
AnyLength(n, cp) == TRUE
Shortest(n, cp) ==
  CASE n = 2 -> cp >= 128 [] n = 3 -> cp >= 2048 [] n = 4 -> cp >= 65536 [] OTHER -> TRUE
Accepted(s, k) ==
  /\ Complete(s, k)
  /\ Shortest(Claimed(s[k]), Value(s, k))
  /\ Value(s, k) <= 1114111 /\ Value(s, k) \notin High \cup Low

---------------------------------------------------------------------------
(* jstr_dup *)

Dup ==
  /\ at = "java"
  /\ at' = "dup"
  /\ UNCHANGED <<text, i, out, returned>>

DupUnit ==
  /\ at = "dup" /\ i < Len(text)
  /\ i' = i + UnitsRead(text, i + 1)
  /\ out' = out \o Utf8(Scalar(text, i + 1))
  /\ UNCHANGED <<at, text, returned>>

DupEnds ==
  /\ at = "dup" /\ i = Len(text)
  /\ at' = "native" /\ text' = CString(out)
  /\ i' = 0 /\ out' = <<>>
  /\ UNCHANGED returned

\* No memory for the units or the bytes: NULL, and Java keeps its string.
DupFails ==
  /\ at = "dup" /\ i = 0
  /\ at' = "java"
  /\ UNCHANGED <<text, i, out, returned>>

(* jstr_new *)

New ==
  /\ at = "native"
  /\ at' = "new"
  /\ UNCHANGED <<text, i, out, returned>>

NewByte ==
  /\ at = "new" /\ i < Len(text)
  /\ \/ /\ Accepted(text, i + 1)
        /\ i' = i + Claimed(text[i + 1])
        /\ out' = out \o Modified(Value(text, i + 1))
     \/ /\ ~Accepted(text, i + 1)
        /\ i' = i + 1
        /\ out' = out \o Modified(Replacement)
  /\ UNCHANGED <<at, text, returned>>

\* NewStringUTF: one unit for each byte of b that is no continuation.
UnitAt(b, k) ==
  LET lead == ByteAt(b, k)
      Low6(n) == ByteAt(b, k + n) % 64 IN
  CASE lead < 128 -> lead
    [] lead \in 192 .. 223 -> (lead % 32) * 64 + Low6(1)
    [] OTHER -> (lead % 16) * 4096 + Low6(1) * 64 + Low6(2)
NewStringUTF(b) ==
  LET leads == {k \in DOMAIN b : b[k] \notin Continuation} IN
  [n \in 1 .. Cardinality(leads) |-> UnitAt(b, Nth(leads, n))]

NewEnds ==
  /\ at = "new" /\ i = Len(text)
  /\ at' = "java" /\ text' = NewStringUTF(out)
  /\ returned' = returned \cup {text'}
  /\ i' = 0 /\ out' = <<>>

\* No memory: NULL, and native code keeps its string.
NewFails ==
  /\ at = "new" /\ i \in {0, Len(text)}
  /\ at' = "native"
  /\ i' = 0 /\ out' = <<>>
  /\ UNCHANGED <<text, returned>>

---------------------------------------------------------------------------
TextInit ==
  /\ \/ at = "java" /\ text \in JavaTexts
     \/ at = "native" /\ text \in NativeTexts
  /\ i = 0 /\ out = <<>> /\ returned = {}

TextNext ==
  \/ Dup \/ DupUnit \/ DupEnds \/ DupFails
  \/ New \/ NewByte \/ NewEnds \/ NewFails

TextSpec == TextInit /\ [][TextNext]_textVars

---------------------------------------------------------------------------
(* Properties *)

\* The bytes each function allocates.
DupCapacity(n) == 3 * n + 1
NewCapacity(n) == 3 * n + 4

\* b is what NewStringUTF takes: each byte below 128 alone, each lead of two or
\* three bytes followed by its continuation, no continuation without its lead,
\* no NUL and no form of four bytes.
ModifiedUtf8(b) ==
  \A k \in DOMAIN b :
    /\ b[k] \in 1 .. 239
    /\ b[k] \notin Continuation => Complete(b, k)
    /\ b[k] \in Continuation =>
         \E d \in 1 .. 2 : k - d \in DOMAIN b /\ Claimed(b[k - d]) > d

\* Wherever either function is in its input, what it has written, with the NUL
\* to come, fits into what it allocated (jni_common.h:60-62, 121-124).
OutFits ==
  /\ at = "dup" => Len(out) + 1 <= DupCapacity(Len(text))
  /\ at = "new" => Len(out) + 1 <= NewCapacity(Len(text))

\* And NewStringUTF is never given bytes that would abort the VM, whatever
\* native code read (jni_common.h:104-110).
VmTakesIt == OutFits /\ (at = "new" => ModifiedUtf8(out))

\* A text that has come from native code once is the same string however often
\* it crosses afterwards: the path in memory, the path in the database and the
\* path after a restart are one (jni_common.h:43-49).
CrossesUnchanged == \A a, b \in returned : a = b
============================================================================
