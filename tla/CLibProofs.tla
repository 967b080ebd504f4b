------------------------------ MODULE CLibProofs ------------------------------
(***************************************************************************)
(* Proofs about the library, for arrays, templates and numbers of every    *)
(* size: extract_file_name is right whenever it returns and stays in its   *)
(* arrays, vfprintf prints what a proper template says and never reads     *)
(* behind it, a number's digits are the number's, and myopen opens the     *)
(* path it is given.                                                       *)
(***************************************************************************)
EXTENDS CLib, Induction, SequenceTheorems, FiniteSetTheorems, TLAPS

LEMMA Sizes ==
  /\ NAME \in Nat /\ NAME >= 1 /\ EXT \in Nat /\ EXT >= 1
  /\ TEMPLATE \in Nat /\ DIGITS \in Nat /\ DIGITS >= 1 /\ MaxNumber \in Nat
  /\ DATA \in Nat /\ DATA >= 3
BY CStringAssumption, StdioAssumption, UserCallsAssumption

-----------------------------------------------------------------------------
(* extract_file_name.  While strncpy runs, an array has the first bytes of *)
(* its field, none of them NUL; behind its call, the whole field and NUL.  *)
Copying(s, o) == \A k \in 1 .. Len(s) : s[k] = entry[o + k] /\ s[k] # NUL

Field(s, o, n) ==
  Len(s) = n + 1 /\ s[n + 1] = NUL /\ \A k \in 1 .. n : s[k] = entry[o + k]

StringInv ==
  /\ xst \in {"rest", "name"} => ext = <<>>
  /\ xst = "rest" => filename = <<>>
  /\ xst = "name" => Len(filename) <= NAME /\ Copying(filename, 0)
  /\ xst \in {"ext", "blanks"} => Field(filename, 0, NAME)
  /\ xst = "ext" => Len(ext) <= EXT /\ Copying(ext, NAME)
  /\ xst = "blanks" => Field(ext, NAME, EXT)
  /\ ExtractWithin
  /\ ExtractRight

(* A turn of strncpy copies a byte, or copies it and ends: with the field  *)
(* and a NUL behind it, or short of it, to pad for ever.                   *)
LEMMA CopyTurn ==
  ASSUME NEW s \in Seq(Bytes), NEW o \in Nat, NEW n \in Nat, n >= 1, Len(s) <= n,
         Copying(s, o), NEW c \in Bytes, c = entry[o + Len(s) + 1]
  PROVE  /\ Append(s, c) \in Seq(Bytes)
         /\ StrncpyGoesOn(c, Len(s), n) =>
              Len(Append(s, c)) <= n /\ Copying(Append(s, c), o)
         /\ ~StrncpyGoesOn(c, Len(s), n) /\ ~MustPad(Append(s, c), n) =>
              /\ Terminate(Append(s, c), n) \in Seq(Bytes)
              /\ Field(Terminate(Append(s, c), n), o, n)
<1> DEFINE a == Append(s, c)
<1>1. /\ a \in Seq(Bytes) /\ Len(a) = Len(s) + 1 /\ Len(s) \in Nat
      /\ a[Len(s) + 1] = c /\ \A k \in 1 .. Len(s) : a[k] = s[k]
  OBVIOUS
<1>2. \A k \in 1 .. Len(a) : k = Len(s) + 1 \/ k \in 1 .. Len(s)
  BY <1>1
<1> HIDE DEF a
<1>3. \A k \in 1 .. Len(a) : a[k] = entry[o + k]
  <2>1. o + (Len(s) + 1) = o + Len(s) + 1
    BY <1>1
  <2>2. QED
    BY <1>1, <1>2, <2>1 DEF Copying
<1>4. ASSUME StrncpyGoesOn(c, Len(s), n) PROVE Len(a) <= n /\ Copying(a, o)
  <2>1. Len(s) < n /\ c # NUL
    BY <1>4 DEF StrncpyGoesOn
  <2>2. Len(a) <= n
    BY <1>1, <2>1
  <2>3. QED
    BY <1>1, <1>2, <1>3, <2>1, <2>2 DEF Copying
<1>5. ASSUME ~StrncpyGoesOn(c, Len(s), n), ~MustPad(a, n)
      PROVE  Terminate(a, n) \in Seq(Bytes) /\ Field(Terminate(a, n), o, n)
  <2>0. NUL \in Bytes
    BY DEF Bytes
  <2>1. Len(s) + 1 >= n
    BY <1>1, <1>5 DEF MustPad
  <2>2. CASE Len(s) = n
    <3>1. Len(a) = n + 1 /\ Len(a) > n
      BY <1>1, <2>2
    <3>2. Terminate(a, n) = [a EXCEPT ![n + 1] = NUL]
      BY <3>1 DEF Terminate
    <3> DEFINE t == [a EXCEPT ![n + 1] = NUL]
    <3>3. /\ t \in Seq(Bytes) /\ Len(t) = n + 1 /\ t[n + 1] = NUL
          /\ \A k \in 1 .. n : t[k] = a[k]
      BY <1>1, <2>0, <3>1
    <3> HIDE DEF t
    <3>4. \A k \in 1 .. n : t[k] = entry[o + k]
      BY <1>3, <3>1, <3>3
    <3>5. QED
      BY <3>2, <3>3, <3>4 DEF Field, t
  <2>3. CASE Len(s) # n
    <3>1. Len(a) = n /\ ~(Len(a) > n)
      BY <1>1, <2>1, <2>3
    <3>2. Terminate(a, n) = Append(a, NUL)
      BY <3>1 DEF Terminate
    <3> DEFINE t == Append(a, NUL)
    <3>3. /\ t \in Seq(Bytes) /\ Len(t) = n + 1 /\ t[n + 1] = NUL
          /\ \A k \in 1 .. n : t[k] = a[k]
      BY <1>1, <2>0, <3>1
    <3> HIDE DEF t
    <3>4. \A k \in 1 .. n : t[k] = entry[o + k]
      BY <1>3, <3>1, <3>3
    <3>5. QED
      BY <3>2, <3>3, <3>4 DEF Field, t
  <2>4. QED
    BY <2>2, <2>3
<1>6. QED
  BY <1>1, <1>4, <1>5 DEF a

(* The two loops that end the strings make the text of a field of what     *)
(* strncpy has left.                                                       *)
LEMMA UnblankRight ==
  ASSUME NEW s \in Seq(Bytes), NEW f \in Seq(Bytes), NEW n \in Nat,
         Len(s) = n + 1, Len(f) = n, s[n + 1] = NUL, \A k \in 1 .. n : s[k] = f[k]
  PROVE  /\ Unblank(s, n) \in Seq(Bytes) /\ Len(Unblank(s, n)) = n + 1
         /\ NUL \in {Unblank(s, n)[k] : k \in DOMAIN Unblank(s, n)}
         /\ Text(Unblank(s, n)) = Unpadded(f)
<1> DEFINE u == Unblank(s, n)
           T == {k \in 1 .. Len(u) : u[k] = NUL}
           ends == {k \in 1 .. Len(f) : f[k] \in {BLANK, NUL}}
<1>1. /\ DOMAIN s = 1 .. n + 1 /\ NUL \in Bytes
      /\ \A k \in 1 .. n + 1 : s[k] \in Bytes
  BY DEF Bytes
<1>2. /\ DOMAIN u = 1 .. n + 1 /\ u[n + 1] = NUL
      /\ \A k \in 1 .. n + 1 : u[k] \in Bytes
      /\ \A k \in 1 .. n : u[k] = IF f[k] = BLANK THEN NUL ELSE f[k]
  BY <1>1 DEF Unblank
<1>3. u = [k \in 1 .. n + 1 |-> u[k]]
  BY <1>1 DEF Unblank
<1> HIDE DEF u
<1>4. u \in Seq(Bytes) /\ Len(u) = n + 1
  <2>1. u \in [1 .. n + 1 -> Bytes]
    BY <1>2, <1>3
  <2>2. QED
    BY <2>1
<1>5. \A k \in 1 .. n : u[k] = NUL <=> f[k] \in {BLANK, NUL}
  BY <1>2
<1>6. T \in SUBSET Nat /\ n + 1 \in T
  BY <1>2, <1>4
<1>7. PICK m \in T : \A y \in T : m <= y
  <2>1. T # {}
    BY <1>6
  <2> HIDE DEF T
  <2>2. QED
    BY <1>6, <2>1, LeastNumber
<1>8. Min(T) = m
  <2> HIDE DEF T
  <2>1. QED
    BY <1>6, <1>7, LeastIsMin
<1>9. Text(u) = SubSeq(u, 1, m - 1)
  BY <1>8 DEF Text, Strlen
<1>10. m \in 1 .. n + 1 /\ u[m] = NUL /\ \A k \in 1 .. m - 1 : u[k] # NUL
  <2>1. m \in 1 .. n + 1 /\ u[m] = NUL
    BY <1>4, <1>7
  <2>2. \A k \in 1 .. m - 1 : k \in 1 .. n + 1 /\ ~(m <= k)
    BY <2>1
  <2>3. QED
    BY <1>4, <1>7, <2>1, <2>2
<1>11. \A k \in 1 .. m - 1 : u[k] = f[k]
  <2>1. \A k \in 1 .. m - 1 : k \in 1 .. n
    BY <1>10
  <2>2. QED
    BY <1>2, <1>10, <2>1
<1>12. /\ SubSeq(u, 1, m - 1) \in Seq(Bytes) /\ Len(SubSeq(u, 1, m - 1)) = m - 1
       /\ \A k \in 1 .. m - 1 : SubSeq(u, 1, m - 1)[k] = u[k]
  BY <1>4, <1>10
<1>13. /\ SubSeq(f, 1, m - 1) \in Seq(Bytes) /\ Len(SubSeq(f, 1, m - 1)) = m - 1
       /\ \A k \in 1 .. m - 1 : SubSeq(f, 1, m - 1)[k] = f[k]
  BY <1>10
<1>14. SubSeq(u, 1, m - 1) = SubSeq(f, 1, m - 1)
  BY <1>11, <1>12, <1>13
<1>15. Unpadded(f) = SubSeq(f, 1, m - 1)
  <2>1. CASE m = n + 1
    <3>1. ends = {}
      BY <1>5, <1>10, <2>1
    <3>2. Unpadded(f) = f
      BY <3>1 DEF Unpadded
    <3>3. SubSeq(f, 1, n) = f
      OBVIOUS
    <3>4. QED
      BY <2>1, <3>2, <3>3
  <2>2. CASE m # n + 1
    <3>1. m \in ends /\ ends \in SUBSET Nat
      BY <1>5, <1>10, <2>2
    <3>2. \A y \in ends : m <= y
      <4>1. \A y \in 1 .. n : ~(m <= y) => y \in 1 .. m - 1
        BY <1>10
      <4>2. QED
        BY <1>5, <1>10, <4>1
    <3> HIDE DEF ends
    <3>3. Min(ends) = m /\ ends # {}
      BY <3>1, <3>2, LeastIsMin
    <3>4. QED
      BY <3>3 DEF Unpadded, ends
  <2>3. QED
    BY <2>1, <2>2
<1>16. QED
  BY <1>2, <1>4, <1>9, <1>14, <1>15 DEF u

LEMMA EntryIsArray ==
  ASSUME StringTypeOK
  PROVE  /\ entry \in Seq(Bytes) /\ Len(entry) = NAME + EXT + 1
         /\ \A k \in 1 .. NAME + EXT + 1 : entry[k] \in Bytes
BY Sizes DEF StringTypeOK

LEMMA NameTurnKeeps ==
  ASSUME StringTypeOK, StringInv, NameTurn PROVE StringTypeOK' /\ StringInv'
<1> DEFINE c == entry[Len(filename) + 1]
<1>1. /\ filename \in Seq(Bytes) /\ Len(filename) <= NAME /\ Copying(filename, 0)
      /\ Len(filename) \in Nat /\ xst = "name" /\ ext = <<>>
  BY DEF NameTurn, StringInv, StringTypeOK
<1>2. c \in Bytes /\ c = entry[0 + Len(filename) + 1]
  <2>1. Len(filename) + 1 \in 1 .. NAME + EXT + 1 /\ 0 + Len(filename) + 1 = Len(filename) + 1
    BY <1>1, Sizes
  <2>2. QED
    BY <2>1, EntryIsArray
<1> DEFINE a == Append(filename, c)
           ends == StrncpyGoesOn(c, Len(filename), NAME)
<1>3. /\ a \in Seq(Bytes)
      /\ ends => Len(a) <= NAME /\ Copying(a, 0)
      /\ ~ends /\ ~MustPad(a, NAME) =>
           Terminate(a, NAME) \in Seq(Bytes) /\ Field(Terminate(a, NAME), 0, NAME)
  BY <1>1, <1>2, Sizes, CopyTurn
<1>4. UNCHANGED <<entry, ext>>
  BY DEF NameTurn
<1>5. Copying(<<>>, NAME) /\ Len(<<>>) = 0
  BY DEF Copying
<1>6. CASE ends
  <2>1. filename' = a /\ xst' = "name"
    BY <1>1, <1>6 DEF NameTurn
  <2> HIDE DEF a, ends
  <2>2. StringTypeOK'
    BY <1>3, <1>4, <2>1 DEF StringTypeOK
  <2>3. Len(filename') <= NAME /\ Len(filename') \in Nat /\ Len(ext') = 0
    BY <1>1, <1>3, <1>4, <1>5, <1>6, <2>1
  <2>4. ExtractWithin'
    BY <2>3, Sizes DEF ExtractWithin
  <2>5. Copying(filename, 0)'
    BY <1>3, <1>4, <1>6, <2>1 DEF Copying
  <2>6. QED
    BY <1>1, <1>4, <2>1, <2>2, <2>3, <2>4, <2>5 DEF StringInv, ExtractRight
<1>7. CASE ~ends /\ MustPad(a, NAME)
  <2>1. filename' = a /\ xst' = "padding"
    BY <1>1, <1>7 DEF NameTurn
  <2>2. Len(a) < NAME
    BY <1>7 DEF MustPad
  <2> HIDE DEF a, ends
  <2>3. StringTypeOK'
    BY <1>3, <1>4, <2>1 DEF StringTypeOK
  <2>4. Len(filename') < NAME /\ Len(filename') \in Nat /\ Len(ext') = 0
    BY <1>1, <1>3, <1>4, <1>5, <2>1, <2>2
  <2>5. ExtractWithin'
    BY <2>4, Sizes DEF ExtractWithin
  <2>6. QED
    BY <2>1, <2>3, <2>5 DEF StringInv, ExtractRight
<1>8. CASE ~ends /\ ~MustPad(a, NAME)
  <2>1. filename' = Terminate(a, NAME) /\ xst' = "ext"
    BY <1>1, <1>8 DEF NameTurn
  <2> HIDE DEF a, ends
  <2>2. StringTypeOK'
    BY <1>3, <1>4, <1>8, <2>1 DEF StringTypeOK
  <2>3. Len(filename') = NAME + 1 /\ Field(filename, 0, NAME)'
    BY <1>3, <1>4, <1>8, <2>1 DEF Field
  <2>4. Len(ext') = 0
    BY <1>1, <1>4, <1>5
  <2>5. ExtractWithin' /\ Len(ext') <= EXT
    BY <2>3, <2>4, Sizes DEF ExtractWithin
  <2>6. Copying(ext, NAME)'
    BY <1>1, <1>4, <1>5 DEF Copying
  <2>7. QED
    BY <2>1, <2>2, <2>3, <2>5, <2>6 DEF StringInv, ExtractRight
<1>9. QED
  BY <1>6, <1>7, <1>8

LEMMA ExtTurnKeeps ==
  ASSUME StringTypeOK, StringInv, ExtTurn PROVE StringTypeOK' /\ StringInv'
<1> DEFINE c == entry[NAME + Len(ext) + 1]
<1>1. /\ ext \in Seq(Bytes) /\ Len(ext) <= EXT /\ Copying(ext, NAME)
      /\ Len(ext) \in Nat /\ xst = "ext" /\ Field(filename, 0, NAME)
  BY DEF ExtTurn, StringInv, StringTypeOK
<1>2. c \in Bytes
  <2>1. NAME + Len(ext) + 1 \in 1 .. NAME + EXT + 1
    BY <1>1, Sizes
  <2>2. QED
    BY <2>1, EntryIsArray
<1> DEFINE a == Append(ext, c)
           ends == StrncpyGoesOn(c, Len(ext), EXT)
<1>3. /\ a \in Seq(Bytes)
      /\ ends => Len(a) <= EXT /\ Copying(a, NAME)
      /\ ~ends /\ ~MustPad(a, EXT) =>
           Terminate(a, EXT) \in Seq(Bytes) /\ Field(Terminate(a, EXT), NAME, EXT)
  BY <1>1, <1>2, Sizes, CopyTurn
<1>4. UNCHANGED <<entry, filename>>
  BY DEF ExtTurn
<1>5. Field(filename, 0, NAME)' /\ Len(filename') = NAME + 1
  BY <1>1, <1>4 DEF Field
<1>6. CASE ends
  <2>1. ext' = a /\ xst' = "ext"
    BY <1>1, <1>6 DEF ExtTurn
  <2> HIDE DEF a, ends
  <2>2. StringTypeOK'
    BY <1>3, <1>4, <2>1 DEF StringTypeOK
  <2>3. Len(ext') <= EXT /\ Len(ext') \in Nat
    BY <1>3, <1>6, <2>1
  <2>4. ExtractWithin'
    BY <1>5, <2>3, Sizes DEF ExtractWithin
  <2>5. Copying(ext, NAME)'
    BY <1>3, <1>4, <1>6, <2>1 DEF Copying
  <2>6. QED
    BY <1>5, <2>1, <2>2, <2>3, <2>4, <2>5 DEF StringInv, ExtractRight
<1>7. CASE ~ends /\ MustPad(a, EXT)
  <2>1. ext' = a /\ xst' = "padding"
    BY <1>1, <1>7 DEF ExtTurn
  <2>2. Len(a) < EXT
    BY <1>7 DEF MustPad
  <2> HIDE DEF a, ends
  <2>3. StringTypeOK'
    BY <1>3, <1>4, <2>1 DEF StringTypeOK
  <2>4. Len(ext') < EXT /\ Len(ext') \in Nat
    BY <1>3, <2>1, <2>2
  <2>5. ExtractWithin'
    BY <1>5, <2>4, Sizes DEF ExtractWithin
  <2>6. QED
    BY <2>1, <2>3, <2>5 DEF StringInv, ExtractRight
<1>8. CASE ~ends /\ ~MustPad(a, EXT)
  <2>1. ext' = Terminate(a, EXT) /\ xst' = "blanks"
    BY <1>1, <1>8 DEF ExtTurn
  <2> HIDE DEF a, ends
  <2>2. StringTypeOK'
    BY <1>3, <1>4, <1>8, <2>1 DEF StringTypeOK
  <2>3. Len(ext') = EXT + 1 /\ Field(ext, NAME, EXT)'
    BY <1>3, <1>4, <1>8, <2>1 DEF Field
  <2>4. ExtractWithin'
    BY <1>5, <2>3, Sizes DEF ExtractWithin
  <2>5. QED
    BY <1>5, <2>1, <2>2, <2>3, <2>4 DEF StringInv, ExtractRight
<1>9. QED
  BY <1>6, <1>7, <1>8

LEMMA BlanksKeeps ==
  ASSUME StringTypeOK, StringInv, Blanks PROVE StringTypeOK' /\ StringInv'
<1> DEFINE f == SubSeq(entry, 1, NAME)
           e == SubSeq(entry, NAME + 1, NAME + EXT)
<1>1. /\ filename \in Seq(Bytes) /\ ext \in Seq(Bytes)
      /\ Field(filename, 0, NAME) /\ Field(ext, NAME, EXT)
  BY DEF Blanks, StringInv, StringTypeOK
<1>2. /\ filename' = Unblank(filename, NAME) /\ ext' = Unblank(ext, EXT)
      /\ xst' = "done" /\ entry' = entry
  BY DEF Blanks
<1>3. f \in Seq(Bytes) /\ Len(f) = NAME /\ \A k \in 1 .. NAME : f[k] = entry[0 + k]
  <2>1. NAME \in Nat /\ NAME <= Len(entry)
    BY EntryIsArray, Sizes
  <2>2. QED
    BY <2>1, EntryIsArray
<1>4. e \in Seq(Bytes) /\ Len(e) = EXT /\ \A k \in 1 .. EXT : e[k] = entry[NAME + k]
  <2>1. /\ NAME \in Nat /\ EXT \in Nat /\ NAME + EXT <= Len(entry)
        /\ (NAME + EXT) - (NAME + 1) + 1 = EXT
        /\ \A k \in 1 .. EXT : (NAME + 1) + k - 1 = NAME + k
    BY EntryIsArray, Sizes
  <2>2. QED
    BY <2>1, EntryIsArray
<1> HIDE DEF f, e
<1>5. /\ filename' \in Seq(Bytes) /\ Len(filename') = NAME + 1
      /\ (NUL \in {filename[k] : k \in DOMAIN filename})'
      /\ Text(filename') = Unpadded(f)
  <2>1. filename[NAME + 1] = NUL /\ Len(filename) = NAME + 1
        /\ \A k \in 1 .. NAME : filename[k] = f[k]
    BY <1>1, <1>3 DEF Field
  <2>2. QED
    BY <1>1, <1>2, <1>3, <2>1, Sizes, UnblankRight
<1>6. /\ ext' \in Seq(Bytes) /\ Len(ext') = EXT + 1
      /\ (NUL \in {ext[k] : k \in DOMAIN ext})'
      /\ Text(ext') = Unpadded(e)
  <2>1. ext[EXT + 1] = NUL /\ Len(ext) = EXT + 1 /\ \A k \in 1 .. EXT : ext[k] = e[k]
    BY <1>1, <1>4 DEF Field
  <2>2. QED
    BY <1>1, <1>2, <1>4, <2>1, Sizes, UnblankRight
<1>7. StringTypeOK'
  BY <1>2, <1>5, <1>6 DEF StringTypeOK
<1>8. ExtractWithin'
  BY <1>5, <1>6, Sizes DEF ExtractWithin
<1>9. ExtractRight'
  <2>1. (Text(filename) = Unpadded(SubSeq(entry, 1, NAME)))'
    BY <1>2, <1>5, Zenon DEF f
  <2>2. (Text(ext) = Unpadded(SubSeq(entry, NAME + 1, NAME + EXT)))'
    BY <1>2, <1>6, Zenon DEF e
  <2>3. QED
    BY <1>5, <1>6, <2>1, <2>2, Zenon DEF ExtractRight
<1>10. QED
  BY <1>2, <1>7, <1>8, <1>9 DEF StringInv

LEMMA StringStays ==
  ASSUME StringTypeOK, StringInv, UNCHANGED stringVars PROVE StringTypeOK' /\ StringInv'
<1>1. UNCHANGED <<entry, filename, ext, xst>>
  BY DEF stringVars
<1>2. StringTypeOK'
  BY <1>1 DEF StringTypeOK
<1>3. ExtractRight' /\ ExtractWithin'
  BY <1>1, Zenon DEF StringInv, ExtractRight, ExtractWithin
<1>4. QED
  BY <1>1, <1>2, <1>3, Zenon DEF StringInv, Copying, Field

-----------------------------------------------------------------------------
(* vfprintf.  The places of the template before the index have been        *)
(* printed, if it is proper, and the index is at a place.                  *)
Characters == {"a", "%", "s", "d"}

IsPlace(t, k) == k > 0 => t[k] # "%"

PlacesTo(t, k, o) ==
  /\ Len(o) = Cardinality(Places(t, k))
  /\ \A j \in Places(t, k) : o[Cardinality(Places(t, j))] = Printed(t, j)

PrintedTo(t, k, o, n) ==
  IsPlace(t, k) /\ n = Cardinality(Conversions(t, k)) /\ PlacesTo(t, k, o)

PrintfInv ==
  /\ PrintfWithin
  /\ args < pi
  /\ pst = "done" => pi = Len(template) + 1
  /\ Proper(template) => PrintedTo(template, pi - 1, out, args)

LEMMA PlacesFinite ==
  ASSUME NEW t, NEW k \in Nat
  PROVE  /\ IsFiniteSet(Places(t, k)) /\ Cardinality(Places(t, k)) \in Nat
         /\ IsFiniteSet(Conversions(t, k)) /\ Cardinality(Conversions(t, k)) \in Nat
<1>1. IsFiniteSet(1 .. k)
  BY FS_Interval
<1>2. Places(t, k) \in SUBSET (1 .. k) /\ Conversions(t, k) \in SUBSET (1 .. k)
  BY DEF Places, Conversions
<1>3. IsFiniteSet(Places(t, k)) /\ IsFiniteSet(Conversions(t, k))
  BY <1>1, <1>2, FS_Subset
<1>4. QED
  BY <1>3, FS_CardinalityType

(* The next place is printed behind what has been.                         *)
LEMMA PlaceIsPrinted ==
  ASSUME NEW S, NEW t, NEW k \in Nat, IsPlace(t, k), NEW o \in Seq(S),
         PlacesTo(t, k, o), Printed(t, k + 1) \in S
  PROVE  /\ Places(t, k + 1) = Places(t, k) \cup {k + 1}
         /\ PlacesTo(t, k + 1, Append(o, Printed(t, k + 1)))
<1> DEFINE x == Printed(t, k + 1)
           a == Append(o, x)
<1>1. Places(t, k + 1) = Places(t, k) \cup {k + 1} /\ k + 1 \notin Places(t, k)
  BY DEF Places, IsPlace
<1>2. Cardinality(Places(t, k + 1)) = Len(o) + 1
  BY <1>1, PlacesFinite, FS_AddElement DEF PlacesTo
<1>3. /\ Len(a) = Len(o) + 1 /\ a[Len(o) + 1] = x
      /\ \A i \in 1 .. Len(o) : a[i] = o[i]
  OBVIOUS
<1> HIDE DEF a, x
<1>4. ASSUME NEW j \in Places(t, k + 1) PROVE a[Cardinality(Places(t, j))] = Printed(t, j)
  <2>1. CASE j = k + 1
    BY <1>2, <1>3, <2>1 DEF x
  <2>2. CASE j # k + 1
    <3>1. j \in Places(t, k) /\ j \in 1 .. k
      BY <1>1, <2>2 DEF Places
    <3>2. Places(t, j) \in SUBSET Places(t, k) /\ j \in Places(t, j)
      BY <3>1 DEF Places
    <3>3. Cardinality(Places(t, j)) <= Cardinality(Places(t, k))
      BY <3>2, PlacesFinite, FS_Subset
    <3>4. Cardinality(Places(t, j)) \in Nat /\ Cardinality(Places(t, j)) # 0
      <4>1. j \in Nat
        BY <3>1
      <4>2. QED
        BY <3>2, <4>1, PlacesFinite, FS_EmptySet
    <3>5. Cardinality(Places(t, j)) \in 1 .. Len(o)
      BY <3>3, <3>4 DEF PlacesTo
    <3>6. QED
      BY <1>3, <3>1, <3>5 DEF PlacesTo
  <2>3. QED
    BY <2>1, <2>2
<1>5. QED
  BY <1>1, <1>2, <1>3, <1>4 DEF a, x, PlacesTo

(* An ordinary character, and a conversion. *)
LEMMA CharacterPrinted ==
  ASSUME NEW S, NEW t, NEW k \in Nat, NEW o \in Seq(S), NEW n, PrintedTo(t, k, o, n),
         t[k + 1] # "%", Printed(t, k + 1) \in S
  PROVE  PrintedTo(t, k + 1, Append(o, Printed(t, k + 1)), n)
<1>1. Conversions(t, k + 1) = Conversions(t, k)
  BY DEF Conversions
<1>2. QED
  BY <1>1, PlaceIsPrinted DEF PrintedTo, IsPlace

LEMMA ConversionPrinted ==
  ASSUME NEW S, NEW t, NEW k \in Nat, NEW o \in Seq(S), NEW n \in Nat, PrintedTo(t, k, o, n),
         t[k + 1] = "%", t[k + 2] # "%", <<t[k + 2], n + 1>> \in S
  PROVE  PrintedTo(t, k + 2, Append(o, <<t[k + 2], n + 1>>), n + 1)
<1>0. (k + 1) + 1 = k + 2 /\ (k + 2) - 1 = k + 1
  OBVIOUS
<1>1. /\ Conversions(t, k + 1) = Conversions(t, k) \cup {k + 1}
      /\ k + 1 \notin Conversions(t, k)
      /\ Conversions(t, k + 2) = Conversions(t, k + 1)
  BY DEF Conversions
<1>2. Cardinality(Conversions(t, k + 1)) = n + 1
  BY <1>1, PlacesFinite, FS_AddElement DEF PrintedTo
<1>3. Printed(t, k + 1) = <<t[k + 2], n + 1>>
  BY <1>0, <1>2 DEF Printed
<1>4. Places(t, k + 2) = Places(t, k + 1)
  <2>1. \A j \in 1 .. k + 2 : j \in 1 .. k + 1 \/ j = k + 2
    OBVIOUS
  <2>2. k + 2 \notin Places(t, k + 2)
    BY <1>0 DEF Places
  <2>3. QED
    BY <2>1, <2>2 DEF Places
<1>5. PlacesTo(t, k + 1, Append(o, <<t[k + 2], n + 1>>))
  BY <1>3, PlaceIsPrinted DEF PrintedTo
<1>6. QED
  BY <1>1, <1>2, <1>4, <1>5 DEF PrintedTo, IsPlace, PlacesTo

PrintfTypeOK ==
  /\ template \in Templates /\ pi \in 1 .. TEMPLATE + 2
  /\ out \in Seq(Output) /\ args \in 0 .. TEMPLATE
  /\ pst \in {"rest", "run", "done"}

LEMMA TemplatesAreSequences ==
  \A t \in Templates : t \in Seq(Characters) /\ Len(t) \in 0 .. TEMPLATE
<1>1. TAKE t \in Templates
<1>2. PICK m \in 0 .. TEMPLATE : t \in [1 .. m -> Characters]
  BY DEF Templates, BoundedSeq, SeqOf, Characters
<1>3. QED
  BY <1>2, Sizes

(* While it runs: where the index is and what it is at. *)
LEMMA TemplateStands ==
  ASSUME PrintfTypeOK, PrintfInv
  PROVE  /\ template \in Seq(Characters) /\ Len(template) \in 0 .. TEMPLATE
         /\ pi \in 1 .. Len(template) + 1 /\ pi - 1 \in Nat /\ pi = (pi - 1) + 1
         /\ args \in Nat /\ args < pi
         /\ At(pi) # "nul" => pi \in 1 .. Len(template) /\ template[pi] = At(pi)
<1>1. template \in Seq(Characters) /\ Len(template) \in 0 .. TEMPLATE
  BY TemplatesAreSequences DEF PrintfTypeOK
<1>2. /\ pi \in 1 .. Len(template) + 1 /\ pi - 1 \in Nat /\ pi = (pi - 1) + 1
      /\ args \in Nat /\ args < pi
  BY <1>1, Sizes DEF PrintfTypeOK, PrintfInv, PrintfWithin
<1>3. QED
  BY <1>1, <1>2 DEF At

LEMMA PrintCharKeeps ==
  ASSUME PrintfTypeOK, PrintfInv, PrintChar PROVE PrintfTypeOK' /\ PrintfInv'
<1>1. /\ At(pi) # "nul" /\ At(pi) # "%" /\ out' = Append(out, <<At(pi), 0>>)
      /\ pi' = pi + 1 /\ UNCHANGED <<template, args, pst>> /\ pst = "run"
  BY DEF PrintChar
<1>2. /\ template \in Seq(Characters) /\ Len(template) \in 0 .. TEMPLATE
      /\ pi \in 1 .. Len(template) /\ template[pi] = At(pi) /\ pi - 1 \in Nat
      /\ pi = (pi - 1) + 1 /\ args \in Nat /\ args < pi
  BY <1>1, TemplateStands
<1>3. <<At(pi), 0>> \in Output
  <2>1. At(pi) \in Characters /\ 0 \in 0 .. TEMPLATE
    BY <1>2, Sizes
  <2>2. QED
    BY <2>1 DEF Output, Characters
<1>4. PrintfTypeOK'
  <2>1. pi' \in 1 .. TEMPLATE + 2
    BY <1>1, <1>2, Sizes
  <2>2. QED
    BY <1>1, <1>3, <2>1 DEF PrintfTypeOK
<1>5. pi' <= Len(template') + 1 /\ args' < pi' /\ pst' # "done" /\ pi' - 1 = pi
  BY <1>1, <1>2
<1>6. ASSUME Proper(template) PROVE PrintedTo(template, pi, out', args)
  <2>1. Printed(template, pi) = <<At(pi), 0>>
    BY <1>1, <1>2 DEF Printed
  <2>2. PrintedTo(template, pi - 1, out, args) /\ out \in Seq(Output)
    BY <1>6 DEF PrintfInv, PrintfTypeOK
  <2>3. QED
    BY <1>1, <1>2, <1>3, <2>1, <2>2, CharacterPrinted
<1>7. QED
  BY <1>1, <1>4, <1>5, <1>6 DEF PrintfInv, PrintfWithin

LEMMA ConvertKeeps ==
  ASSUME PrintfTypeOK, PrintfInv, Convert PROVE PrintfTypeOK' /\ PrintfInv'
<1>1. At(pi) = "%" /\ UNCHANGED <<template, pst>> /\ pst = "run"
  BY DEF Convert
<1>2. /\ template \in Seq(Characters) /\ Len(template) \in 0 .. TEMPLATE
      /\ pi \in 1 .. Len(template) /\ template[pi] = "%" /\ pi - 1 \in Nat
      /\ pi = (pi - 1) + 1 /\ args \in Nat /\ args < pi
  BY <1>1, TemplateStands
<1>3. CASE At(pi + 1) \in {"s", "d"}
  <2>1. /\ out' = Append(out, <<At(pi + 1), args + 1>>)
        /\ args' = args + 1 /\ pi' = pi + 2
    BY <1>3 DEF Convert
  <2>2. pi + 1 \in 1 .. Len(template) /\ template[pi + 1] = At(pi + 1)
    BY <1>2, <1>3 DEF At
  <2>3. <<At(pi + 1), args + 1>> \in Output
    <3>1. At(pi + 1) \in {"a", "%", "s", "d"} /\ args + 1 \in 0 .. TEMPLATE
      BY <1>2, <1>3, <2>2, Sizes
    <3>2. QED
      BY <3>1 DEF Output
  <2>4. PrintfTypeOK'
    <3>1. pi' \in 1 .. TEMPLATE + 2 /\ args' \in 0 .. TEMPLATE
      BY <1>2, <2>1, <2>2, Sizes
    <3>2. QED
      BY <1>1, <2>1, <2>3, <3>1 DEF PrintfTypeOK
  <2>5. pi' <= Len(template') + 1 /\ args' < pi' /\ pst' # "done" /\ pi' - 1 = pi + 1
    BY <1>1, <1>2, <2>1, <2>2
  <2>6. ASSUME Proper(template) PROVE PrintedTo(template, pi + 1, out', args')
    <3> DEFINE k == pi - 1
    <3>1. k \in Nat /\ k + 1 = pi /\ k + 2 = pi + 1
      BY <1>2
    <3>2. PrintedTo(template, k, out, args) /\ out \in Seq(Output)
      BY <2>6 DEF PrintfInv, PrintfTypeOK
    <3> HIDE DEF k
    <3>3. template[k + 1] = "%" /\ template[k + 2] # "%" /\ template[k + 2] = At(pi + 1)
      BY <1>2, <1>3, <2>2, <3>1
    <3>4. PrintedTo(template, k + 2, Append(out, <<template[k + 2], args + 1>>), args + 1)
      BY <1>2, <2>3, <3>1, <3>2, <3>3, ConversionPrinted
    <3>5. QED
      BY <2>1, <3>1, <3>3, <3>4
  <2>7. QED
    BY <1>1, <2>4, <2>5, <2>6 DEF PrintfInv, PrintfWithin
<1>4. CASE At(pi + 1) \notin {"s", "d"}
  <2>1. pi' = pi + 1 /\ UNCHANGED <<out, args>>
    BY <1>4 DEF Convert
  <2>2. PrintfTypeOK'
    <3>1. pi' \in 1 .. TEMPLATE + 2
      BY <1>2, <2>1, Sizes
    <3>2. QED
      BY <1>1, <2>1, <3>1 DEF PrintfTypeOK
  <2>3. pi' <= Len(template') + 1 /\ args' < pi' /\ pst' # "done"
    BY <1>1, <1>2, <2>1
  <2>4. ~Proper(template)
    <3>1. SUFFICES ASSUME Proper(template) PROVE FALSE
      OBVIOUS
    <3>2. pi < Len(template) /\ template[pi + 1] \in {"s", "d"}
      BY <1>2, <3>1 DEF Proper
    <3>3. QED
      BY <1>2, <1>4, <3>2 DEF At
  <2>5. QED
    BY <1>1, <2>2, <2>3, <2>4 DEF PrintfInv, PrintfWithin
<1>5. QED
  BY <1>3, <1>4

LEMMA PrintEndKeeps ==
  ASSUME PrintfTypeOK, PrintfInv, PrintEnd PROVE PrintfTypeOK' /\ PrintfInv'
<1>1. At(pi) = "nul" /\ pst' = "done" /\ UNCHANGED <<template, pi, out, args>>
  BY DEF PrintEnd
<1>2. pi = Len(template) + 1
  <2>1. ASSUME pi \in 1 .. Len(template) PROVE FALSE
    <3>1. template[pi] = "nul" /\ template[pi] \in Characters
      BY <1>1, <2>1, TemplateStands DEF At
    <3>2. QED
      BY <3>1 DEF Characters
  <2>2. QED
    BY <2>1, TemplateStands
<1>3. PrintfTypeOK'
  BY <1>1 DEF PrintfTypeOK
<1>4. QED
  BY <1>1, <1>2, <1>3 DEF PrintfInv, PrintfWithin

LEMMA PrintfStays ==
  ASSUME PrintfTypeOK, PrintfInv, UNCHANGED printfVars PROVE PrintfTypeOK' /\ PrintfInv'
<1>1. UNCHANGED <<template, pi, out, args, pst>>
  BY DEF printfVars
<1>2. PrintfTypeOK'
  BY <1>1 DEF PrintfTypeOK
<1>3. QED
  BY <1>1, <1>2 DEF PrintfInv, PrintfWithin

LEMMA PrintfIsRight == ASSUME PrintfTypeOK, PrintfInv PROVE PrintfRight
<1>1. SUFFICES ASSUME pst = "done", Proper(template)
               PROVE  PlacesTo(template, Len(template), out)
  BY DEF PrintfRight, PlacesTo
<1>2. pi - 1 = Len(template)
  BY <1>1, TemplateStands DEF PrintfInv
<1>3. QED
  BY <1>1, <1>2 DEF PrintfInv, PrintedTo

-----------------------------------------------------------------------------
(* The system call library.  Behind what calls have filled, the data is    *)
(* still zero.                                                             *)
Contents == Letters \cup {ZERO}

ZeroBehind == \A k \in Cells : k > filled => data[k] = ZERO

CallsInv == ZeroBehind /\ OpenRight

More(a, b) == IF a > b THEN a ELSE b

LEMMA FillKeeps ==
  ASSUME CallsTypeOK, ZeroBehind, NEW t \in Seq(Contents), Len(t) <= DATA
  PROVE  /\ Filled(data, t) \in [Cells -> Contents]
         /\ More(Len(t), filled) \in 0 .. DATA
         /\ \A k \in Cells : k > More(Len(t), filled) => Filled(data, t)[k] = ZERO
<1>1. Len(t) \in Nat /\ DATA \in Nat /\ data \in [Cells -> Contents] /\ filled \in 0 .. DATA
  BY Sizes DEF CallsTypeOK, Contents
<1>2. /\ More(Len(t), filled) \in 0 .. DATA
      /\ \A k \in Int : k > More(Len(t), filled) => k > Len(t) /\ k > filled
  BY <1>1 DEF More
<1>3. \A k \in Cells : k \in Int /\ k >= 1
  BY DEF Cells
<1>4. \A k \in Cells : (IF k <= Len(t) THEN t[k] ELSE data[k]) \in Contents
  <2>1. TAKE k \in Cells
  <2>2. CASE k <= Len(t)
    <3>1. k \in 1 .. Len(t)
      BY <1>1, <1>3, <2>2
    <3>2. QED
      BY <2>2, <3>1
  <2>3. CASE ~(k <= Len(t))
    BY <1>1, <2>3
  <2>4. QED
    BY <2>2, <2>3
<1>5. \A k \in Cells : k > More(Len(t), filled) => ~(k <= Len(t)) /\ data[k] = ZERO
  BY <1>1, <1>2, <1>3 DEF ZeroBehind
<1>6. QED
  BY <1>2, <1>4, <1>5 DEF Filled

LEMMA PathsAreStrings ==
  ASSUME NEW p \in Paths
  PROVE  /\ p \in Seq(Letters) /\ Len(p) \in 1 .. 2 /\ p = [k \in 1 .. Len(p) |-> p[k]]
         /\ \A k \in 1 .. Len(p) : p[k] # ZERO
<1>1. CASE p = <<"/">>
  <2>1. <<"/">> \in Seq(Letters) /\ Len(<<"/">>) = 1 /\ <<"/">>[1] # ZERO
    BY DEF Letters, ZERO
  <2>2. QED
    BY <1>1, <2>1
<1>2. CASE p = <<"a">>
  <2>1. <<"a">> \in Seq(Letters) /\ Len(<<"a">>) = 1 /\ <<"a">>[1] # ZERO
    BY DEF Letters, ZERO
  <2>2. QED
    BY <1>2, <2>1
<1>3. CASE p = <<"/", "a">>
  <2>1. <<"/", "a">> \in Seq(Letters) /\ Len(<<"/", "a">>) = 2
        /\ <<"/", "a">>[1] # ZERO /\ <<"/", "a">>[2] # ZERO
    BY DEF Letters, ZERO
  <2>2. QED
    BY <1>3, <2>1
<1>4. QED
  BY <1>1, <1>2, <1>3 DEF Paths, RootPath, DrivePath

(* The string in the buffer is the path, although no zero was put behind   *)
(* it, if nothing was filled behind it before.                             *)
LEMMA PathIsRead ==
  ASSUME CallsTypeOK, ZeroBehind, NEW p \in Paths, filled <= Len(p)
  PROVE  String(Filled(data, p)) = p
<1> DEFINE d == Filled(data, p)
           ends == {k \in Cells : d[k] = ZERO}
           n == Len(p)
<1>1. /\ p \in Seq(Letters) /\ n \in 1 .. 2 /\ p = [k \in 1 .. n |-> p[k]]
      /\ \A k \in 1 .. n : p[k] # ZERO
  BY PathsAreStrings
<1>2. \A k \in Cells : k \in Nat /\ k >= 1 /\ (k <= n => k \in 1 .. n)
  BY <1>1 DEF Cells
<1>3. n + 1 \in Cells /\ n + 1 > filled /\ ~(n + 1 <= n) /\ 1 .. n \subseteq Cells
  BY <1>1, Sizes DEF Cells, CallsTypeOK
<1>4. /\ \A k \in 1 .. n : d[k] = p[k]
      /\ d[n + 1] = ZERO
  <2>1. d[n + 1] = data[n + 1] /\ data[n + 1] = ZERO
    BY <1>3 DEF Filled, ZeroBehind
  <2>2. \A k \in 1 .. n : k \in Cells /\ k <= n
    BY <1>1, <1>3
  <2>3. QED
    BY <2>1, <2>2 DEF Filled
<1> HIDE DEF d
<1>5. n + 1 \in ends /\ ends \in SUBSET Nat
  BY <1>2, <1>3, <1>4
<1>6. \A y \in ends : n + 1 <= y
  <2>1. TAKE y \in ends
  <2>2. y \in Nat /\ ~(y <= n)
    BY <1>1, <1>2, <1>4
  <2>3. QED
    BY <1>1, <2>2
<1> HIDE DEF ends
<1>7. Min(ends) = n + 1 /\ ends # {}
  BY <1>5, <1>6, LeastIsMin
<1>8. Min(ends) - 1 = n
  BY <1>1, <1>7
<1> HIDE DEF n
<1>9. String(d) = [k \in 1 .. n |-> d[k]]
  BY <1>7, <1>8 DEF String, ends
<1>10. [k \in 1 .. n |-> d[k]] = [k \in 1 .. n |-> p[k]]
  BY <1>4
<1>11. QED
  BY <1>1, <1>9, <1>10 DEF d

LEMMA CarryKeeps ==
  ASSUME CallsTypeOK, CallsInv, NEW t \in Seq(Contents), Len(t) <= DATA,
         NEW f \in Fds, Carry(t, f)
  PROVE  CallsTypeOK' /\ CallsInv'
<1>1. /\ data' = Filled(data, t) /\ fd' = f /\ filled' = More(Len(t), filled)
      /\ path' = <<>> /\ opened' = -1 /\ before' = 0
  BY DEF Carry, More
<1>2. /\ data' \in [Cells -> Contents] /\ filled' \in 0 .. DATA
      /\ \A k \in Cells : k > filled' => data'[k] = ZERO
  BY <1>1, FillKeeps DEF CallsInv
<1>3. CallsTypeOK'
  <2>1. -1 \in Fds /\ 0 \in 0 .. DATA
    BY Sizes DEF Fds
  <2>2. QED
    BY <1>1, <1>2, <2>1 DEF CallsTypeOK, Contents
<1>4. QED
  BY <1>1, <1>2, <1>3 DEF CallsInv, ZeroBehind, OpenRight

LEMMA MyopenKeeps ==
  ASSUME CallsTypeOK, CallsInv, NEW p \in Paths, Myopen(p) PROVE CallsTypeOK' /\ CallsInv'
<1>1. /\ data' = Filled(data, p) /\ fd' = OpenAnswer(String(data')) /\ opened' = fd'
      /\ path' = p /\ before' = filled /\ filled' = More(Len(p), filled)
  BY DEF Myopen, OpenData, More
<1>2. p \in Seq(Contents) /\ Len(p) <= DATA
  <2>1. p \in Seq(Letters) /\ Len(p) \in 1 .. 2
    BY PathsAreStrings
  <2>2. \A k \in 1 .. Len(p) : p[k] \in Contents
    BY <2>1 DEF Contents
  <2>3. p \in Seq(Contents)
    BY <2>1, <2>2, PathsAreStrings
  <2>4. Len(p) <= DATA
    <3>1. \A n \in 1 .. 2 : n <= DATA
      BY Sizes
    <3>2. QED
      BY <2>1, <3>1
  <2>5. QED
    BY <2>3, <2>4
<1>3. /\ data' \in [Cells -> Contents] /\ filled' \in 0 .. DATA
      /\ \A k \in Cells : k > filled' => data'[k] = ZERO
  BY <1>1, <1>2, FillKeeps DEF CallsInv
<1>4. fd' \in Fds
  BY <1>1 DEF OpenAnswer, Fds
<1>5. CallsTypeOK'
  BY <1>1, <1>3, <1>4 DEF CallsTypeOK, Contents
<1>6. OpenRight'
  <2>1. SUFFICES ASSUME filled <= Len(p) PROVE opened' = OpenAnswer(p)
    BY <1>1 DEF OpenRight
  <2>2. String(data') = p
    BY <1>1, <2>1, PathIsRead DEF CallsInv
  <2>3. QED
    BY <1>1, <2>2
<1>7. QED
  BY <1>3, <1>5, <1>6 DEF CallsInv, ZeroBehind

LEMMA CallsStays ==
  ASSUME CallsTypeOK, CallsInv, UNCHANGED <<data, path, opened, filled, before>>, fd' \in Fds
  PROVE  CallsTypeOK' /\ CallsInv'
<1>1. CallsTypeOK'
  BY DEF CallsTypeOK
<1>2. QED
  BY <1>1 DEF CallsInv, ZeroBehind, OpenRight

LEMMA CallsStepKeeps ==
  ASSUME CallsTypeOK, CallsInv, CallsStep PROVE CallsTypeOK' /\ CallsInv'
<1>1. \A t \in Texts : t \in Seq(Contents) /\ Len(t) <= DATA
  <2>1. TAKE t \in Texts
  <2>2. PICK m \in 0 .. DATA - 1 : t \in [1 .. m -> Contents]
    BY DEF Texts, Contents
  <2>3. QED
    BY <2>2, Sizes
<1>2. \A t \in [Cells -> Contents] : t \in Seq(Contents) /\ Len(t) <= DATA
  BY Sizes DEF Cells
<1>3. \A f \in {0, 1, 4, 5} : f \in Fds
  BY DEF Fds
<1>4. CASE \E p \in Paths : Myopen(p)
  BY <1>4, MyopenKeeps
<1>5. CASE \E f \in Fds : PassFd(f)
  BY <1>5, CallsStays DEF PassFd
<1>6. CASE \E f \in {0, 4, 5}, t \in Texts : Myread(f, t)
  BY <1>1, <1>3, <1>6, CarryKeeps DEF Myread
<1>7. CASE \E t \in Texts : Mywrite(t)
  BY <1>1, <1>3, <1>7, CarryKeeps DEF Mywrite
<1>8. CASE \E t \in [Cells -> Letters \cup {ZERO}], f \in Fds : RunProgram(t, f)
  BY <1>2, <1>8, CarryKeeps DEF RunProgram, Contents
<1>9. CASE \E t \in Texts : Len(t) >= 1 /\ ListRootFiles(t)
  BY <1>1, <1>3, <1>9, CarryKeeps DEF ListRootFiles
<1>10. QED
  BY <1>4, <1>5, <1>6, <1>7, <1>8, <1>9 DEF CallsStep

-----------------------------------------------------------------------------
(* The number conversions.  The value of a sequence of digits is what      *)
(* Horner's rule gives from 0; of the digits written so far and what is    *)
(* left, the number given.                                                 *)
Writes(h, t, n, v) ==
  /\ h \in [0 .. Len(t) -> Nat] /\ h[0] = n /\ h[Len(t)] = v
  /\ \A k \in 1 .. Len(t) : h[k] = 10 * h[k - 1] + t[k]

ValueBody(digits, v) ==
  [k \in 0 .. Len(digits) |-> IF k = 0 THEN 0 ELSE 10 * v[k - 1] + digits[k]]

LEMMA ValueIsWritten ==
  ASSUME NEW t \in Seq(Int), NEW n, NEW h, Writes(h, t, 0, n) PROVE ValueOf(t) = n
<1>1. h = ValueBody(t, h)
  <2>1. \A k \in 0 .. Len(t) : k = 0 \/ k \in 1 .. Len(t)
    OBVIOUS
  <2>2. QED
    BY <2>1 DEF Writes, ValueBody
<1> DEFINE c == CHOOSE v : v = ValueBody(t, v)
<1>2. c = ValueBody(t, c)
  BY <1>1, Zenon
<1>3. ValueOf(t) = c[Len(t)]
  BY DEF ValueOf, ValueBody
<1> HIDE DEF c
<1>4. c[0] = 0 /\ \A k \in 1 .. Len(t) : c[k] = 10 * c[k - 1] + t[k]
  BY <1>2 DEF ValueBody
<1> DEFINE S == {k \in Nat : k <= Len(t) => c[k] = h[k]}
<1>5. 0 \in S
  BY <1>4 DEF Writes
<1>6. \A k \in Nat : k \in S => k + 1 \in S
  <2>1. SUFFICES ASSUME NEW k \in Nat, k \in S, k + 1 <= Len(t) PROVE c[k + 1] = h[k + 1]
    OBVIOUS
  <2>2. c[k] = h[k] /\ k + 1 \in 1 .. Len(t) /\ (k + 1) - 1 = k
    BY <2>1
  <2>3. c[k + 1] = 10 * c[k] + t[k + 1]
    BY <1>4, <2>2
  <2>4. h[k + 1] = 10 * h[k] + t[k + 1]
    BY <2>2 DEF Writes
  <2>5. QED
    BY <2>2, <2>3, <2>4
<1>7. Len(t) \in S
  <2>1. Len(t) \in Nat
    OBVIOUS
  <2> HIDE DEF S
  <2>2. QED
    BY <1>5, <1>6, <2>1, SetInduction
<1>8. QED
  BY <1>3, <1>7 DEF Writes

(* A digit in front takes the last one off what is left. *)
LEMMA DigitInFront ==
  ASSUME NEW t \in Seq(0 .. MINUS), NEW d \in 0 .. 9, NEW q \in Nat, NEW v, NEW h,
         Writes(h, t, 10 * q + d, v)
  PROVE  /\ <<d>> \o t \in Seq(0 .. MINUS) /\ Len(<<d>> \o t) = Len(t) + 1
         /\ (<<d>> \o t)[1] = d
         /\ \E g : Writes(g, <<d>> \o t, q, v)
<1> DEFINE a == <<d>> \o t
           g == [k \in 0 .. Len(t) + 1 |-> IF k = 0 THEN q ELSE h[k - 1]]
<1>1. /\ a \in Seq(0 .. MINUS) /\ Len(a) = Len(t) + 1 /\ a[1] = d
      /\ \A k \in 1 .. Len(t) : a[k + 1] = t[k]
  BY DEF MINUS
<1>2. h \in [0 .. Len(t) -> Nat] /\ Len(t) \in Nat
  BY DEF Writes
<1>3. /\ g \in [0 .. Len(t) + 1 -> Nat] /\ g[0] = q
      /\ \A k \in 1 .. Len(t) + 1 : g[k] = h[k - 1]
  <2>1. \A k \in 1 .. Len(t) + 1 : k - 1 \in 0 .. Len(t) /\ h[k - 1] \in Nat
    BY <1>2
  <2>2. QED
    BY <2>1
<1> HIDE DEF a, g
<1>4. g[Len(t) + 1] = v
  <2>1. Len(t) + 1 \in 1 .. Len(t) + 1 /\ (Len(t) + 1) - 1 = Len(t)
    BY <1>2
  <2>2. QED
    BY <1>3, <2>1 DEF Writes
<1>5. \A k \in 1 .. Len(t) + 1 : g[k] = 10 * g[k - 1] + a[k]
  <2>1. TAKE k \in 1 .. Len(t) + 1
  <2>2. CASE k = 1
    <3>1. g[1] = h[0]
      BY <1>2, <1>3
    <3>2. QED
      BY <1>1, <1>3, <2>2, <3>1 DEF Writes
  <2>3. CASE k # 1
    <3>1. k - 1 \in 1 .. Len(t) /\ k - 1 \in 1 .. Len(t) + 1 /\ (k - 1) + 1 = k
      BY <1>2, <2>3
    <3>2. g[k] = h[k - 1] /\ g[k - 1] = h[(k - 1) - 1] /\ a[k] = t[k - 1]
      BY <1>1, <1>3, <3>1
    <3>3. h[k - 1] = 10 * h[(k - 1) - 1] + t[k - 1]
      BY <3>1 DEF Writes
    <3>4. QED
      BY <3>2, <3>3
  <2>4. QED
    BY <2>2, <2>3
<1>6. Writes(g, a, q, v)
  BY <1>1, <1>3, <1>4, <1>5 DEF Writes
<1>7. QED
  BY <1>1, <1>6 DEF a

(* The powers of 10 up to the first number too long for DIGITS digits.     *)
PowersBody(p) == [k \in 0 .. DIGITS |-> IF k = 0 THEN 1 ELSE 10 * p[k - 1]]

Powers == CHOOSE p : p = PowersBody(p)

LEMMA PowersOfTen ==
  /\ TooLong = Powers[DIGITS]
  /\ Powers[0] = 1
  /\ \A k \in 1 .. DIGITS : Powers[k] = 10 * Powers[k - 1]
  /\ \A k \in 0 .. DIGITS : Powers[k] \in Nat
<1> DEFINE g == [x \in Nat |-> 10 * x]
<1>1. g \in [Nat -> Nat] /\ 1 \in Nat /\ DIGITS \in Nat
  BY Sizes
<1>2. PICK f \in [0 .. DIGITS -> Nat] :
        f[0] = 1 /\ \A k \in 1 .. DIGITS : f[k] = g[f[k - 1]]
  <2> HIDE DEF g
  <2>1. \E f : Iterates(f, Nat, 1, g, DIGITS)
    BY <1>1, Iteration
  <2>2. QED
    BY <2>1 DEF Iterates
<1>3. \A k \in 1 .. DIGITS : f[k] = 10 * f[k - 1]
  <2>1. \A k \in 1 .. DIGITS : k - 1 \in 0 .. DIGITS
    BY <1>1
  <2>2. QED
    BY <1>2, <2>1
<1>4. f = PowersBody(f)
  <2>1. \A k \in 0 .. DIGITS : k = 0 \/ k \in 1 .. DIGITS
    BY <1>1
  <2>2. QED
    BY <1>2, <1>3, <2>1 DEF PowersBody
<1>5. Powers = PowersBody(Powers)
  BY <1>4, Zenon DEF Powers
<1>6. /\ Powers[0] = 1
      /\ \A k \in 1 .. DIGITS : Powers[k] = 10 * Powers[k - 1]
  BY <1>1, <1>5 DEF PowersBody
<1>7. TooLong = Powers[DIGITS]
  BY DEF TooLong, Powers, PowersBody
<1> DEFINE S == {k \in Nat : k <= DIGITS => Powers[k] \in Nat}
<1>8. 0 \in S
  BY <1>6
<1>9. \A k \in Nat : k \in S => k + 1 \in S
  <2>1. SUFFICES ASSUME NEW k \in Nat, k \in S, k + 1 <= DIGITS
                 PROVE  Powers[k + 1] \in Nat
    OBVIOUS
  <2>2. Powers[k] \in Nat /\ k + 1 \in 1 .. DIGITS /\ (k + 1) - 1 = k
    BY <1>1, <2>1
  <2>3. QED
    BY <1>6, <2>2
<1>10. Nat \subseteq S
  <2> HIDE DEF S
  <2>1. QED
    BY <1>8, <1>9, SetInduction
<1>11. QED
  BY <1>1, <1>6, <1>7, <1>10

ItoaTypeOK ==
  /\ val \in Int /\ ival \in Int /\ text \in Seq(0 .. MINUS)
  /\ nst \in {"rest", "run", "done"}

(* A number of DIGITS digits has so many left as the buffer has room for. *)
RoomLeft == Abs(val) < TooLong => Len(text) <= DIGITS /\ Abs(ival) < Powers[DIGITS - Len(text)]

ItoaInv ==
  /\ nst = "rest" => text = <<>>
  /\ nst = "run" =>
       /\ text = <<>> => ival = val
       /\ text # <<>> => ival # 0
       /\ val < 0 <=> ival < 0
       /\ \E h : Writes(h, text, Abs(ival), Abs(val))
       /\ RoomLeft
  /\ ItoaRight

(* C's remainder and quotient take the last digit off, of a negative       *)
(* number, too.                                                            *)
LEMMA LastDigit ==
  ASSUME NEW n \in Int
  PROVE  /\ Digit(n) \in 0 .. 9 /\ Quot(n) \in Int
         /\ Abs(n) \in Nat /\ Abs(Quot(n)) \in Nat
         /\ Abs(n) = 10 * Abs(Quot(n)) + Digit(n)
         /\ Quot(n) # 0 => (Quot(n) < 0 <=> n < 0)
<1>1. \A m \in Nat : m \div 10 \in Nat /\ m % 10 \in 0 .. 9 /\ m = 10 * (m \div 10) + (m % 10)
  <2>1. TAKE m \in Nat
  <2>2. m % 10 \in 0 .. 9
    OBVIOUS
  <2>3. m \div 10 \in Int
    OBVIOUS
  <2>4. m = 10 * (m \div 10) + (m % 10)
    OBVIOUS
  <2>5. QED
    BY <2>2, <2>3, <2>4
<1>2. CASE n >= 0
  <2>1. n \in Nat /\ ~(n < 0)
    BY <1>2
  <2>2. Digit(n) = n % 10 /\ Quot(n) = n \div 10 /\ Abs(n) = n
    BY <1>2, <2>1 DEF Digit, Rem, Quot, Abs
  <2>3. n \div 10 \in Nat /\ n % 10 \in 0 .. 9 /\ n = 10 * (n \div 10) + (n % 10)
    BY <1>1, <2>1
  <2>4. Abs(n \div 10) = n \div 10
    BY <2>3 DEF Abs
  <2>5. QED
    BY <2>1, <2>2, <2>3, <2>4
<1>3. CASE n < 0
  <2> DEFINE m == -n
  <2>1. m \in Nat /\ Abs(n) = m /\ ~(n >= 0)
    BY <1>3 DEF Abs
  <2> HIDE DEF m
  <2>2. m \div 10 \in Nat /\ m % 10 \in 0 .. 9 /\ m = 10 * (m \div 10) + (m % 10)
    BY <1>1, <2>1
  <2>3. Quot(n) = -(m \div 10) /\ Rem(n) = -(m % 10) /\ Digit(n) = -Rem(n)
    BY <1>3, <2>1 DEF Digit, Rem, Quot
  <2>4. Digit(n) = m % 10
    BY <2>2, <2>3
  <2>5. Quot(n) \in Int /\ Abs(Quot(n)) = m \div 10 /\ (Quot(n) # 0 => Quot(n) < 0)
    BY <2>2, <2>3 DEF Abs
  <2>6. QED
    BY <1>3, <2>1, <2>2, <2>4, <2>5
<1>4. QED
  BY <1>2, <1>3

LEMMA DigitsAreNumbers == \A t \in Seq(0 .. MINUS) : t \in Seq(Int)
<1>1. TAKE t \in Seq(0 .. MINUS)
<1>2. \A k \in 1 .. Len(t) : t[k] \in Int
  BY DEF MINUS
<1>3. t = [k \in 1 .. Len(t) |-> t[k]] /\ Len(t) \in Nat
  OBVIOUS
<1>4. QED
  BY <1>2, <1>3

(* Behind the sign are the digits. *)
LEMMA SignOff ==
  ASSUME NEW S, NEW m \in Seq(S), NEW x \in S
  PROVE  SubSeq(<<x>> \o m, 2, Len(<<x>> \o m)) = m
<1> DEFINE s == <<x>> \o m
           n == Len(m)
           u == SubSeq(s, 2, n + 1)
<1>1. /\ s \in Seq(S) /\ Len(s) = n + 1 /\ n \in Nat
      /\ \A k \in 1 .. n : s[k + 1] = m[k]
  OBVIOUS
<1> HIDE DEF s, n
<1>2. u \in Seq(S) /\ Len(u) = n /\ \A k \in 1 .. n : u[k] = s[k + 1]
  BY <1>1
<1> HIDE DEF u
<1>3. u = m
  BY <1>1, <1>2 DEF n
<1>4. QED
  BY <1>1, <1>3 DEF u, s

(* A turn keeps what is left in the room there is.                         *)
LEMMA TurnFits ==
  ASSUME NEW n \in Nat, NEW q \in Nat, NEW d \in 0 .. 9, n = 10 * q + d,
         NEW l \in Nat, l <= DIGITS, n < Powers[DIGITS - l], l > 0 => n # 0
  PROVE  l + 1 <= DIGITS /\ q < Powers[DIGITS - (l + 1)]
<1>1. DIGITS \in Nat /\ DIGITS >= 1
  BY Sizes
<1>2. l # DIGITS
  <2>1. SUFFICES ASSUME l = DIGITS PROVE FALSE
    OBVIOUS
  <2>2. DIGITS - l = 0 /\ n # 0
    BY <1>1, <2>1
  <2>3. n < 1
    BY <2>2, PowersOfTen
  <2>4. QED
    BY <2>2, <2>3
<1> DEFINE k == DIGITS - l
<1>3. k \in 1 .. DIGITS /\ k - 1 = DIGITS - (l + 1) /\ k - 1 \in 0 .. DIGITS
  BY <1>1, <1>2
<1> HIDE DEF k
<1>4. Powers[k] = 10 * Powers[k - 1] /\ Powers[k - 1] \in Nat
  BY <1>3, PowersOfTen
<1>5. n < Powers[k]
  BY DEF k
<1>6. q < Powers[k - 1]
  <2>1. \A p \in Nat : 10 * q + d < 10 * p => q < p
    OBVIOUS
  <2>2. QED
    BY <1>4, <1>5, <2>1
<1>7. QED
  BY <1>1, <1>2, <1>3, <1>6

LEMMA ItoaTurnKeeps ==
  ASSUME ItoaTypeOK, ItoaInv, ItoaTurn PROVE ItoaTypeOK' /\ ItoaInv'
<1> DEFINE d == Digit(ival)
           q == Quot(ival)
           more == <<d>> \o text
<1>1. nst = "run" /\ ival' = q /\ UNCHANGED val
  BY DEF ItoaTurn
<1>2. /\ ival \in Int /\ val \in Int /\ text \in Seq(0 .. MINUS) /\ Len(text) \in Nat
      /\ text = <<>> => ival = val
      /\ text # <<>> => ival # 0
      /\ val < 0 <=> ival < 0
      /\ RoomLeft
  BY <1>1 DEF ItoaTypeOK, ItoaInv
<1>3. /\ d \in 0 .. 9 /\ q \in Int /\ Abs(ival) \in Nat /\ Abs(q) \in Nat
      /\ Abs(ival) = 10 * Abs(q) + d
      /\ q # 0 => (q < 0 <=> ival < 0)
  BY <1>2, LastDigit
<1>4. /\ more \in Seq(0 .. MINUS) /\ Len(more) = Len(text) + 1 /\ more[1] = d
      /\ \E g : Writes(g, more, Abs(q), Abs(val))
  <2>1. PICK h : Writes(h, text, 10 * Abs(q) + d, Abs(val))
    BY <1>1, <1>3 DEF ItoaInv
  <2> HIDE DEF d, q
  <2>2. QED
    BY <1>2, <1>3, <2>1, DigitInFront
<1>5. Abs(val) < TooLong =>
        Len(more) <= DIGITS /\ Abs(q) < Powers[DIGITS - Len(more)]
  <2>1. SUFFICES ASSUME Abs(val) < TooLong
                 PROVE  Len(more) <= DIGITS /\ Abs(q) < Powers[DIGITS - Len(more)]
    OBVIOUS
  <2>2. Len(text) <= DIGITS /\ Abs(ival) < Powers[DIGITS - Len(text)]
    BY <1>2, <2>1 DEF RoomLeft
  <2>3. Len(text) > 0 => Abs(ival) # 0
    BY <1>2 DEF Abs
  <2> DEFINE n == Abs(ival)
             l == Len(text)
             r == Abs(q)
  <2>4. n \in Nat /\ r \in Nat /\ d \in 0 .. 9 /\ n = 10 * r + d /\ l \in Nat /\ l <= DIGITS
        /\ n < Powers[DIGITS - l] /\ (l > 0 => n # 0)
    BY <1>2, <1>3, <2>2, <2>3
  <2> HIDE DEF n, l, r, d
  <2>5. l + 1 <= DIGITS /\ r < Powers[DIGITS - (l + 1)]
    BY <2>4, TurnFits
  <2>6. QED
    BY <1>4, <2>5 DEF l, r
<1>6. CASE q # 0
  <2>1. text' = more /\ nst' = "run"
    BY <1>1, <1>6 DEF ItoaTurn, DigitsLeft
  <2> HIDE DEF more, d, q
  <2>2. ItoaTypeOK'
    BY <1>1, <1>2, <1>3, <1>4, <2>1 DEF ItoaTypeOK
  <2>3. text' # <<>>
    BY <1>2, <1>4, <2>1
  <2>4. ival' # 0 /\ (val' < 0 <=> ival' < 0)
    BY <1>1, <1>2, <1>3, <1>6
  <2>5. \E h : Writes(h, text', Abs(ival'), Abs(val'))
    BY <1>1, <1>4, <2>1
  <2>6. RoomLeft'
    BY <1>1, <1>5, <2>1 DEF RoomLeft
  <2>7. ItoaRight'
    <3>1. Abs(val') < TooLong => Len(text') <= DIGITS + 1
      <4>1. \A n \in Nat : n <= DIGITS => n <= DIGITS + 1
        BY Sizes
      <4>2. Len(text') \in Nat
        BY <1>2, <1>4, <2>1
      <4>3. QED
        BY <1>1, <1>5, <2>1, <4>1, <4>2
    <3>2. QED
      BY <2>1, <3>1 DEF ItoaRight
  <2>8. QED
    BY <2>1, <2>2, <2>3, <2>4, <2>5, <2>6, <2>7 DEF ItoaInv
<1>7. CASE q = 0
  <2>1. text' = (IF val < 0 THEN <<MINUS>> \o more ELSE more) /\ nst' = "done"
    BY <1>1, <1>7 DEF ItoaTurn, DigitsLeft
  <2>2. Abs(q) = 0
    BY <1>7 DEF Abs
  <2>3. d = 0 => val = 0
    <3>1. SUFFICES ASSUME d = 0 PROVE val = 0
      OBVIOUS
    <3>2. Abs(ival) = 0
      BY <1>3, <2>2, <3>1
    <3>3. ival = 0
      BY <1>2, <3>2 DEF Abs
    <3>4. QED
      BY <1>2, <3>3
  <2>4. ValueOf(more) = Abs(val)
    <3>1. more \in Seq(Int)
      BY <1>4, DigitsAreNumbers
    <3> HIDE DEF more
    <3>2. QED
      BY <1>4, <2>2, <3>1, ValueIsWritten
  <2> HIDE DEF more, d, q
  <2>5. /\ <<MINUS>> \o more \in Seq(0 .. MINUS) /\ (<<MINUS>> \o more)[1] = MINUS
        /\ Len(<<MINUS>> \o more) = Len(more) + 1
        /\ \A k \in 1 .. Len(more) : (<<MINUS>> \o more)[k + 1] = more[k]
    BY <1>4 DEF MINUS
  <2>6. SubSeq(<<MINUS>> \o more, 2, Len(<<MINUS>> \o more)) = more
    <3>1. MINUS \in 0 .. MINUS
      BY DEF MINUS
    <3>2. QED
      BY <1>4, <3>1, SignOff
  <2>7. ItoaTypeOK'
    BY <1>1, <1>2, <1>3, <1>4, <2>1, <2>5 DEF ItoaTypeOK
  <2>8. (IF val' < 0 THEN SubSeq(text', 2, Len(text')) ELSE text') = more
    BY <1>1, <2>1, <2>6
  <2>9. val' < 0 => text'[1] = MINUS
    BY <1>1, <2>1, <2>5
  <2>10. Abs(val') < TooLong => Len(text') <= DIGITS + 1
    <3>1. SUFFICES ASSUME Abs(val) < TooLong PROVE Len(text') <= DIGITS + 1
      BY <1>1
    <3>2. Len(more) \in Nat /\ Len(more) <= DIGITS
      BY <1>4, <1>5, <3>1
    <3>3. Len(text') = Len(more) \/ Len(text') = Len(more) + 1
      BY <2>1, <2>5
    <3>4. QED
      BY <3>2, <3>3, Sizes
  <2>11. ItoaRight'
    BY <1>1, <1>4, <2>3, <2>4, <2>8, <2>9, <2>10 DEF ItoaRight
  <2>12. QED
    BY <2>1, <2>7, <2>11 DEF ItoaInv
<1>8. QED
  BY <1>6, <1>7

LEMMA ItoaStays ==
  ASSUME ItoaTypeOK, ItoaInv, UNCHANGED itoaVars PROVE ItoaTypeOK' /\ ItoaInv'
<1>1. UNCHANGED <<val, ival, text, nst>>
  BY DEF itoaVars
<1>2. ItoaTypeOK'
  BY <1>1 DEF ItoaTypeOK
<1>3. QED
  BY <1>1, <1>2, Zenon DEF ItoaInv, RoomLeft, ItoaRight

-----------------------------------------------------------------------------
(* Each part's invariant is inductive, whichever function was called.      *)
CLibInv == TypeOK /\ StringInv /\ PrintfInv /\ ItoaInv /\ CallsInv

LEMMA StdioTypes == StdioTypeOK <=> PrintfTypeOK /\ ItoaTypeOK
BY DEF StdioTypeOK, PrintfTypeOK, ItoaTypeOK

LEMMA StdioTypesNext == StdioTypeOK' <=> PrintfTypeOK' /\ ItoaTypeOK'
BY DEF StdioTypeOK, PrintfTypeOK, ItoaTypeOK

LEMMA StringStarts == StringInit \/ StringRest => StringTypeOK /\ StringInv
<1>1. SUFFICES ASSUME StringInit \/ StringRest PROVE StringTypeOK /\ StringInv
  OBVIOUS
<1>2. /\ filename = <<>> /\ ext = <<>> /\ xst \in {"name", "rest"}
      /\ entry \in [1 .. NAME + EXT + 1 -> Bytes]
  BY <1>1 DEF StringInit, StringRest, Bytes
<1>3. filename \in Seq(Bytes) /\ ext \in Seq(Bytes) /\ Len(filename) = 0 /\ Len(ext) = 0
  BY <1>2
<1>4. StringTypeOK
  BY <1>2, <1>3 DEF StringTypeOK
<1>5. ExtractWithin /\ Len(filename) <= NAME
  BY <1>3, Sizes DEF ExtractWithin
<1>6. Copying(filename, 0)
  BY <1>3 DEF Copying
<1>7. QED
  BY <1>2, <1>4, <1>5, <1>6 DEF StringInv, ExtractRight

LEMMA PrintfStarts == PrintfInit \/ PrintfRest => PrintfTypeOK /\ PrintfInv
<1>1. SUFFICES ASSUME PrintfInit \/ PrintfRest PROVE PrintfTypeOK /\ PrintfInv
  OBVIOUS
<1>2. /\ template \in Templates /\ pi = 1 /\ out = <<>> /\ args = 0
      /\ pst \in {"run", "rest"}
  <2>1. <<>> \in Templates
    <3>1. <<>> \in [1 .. 0 -> Characters] /\ 0 \in 0 .. TEMPLATE
      BY Sizes
    <3>2. QED
      BY <3>1 DEF Templates, BoundedSeq, SeqOf, Characters
  <2>2. QED
    BY <1>1, <2>1 DEF PrintfInit, PrintfRest
<1>3. out \in Seq(Output) /\ Len(out) = 0
  BY <1>2
<1>4. PrintfTypeOK
  BY <1>2, <1>3, Sizes DEF PrintfTypeOK
<1>5. pi <= Len(template) + 1 /\ args < pi /\ pi - 1 = 0
  BY <1>2, TemplatesAreSequences
<1>6. PrintedTo(template, 0, out, args)
  <2>1. Conversions(template, 0) = {} /\ Places(template, 0) = {}
    BY DEF Conversions, Places
  <2>2. Cardinality(Conversions(template, 0)) = 0 /\ Cardinality(Places(template, 0)) = 0
    BY <2>1, FS_EmptySet
  <2>3. IsPlace(template, 0)
    BY DEF IsPlace
  <2>4. PlacesTo(template, 0, out)
    BY <1>3, <2>1, <2>2 DEF PlacesTo
  <2>5. QED
    BY <1>2, <2>2, <2>3, <2>4 DEF PrintedTo
<1>7. QED
  BY <1>2, <1>4, <1>5, <1>6 DEF PrintfInv, PrintfWithin

LEMMA ItoaStarts == ItoaInit \/ ItoaRest => ItoaTypeOK /\ ItoaInv
<1>1. SUFFICES ASSUME ItoaInit \/ ItoaRest PROVE ItoaTypeOK /\ ItoaInv
  OBVIOUS
<1>2. val \in Int /\ ival = val /\ text = <<>> /\ nst \in {"run", "rest"}
  BY <1>1, Sizes DEF ItoaInit, ItoaRest
<1>3. text \in Seq(0 .. MINUS) /\ Len(text) = 0
  BY <1>2
<1>4. ItoaTypeOK
  BY <1>2, <1>3 DEF ItoaTypeOK
<1>5. Abs(val) \in Nat
  BY <1>2 DEF Abs
<1>6. Writes([k \in 0 .. 0 |-> Abs(val)], text, Abs(ival), Abs(val))
  BY <1>2, <1>3, <1>5 DEF Writes
<1>7. RoomLeft /\ Len(text) <= DIGITS + 1
  <2>1. DIGITS \in Nat /\ DIGITS - 0 = DIGITS
    BY Sizes
  <2>2. Abs(val) < TooLong => Abs(ival) < Powers[DIGITS]
    BY <1>2, PowersOfTen
  <2>3. QED
    BY <1>3, <2>1, <2>2 DEF RoomLeft
<1>8. ItoaRight
  BY <1>2, <1>7 DEF ItoaRight
<1>9. QED
  BY <1>2, <1>4, <1>6, <1>7, <1>8 DEF ItoaInv

LEMMA CallsStart == CallsInit => CallsTypeOK /\ CallsInv
<1>1. SUFFICES ASSUME CallsInit PROVE CallsTypeOK /\ CallsInv
  OBVIOUS
<1>2. /\ data = [k \in Cells |-> ZERO] /\ fd = 0 /\ path = <<>> /\ opened = -1
      /\ filled = 0 /\ before = 0
  BY <1>1 DEF CallsInit
<1>3. 0 \in 0 .. DATA /\ 0 \in Fds /\ -1 \in Fds
  BY Sizes DEF Fds
<1>4. data \in [Cells -> Letters \cup {ZERO}]
  BY <1>2
<1>5. CallsTypeOK
  BY <1>2, <1>3, <1>4 DEF CallsTypeOK
<1>6. ZeroBehind
  BY <1>2 DEF ZeroBehind
<1>7. OpenRight
  BY <1>2 DEF OpenRight
<1>8. QED
  BY <1>5, <1>6, <1>7 DEF CallsInv

LEMMA InitCLib == Init => CLibInv
<1>1. SUFFICES ASSUME Init PROVE CLibInv
  OBVIOUS
<1>2. /\ StringInit \/ StringRest
      /\ PrintfInit \/ PrintfRest
      /\ ItoaInit \/ ItoaRest
      /\ CallsInit
  BY <1>1 DEF Init
<1>3. QED
  BY <1>2, StringStarts, PrintfStarts, ItoaStarts, CallsStart, StdioTypes DEF CLibInv, TypeOK

LEMMA NextCLib == CLibInv /\ [Next]_vars => CLibInv'
<1>1. SUFFICES ASSUME CLibInv, [Next]_vars PROVE CLibInv'
  OBVIOUS
<1> DEFINE StringNext == StringStep \/ UNCHANGED stringVars
           PrintfNext == PrintfStep \/ UNCHANGED printfVars
           ItoaNext == ItoaTurn \/ UNCHANGED itoaVars
           CallsNext == CallsStep \/ UNCHANGED callVars
<1>2. StringNext /\ PrintfNext /\ ItoaNext /\ CallsNext
  <2>1. CASE FunctionStep
    BY <2>1 DEF FunctionStep, stdioVars
  <2>2. CASE Idle
    BY <2>2 DEF Idle, PadForever, vars, stdioVars
  <2>3. CASE ProgramStep
    BY <2>3 DEF ProgramStep, stdioVars
  <2>4. CASE UNCHANGED vars
    BY <2>4 DEF vars, stdioVars
  <2>5. QED
    BY <1>1, <2>1, <2>2, <2>3, <2>4 DEF Next
<1>3. /\ StringTypeOK /\ StringInv /\ PrintfTypeOK /\ PrintfInv
      /\ ItoaTypeOK /\ ItoaInv /\ CallsTypeOK /\ CallsInv
  BY <1>1, StdioTypes DEF CLibInv, TypeOK
<1>4. StringTypeOK' /\ StringInv'
  BY <1>2, <1>3, NameTurnKeeps, ExtTurnKeeps, BlanksKeeps, StringStays DEF StringStep
<1>5. PrintfTypeOK' /\ PrintfInv'
  BY <1>2, <1>3, PrintCharKeeps, ConvertKeeps, PrintEndKeeps, PrintfStays DEF PrintfStep
<1>6. ItoaTypeOK' /\ ItoaInv'
  BY <1>2, <1>3, ItoaTurnKeeps, ItoaStays
<1>7. CallsTypeOK' /\ CallsInv'
  <2>1. CASE CallsStep
    BY <1>3, <2>1, CallsStepKeeps
  <2>2. CASE UNCHANGED callVars
    <3>1. UNCHANGED <<data, fd, path, opened, filled, before>>
      BY <2>2 DEF callVars
    <3>2. fd' \in Fds
      BY <1>3, <3>1 DEF CallsTypeOK
    <3>3. QED
      BY <1>3, <3>1, <3>2, CallsStays
  <2>3. QED
    BY <1>2, <2>1, <2>2
<1>8. QED
  BY <1>4, <1>5, <1>6, <1>7, StdioTypesNext DEF CLibInv, TypeOK

(* The invariants of the four parts hold together.                         *)
THEOREM CLibInvariant == Spec => []CLibInv
BY InitCLib, NextCLib, PTL DEF Spec

(* Arrays, indices and answers stay in their types. *)
THEOREM CLibTypeCorrect == Spec => []TypeOK
<1>1. CLibInv => TypeOK
  BY DEF CLibInv
<1>2. QED
  BY <1>1, CLibInvariant, PTL

(* Whenever extract_file_name returns, it has left name and extension      *)
(* without their padding and terminated, whatever the entry holds.         *)
THEOREM ExtractIsRight == Spec => []ExtractRight
<1>1. CLibInv => ExtractRight
  BY DEF CLibInv, StringInv
<1>2. QED
  BY <1>1, CLibInvariant, PTL

(* strncpy's extra byte stays in the arrays of extract_file_name's callers *)
(* for every size of name and extension.                                   *)
THEOREM ExtractStaysInArrays == Spec => []ExtractWithin
<1>1. CLibInv => ExtractWithin
  BY DEF CLibInv, StringInv
<1>2. QED
  BY <1>1, CLibInvariant, PTL

(* vfprintf has printed a proper template of any length with its arguments *)
(* in their order when it returns.                                         *)
THEOREM PrintfPrintsTemplate == Spec => []PrintfRight
<1>1. CLibInv => PrintfRight
  BY PrintfIsRight, StdioTypes DEF CLibInv, TypeOK
<1>2. QED
  BY <1>1, CLibInvariant, PTL

(* vfprintf never reads behind the NUL of a template, proper or not.       *)
THEOREM PrintfStaysInTemplate == Spec => []PrintfWithin
<1>1. CLibInv => PrintfWithin
  BY DEF CLibInv, PrintfInv
<1>2. QED
  BY <1>1, CLibInvariant, PTL

(* The number conversions write the digits of every number, and stay in    *)
(* their buffers for the numbers these are made for.                       *)
THEOREM ItoaWritesNumber == Spec => []ItoaRight
<1>1. CLibInv => ItoaRight
  BY DEF CLibInv, ItoaInv
<1>2. QED
  BY <1>1, CLibInvariant, PTL

(* myopen's unterminated path is opened when nothing longer was in the     *)
(* buffer before, whatever calls the program has made.                     *)
THEOREM MyopenOpensPath == Spec => []OpenRight
<1>1. CLibInv => OpenRight
  BY DEF CLibInv, CallsInv
<1>2. QED
  BY <1>1, CLibInvariant, PTL
=============================================================================
