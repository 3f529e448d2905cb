------------------------- MODULE HttpMessagesProofs --------------------------
(***************************************************************************)
(* What holds of the text of an HTTP exchange, for URLs, requests, replies *)
(* and parameters of any length and number, and any calls of the user in   *)
(* any order: a server reads what the user had given, a client reads the   *)
(* reply that was sent, a Url reads the text it composes as itself, and    *)
(* requests are encrypted and for the port of their scheme.                *)
(*                                                                         *)
(* What a text is read as follows from where the parts are in it: Reads for*)
(* the head of a reply, Layout for a URL (UrlsProofs), Divides for lines.  *)
(***************************************************************************)
EXTENDS HttpMessages, UrlsProofs

-----------------------------------------------------------------------------
(* Replies. *)

\* The strings, with those of a reply by name.
Char == STRING \union {":", "\r", "\n", " ", "OK", "HTTP/1.1"}
Text == Seq(Char)
Header0 == [name : Text, value : Text, nameParsed : BOOLEAN, inValue : BOOLEAN, cr : BOOLEAN]
Reader == [line : Header0, list : Seq(Header0)]
Start == [line |-> Blank, list |-> <<>>]

\* Whatever the character, the reader stays a reader.
LEMMA ReadCharacterType ==
  ASSUME NEW r \in Reader, NEW ch \in Char
  PROVE ReadCharacter(r, ch) \in Reader
<1>1. r.line \in Header0 /\ r.list \in Seq(Header0) /\ r.line.name \in Text /\ r.line.value \in Text
  BY DEF Reader, Header0
<1>2. Append(r.line.name, ch) \in Text /\ Append(r.line.value, ch) \in Text /\ Append(r.list, r.line) \in Seq(Header0)
  BY <1>1, AppendProperties DEF Text
<1>3. Blank \in Header0
  BY EmptySeq DEF Blank, Header0, Text
<1>4. Grow(r.line, ch) \in Header0
  BY <1>1, <1>2 DEF Grow, Header0
<1> QED
  BY <1>1, <1>2, <1>3, <1>4 DEF ReadCharacter, Reader, Header0

\* One after the other, the characters of a text lead the reader from r to r2.
Leads(f, r, text) ==
    /\ f[0] = r
    /\ \A k \in 1 .. Len(text) : f[k] = ReadCharacter(f[k - 1], text[k])
Reads(r, text, r2) == \E f \in [0 .. Len(text) -> Reader] : Leads(f, r, text) /\ f[Len(text)] = r2

\* What reads the characters one after the other is what the fold gives.
LEMMA FoldReads ==
  ASSUME NEW text \in Text, NEW r2, Reads(Start, text, r2)
  PROVE  FoldLeft(ReadCharacter, Start, text) = r2
<1>1. PICK n \in Nat : n = Len(text) /\ DOMAIN text = 1 .. n
  BY LenProperties DEF Text
<1>2. \A k \in 1 .. n : text[k] \in Char
  BY <1>1, ElementOfSeq DEF Text
<1> DEFINE g == [p \in Reader \X (1 .. n) |-> ReadCharacter(p[1], text[p[2]])]
<1>3. \A r \in Reader, k \in 1 .. n : g[<<r, k>>] = ReadCharacter(r, text[k]) /\ ReadCharacter(r, text[k]) \in Reader
  BY <1>2, ReadCharacterType
<1>4. g \in [Reader \X (1 .. n) -> Reader]
  BY <1>3
<1> HIDE DEF g
<1>5. Start \in Reader
  BY EmptySeq DEF Start, Reader, Header0, Blank, Text
<1>6. PICK f \in [0 .. n -> Reader] : Leads(f, Start, text) /\ f[n] = r2
  BY <1>1 DEF Reads
<1>7. Walks(f, n, Start, g)
  <2>1. \A k \in 1 .. n : k - 1 \in 0 .. n
    OBVIOUS
  <2> QED
    BY <1>1, <1>3, <1>6, <2>1 DEF Walks, Leads
<1> DEFINE Eq(h) == h = [s \in SUBSET (1 .. n) |-> IF s = {} THEN Start ELSE ReadCharacter(h[s \ {Max(s)}], text[Max(s)])]
<1> DEFINE it == CHOOSE h : Eq(h)
<1>8. FoldLeft(ReadCharacter, Start, text) = it[1 .. n]
  BY <1>1 DEF FoldLeft, MapThenFoldSet
<1>9. Eq(it)
  <2>1. PICK h \in [SUBSET (1 .. n) -> Reader] : FoldsSubsets(h, n, Start, g)
    BY <1>4, <1>5, SubsetRecursion
  <2>2. ASSUME NEW s \in SUBSET (1 .. n)
        PROVE  h[s] = IF s = {} THEN Start ELSE ReadCharacter(h[s \ {Max(s)}], text[Max(s)])
    <3>1. CASE s # {}
      <4>1. Max(s) \in 1 .. n /\ s \ {Max(s)} \in SUBSET (1 .. n)
        BY <3>1, MaxBelongs
      <4> QED
        BY <2>1, <3>1, <4>1, <1>3 DEF FoldsSubsets
    <3> QED
      BY <2>1, <3>1 DEF FoldsSubsets
  <2>3. Eq(h)
    BY <2>2
  <2> HIDE DEF Eq
  <2> QED
    BY <2>3
<1>10. it[{}] = Start /\ \A s \in SUBSET (1 .. n) : s # {} => it[s] = ReadCharacter(it[s \ {Max(s)}], text[Max(s)])
  <2>1. {} \in SUBSET (1 .. n)
    OBVIOUS
  <2> QED
    BY <1>9, <2>1
<1> HIDE DEF it
<1>11. ASSUME NEW k \in 1 .. n, it[1 .. (k - 1)] \in Reader
       PROVE  it[1 .. k] = g[<<it[1 .. (k - 1)], k>>]
  <2>1. Max(1 .. k) = k /\ 1 .. k \in SUBSET (1 .. n) /\ 1 .. k # {} /\ (1 .. k) \ {k} = 1 .. (k - 1)
    BY InitialSegment
  <2>2. it[1 .. k] = ReadCharacter(it[1 .. (k - 1)], text[k])
    BY <1>10, <2>1
  <2>3. g[<<it[1 .. (k - 1)], k>>] = ReadCharacter(it[1 .. (k - 1)], text[k])
    BY <1>3, <1>11
  <2> QED
    BY <2>2, <2>3
<1>12. Iterates(it, n, Reader, Start, g)
  BY <1>10, <1>11 DEF Iterates
<1>14. it[1 .. n] = f[n]
  BY <1>1, <1>6, <1>7, <1>12, FoldWalks
<1> QED
  BY <1>6, <1>8, <1>14

\* An empty text changes nothing, ...
LEMMA ReadsNothing ==
  ASSUME NEW r \in Reader
  PROVE  Reads(r, <<>>, r)
<1> DEFINE f == [k \in 0 .. 0 |-> r]
<1>1. Len(<<>>) = 0 /\ f \in [0 .. 0 -> Reader] /\ f[0] = r
  OBVIOUS
<1>2. Leads(f, r, <<>>)
  BY <1>1 DEF Leads
<1> QED
  BY <1>1, <1>2 DEF Reads

\* ... a single character does what ReadCharacter says, ...
LEMMA ReadsOne ==
  ASSUME NEW r \in Reader, NEW ch \in Char
  PROVE  Reads(r, <<ch>>, ReadCharacter(r, ch))
<1> DEFINE f == [k \in 0 .. 1 |-> IF k = 0 THEN r ELSE ReadCharacter(r, ch)]
<1>1. Len(<<ch>>) = 1 /\ f[0] = r /\ f[1] = ReadCharacter(r, ch)
  OBVIOUS
<1>2. f \in [0 .. 1 -> Reader]
  BY ReadCharacterType
<1> HIDE DEF f
<1>3. Leads(f, r, <<ch>>)
  <2>1. \A k \in 1 .. 1 : k = 1 /\ k - 1 = 0
    OBVIOUS
  <2>2. <<ch>>[1] = ch
    OBVIOUS
  <2> QED
    BY <1>1, <2>1, <2>2 DEF Leads
<1> QED
  BY <1>1, <1>2, <1>3 DEF Reads

\* ... and a text behind another is read from where that was left.
LEMMA ReadsThen ==
  ASSUME NEW r, NEW s \in Text, NEW r2, NEW t \in Text, NEW r3, Reads(r, s, r2), Reads(r2, t, r3)
  PROVE  Reads(r, s \o t, r3)
<1>1. PICK m \in Nat : m = Len(s)
  BY LenProperties DEF Text
<1>2. PICK n \in Nat : n = Len(t)
  BY LenProperties DEF Text
<1>3. PICK f \in [0 .. m -> Reader] : Leads(f, r, s) /\ f[m] = r2
  BY <1>1 DEF Reads
<1>4. PICK g \in [0 .. n -> Reader] : Leads(g, r2, t) /\ g[n] = r3
  BY <1>2 DEF Reads
<1>5. Len(s \o t) = m + n /\ \A k \in 1 .. m + n : (s \o t)[k] = IF k <= m THEN s[k] ELSE t[k - m]
  BY <1>1, <1>2, ConcatProperties DEF Text
<1> DEFINE h == [k \in 0 .. m + n |-> IF k <= m THEN f[k] ELSE g[k - m]]
<1>6. h \in [0 .. m + n -> Reader]
  <2>1. ASSUME NEW k \in 0 .. m + n PROVE h[k] \in Reader
    <3>1. CASE k <= m
      <4>1. k \in 0 .. m
        BY <1>1, <3>1
      <4> QED
        BY <1>3, <3>1, <4>1
    <3>2. CASE ~(k <= m)
      <4>1. k - m \in 0 .. n
        BY <1>1, <1>2, <3>2
      <4> QED
        BY <1>4, <3>2, <4>1
    <3> QED
      BY <3>1, <3>2
  <2> QED
    BY <2>1
<1>7. f[0] = r /\ g[0] = r2 /\ \A k \in 1 .. m : f[k] = ReadCharacter(f[k - 1], s[k])
  BY <1>1, <1>3, <1>4 DEF Leads
<1>8. \A k \in 1 .. n : g[k] = ReadCharacter(g[k - 1], t[k])
  BY <1>2, <1>4 DEF Leads
<1>9. ASSUME NEW k \in 1 .. m + n PROVE h[k] = ReadCharacter(h[k - 1], (s \o t)[k])
  <2>1. CASE k <= m
    <3>1. k \in 1 .. m /\ k - 1 <= m /\ k - 1 \in 0 .. m + n /\ k \in 0 .. m + n
      BY <1>1, <1>2, <2>1
    <3>2. h[k] = f[k] /\ h[k - 1] = f[k - 1] /\ (s \o t)[k] = s[k]
      BY <2>1, <3>1, <1>5
    <3> QED
      BY <3>1, <3>2, <1>7
  <2>2. CASE k = m + 1
    <3>1. k - m = 1 /\ k - 1 = m /\ 1 \in 1 .. n /\ k - 1 \in 0 .. m + n /\ k \in 0 .. m + n /\ 1 - 1 = 0 /\ ~(k <= m)
      BY <1>1, <1>2, <2>2
    <3>2. h[k] = g[1] /\ h[k - 1] = f[m] /\ (s \o t)[k] = t[1]
      BY <3>1, <1>5, <1>1
    <3>3. g[1] = ReadCharacter(g[0], t[1])
      BY <3>1, <1>8
    <3> QED
      BY <3>2, <3>3, <1>3, <1>7
  <2>3. CASE k > m + 1
    <3>1. k - m \in 1 .. n /\ k - 1 \in 0 .. m + n /\ k \in 0 .. m + n /\ ~(k <= m) /\ ~(k - 1 <= m) /\ (k - 1) - m = (k - m) - 1
      BY <1>1, <1>2, <2>3
    <3>2. h[k] = g[k - m] /\ h[k - 1] = g[(k - m) - 1] /\ (s \o t)[k] = t[k - m]
      BY <3>1, <1>5
    <3>3. g[k - m] = ReadCharacter(g[(k - m) - 1], t[k - m])
      BY <3>1, <1>8
    <3> QED
      BY <3>2, <3>3
  <2> QED
    BY <1>1, <1>2, <2>1, <2>2, <2>3
<1>10. h[0] = r
  <2>1. 0 \in 0 .. m + n /\ 0 <= m
    BY <1>1, <1>2
  <2> QED
    BY <2>1, <1>7
<1>11. h[m + n] = r3
  <2>1. CASE n = 0
    BY <2>1, <1>1, <1>3, <1>4, <1>7
  <2>2. CASE n # 0
    <3>1. m + n \in 0 .. m + n /\ ~(m + n <= m) /\ (m + n) - m = n
      BY <1>1, <1>2, <2>2
    <3> QED
      BY <3>1, <1>4
  <2> QED
    BY <2>1, <2>2
<1> HIDE DEF h
<1>12. Leads(h, r, s \o t)
  BY <1>5, <1>9, <1>10 DEF Leads
<1> QED
  BY <1>5, <1>6, <1>11, <1>12 DEF Reads

\* A header that is being read, behind the headers of a list.
At(name, value, nameParsed, inValue, cr, list) ==
    [line |-> [name |-> name, value |-> value, nameParsed |-> nameParsed, inValue |-> inValue, cr |-> cr], list |-> list]
\* A name and a value that are written as they are.
IsName(text) == \A k \in 1 .. Len(text) : text[k] \notin {":", "\r", "\n"}
IsValue(text) == (\A k \in 1 .. Len(text) : text[k] \notin {"\r", "\n"}) /\ (text # <<>> => text[1] # " ")

\* At makes a reader.
LEMMA AtIs ==
  ASSUME NEW name \in Text, NEW value \in Text, NEW nameParsed \in BOOLEAN, NEW inValue \in BOOLEAN, NEW cr \in BOOLEAN,
         NEW list \in Seq(Header0)
  PROVE  At(name, value, nameParsed, inValue, cr, list) \in Reader
BY DEF At, Reader, Header0

\* The beginnings of a text, of characters as they occur here.
LEMMA TextPrefixes ==
  ASSUME NEW text \in Text, NEW n \in Nat, n = Len(text)
  PROVE  /\ Beginning(text, 0) = <<>>
         /\ Beginning(text, n) = text
         /\ \A k \in 0 .. n : Beginning(text, k) \in Text
         /\ \A k \in 1 .. n : Beginning(text, k) = Append(Beginning(text, k - 1), text[k])
BY BeginningIs DEF Text

\* A name is read as the name.
LEMMA ReadsName ==
  ASSUME NEW name \in Text, IsName(name), NEW list \in Seq(Header0)
  PROVE  Reads(At(<<>>, <<>>, FALSE, FALSE, FALSE, list), name, At(name, <<>>, FALSE, FALSE, FALSE, list))
<1>1. PICK n \in Nat : n = Len(name)
  BY LenProperties DEF Text
<1> DEFINE read(k) == Beginning(name, k)
           f == [k \in 0 .. n |-> At(read(k), <<>>, FALSE, FALSE, FALSE, list)]
<1>2. /\ read(0) = <<>> /\ read(n) = name
      /\ \A k \in 0 .. n : read(k) \in Text
      /\ \A k \in 1 .. n : read(k) = Append(read(k - 1), name[k])
  BY <1>1, TextPrefixes
<1> HIDE DEF read
<1>3. f \in [0 .. n -> Reader]
  <2>1. <<>> \in Text
    BY EmptySeq DEF Text
  <2> QED
    BY <1>2, <2>1, AtIs
<1>4. ASSUME NEW k \in 1 .. n PROVE f[k] = ReadCharacter(f[k - 1], name[k])
  <2>1. k - 1 \in 0 .. n /\ k \in 0 .. n
    OBVIOUS
  <2>2. name[k] # ":" /\ name[k] # "\r" /\ name[k] # "\n"
    BY <1>1 DEF IsName
  <2>3. ReadCharacter(At(read(k - 1), <<>>, FALSE, FALSE, FALSE, list), name[k]) = At(Append(read(k - 1), name[k]), <<>>, FALSE, FALSE, FALSE, list)
    BY <2>2 DEF ReadCharacter, At, Grow
  <2> QED
    BY <2>1, <2>3, <1>2
<1>5. f[0] = At(<<>>, <<>>, FALSE, FALSE, FALSE, list) /\ f[n] = At(name, <<>>, FALSE, FALSE, FALSE, list)
  <2>1. 0 \in 0 .. n /\ n \in 0 .. n
    BY <1>1
  <2> QED
    BY <1>2, <2>1
<1> HIDE DEF f
<1> QED
  BY <1>1, <1>3, <1>4, <1>5 DEF Reads, Leads

\* Spaces in front of a value are skipped, however many.
LEMMA ReadsSpaces ==
  ASSUME NEW name \in Text, NEW list \in Seq(Header0), NEW n \in Nat
  PROVE  Reads(At(name, <<>>, TRUE, FALSE, FALSE, list), [k \in 1 .. n |-> " "], At(name, <<>>, TRUE, FALSE, FALSE, list))
<1> DEFINE r == At(name, <<>>, TRUE, FALSE, FALSE, list)
           spaces == [k \in 1 .. n |-> " "]
           f == [k \in 0 .. n |-> r]
<1>1. Len(spaces) = n
  OBVIOUS
<1>2. r \in Reader
  BY AtIs, EmptySeq DEF Text
<1>3. f \in [0 .. n -> Reader]
  BY <1>2
<1>4. ReadCharacter(r, " ") = r
  BY DEF ReadCharacter, At
<1>5. ASSUME NEW k \in 1 .. n PROVE f[k] = ReadCharacter(f[k - 1], spaces[k])
  <2>1. k - 1 \in 0 .. n /\ k \in 0 .. n /\ spaces[k] = " "
    OBVIOUS
  <2> HIDE DEF r, spaces
  <2> QED
    BY <1>4, <2>1
<1>6. f[0] = r /\ f[n] = r
  OBVIOUS
<1> HIDE DEF f, r, spaces
<1>7. Reads(r, spaces, r)
  BY <1>1, <1>3, <1>5, <1>6 DEF Reads, Leads
<1> QED
  BY <1>7 DEF r, spaces

\* A value is read as the value, with the colons and spaces in it.
LEMMA ReadsValue ==
  ASSUME NEW name \in Text, NEW value \in Text, IsValue(value),
         NEW list \in Seq(Header0)
  PROVE  Reads(At(name, <<>>, TRUE, FALSE, FALSE, list), value, At(name, value, TRUE, value # <<>>, FALSE, list))
<1>1. PICK n \in Nat : n = Len(value)
  BY LenProperties DEF Text
<1> DEFINE read(k) == Beginning(value, k)
           begun(k) == IF k = 0 THEN FALSE ELSE TRUE
           f == [k \in 0 .. n |-> At(name, read(k), TRUE, begun(k), FALSE, list)]
<1>2. /\ read(0) = <<>> /\ read(n) = value
      /\ \A k \in 0 .. n : read(k) \in Text
      /\ \A k \in 1 .. n : read(k) = Append(read(k - 1), value[k])
  BY <1>1, TextPrefixes
<1> HIDE DEF read
<1>3. f \in [0 .. n -> Reader]
  <2>1. \A k \in 0 .. n : begun(k) \in BOOLEAN
    OBVIOUS
  <2> QED
    BY <1>2, <2>1, AtIs
<1>4. ASSUME NEW k \in 1 .. n PROVE f[k] = ReadCharacter(f[k - 1], value[k])
  <2>1. k - 1 \in 0 .. n /\ k \in 0 .. n /\ begun(k) = TRUE
    BY <1>1
  <2>2. value[k] # "\r" /\ value[k] # "\n"
    BY <1>1 DEF IsValue
  <2>3. value[k] = " " => begun(k - 1) = TRUE
    <3>1. CASE k = 1
      <4>1. value # <<>>
        <5>1. Len(value) # 0
          BY <1>1
        <5> QED
          BY <5>1, EmptySeq
      <4> QED
        BY <3>1, <4>1 DEF IsValue
    <3>2. CASE k # 1
      <4>1. begun(k - 1) = TRUE
        BY <3>2
      <4> QED
        BY <4>1
    <3> QED
      BY <3>1, <3>2
  <2>4. ReadCharacter(At(name, read(k - 1), TRUE, begun(k - 1), FALSE, list), value[k]) = At(name, Append(read(k - 1), value[k]), TRUE, TRUE, FALSE, list)
    BY <2>2, <2>3 DEF ReadCharacter, At, Grow
  <2> QED
    BY <2>1, <2>4, <1>2
<1>5. (value # <<>>) = begun(n)
  <2>1. value # <<>> <=> n # 0
    BY <1>1, EmptySeq DEF Text
  <2> QED
    BY <2>1
<1>6. f[0] = At(name, <<>>, TRUE, FALSE, FALSE, list) /\ f[n] = At(name, value, TRUE, value # <<>>, FALSE, list)
  <2>1. 0 \in 0 .. n /\ n \in 0 .. n /\ begun(0) = FALSE
    BY <1>1
  <2> HIDE DEF begun
  <2> QED
    BY <1>2, <1>5, <2>1
<1> HIDE DEF f
<1> QED
  BY <1>1, <1>3, <1>4, <1>6 DEF Reads, Leads

NewLine(list) == At(<<>>, <<>>, FALSE, FALSE, FALSE, list)
Ended(name, value, nameParsed, inValue) ==
    [name |-> name, value |-> value, nameParsed |-> nameParsed, inValue |-> inValue, cr |-> TRUE]

\* The end of a line ends the header.
LEMMA ReadsLineEnd ==
  ASSUME NEW name \in Text, NEW value \in Text, NEW nameParsed \in BOOLEAN, NEW inValue \in BOOLEAN, NEW list \in Seq(Header0)
  PROVE  /\ LineEnd \in Text
         /\ Ended(name, value, nameParsed, inValue) \in Header0
         /\ Reads(At(name, value, nameParsed, inValue, FALSE, list), LineEnd,
                  NewLine(Append(list, Ended(name, value, nameParsed, inValue))))
<1> DEFINE r == At(name, value, nameParsed, inValue, FALSE, list)
           r2 == At(name, value, nameParsed, inValue, TRUE, list)
           r3 == NewLine(Append(list, Ended(name, value, nameParsed, inValue)))
<1>1. r \in Reader /\ r2 \in Reader
  BY AtIs
<1>2. ReadCharacter(r, "\r") = r2
  BY DEF ReadCharacter, At
<1>3. ReadCharacter(r2, "\n") = r3
  BY DEF ReadCharacter, At, NewLine, Ended, Blank
<1>4. "\r" \in Char /\ "\n" \in Char
  BY DEF Char
<1> HIDE DEF r, r2, r3
<1>5. Reads(r, <<"\r">>, r2) /\ Reads(r2, <<"\n">>, r3)
  BY <1>1, <1>2, <1>3, <1>4, ReadsOne, Zenon
<1>6. \A a \in Char, b \in Char : <<a>> \in Text /\ <<b>> \in Text /\ <<a, b>> \in Text /\ <<a>> \o <<b>> = <<a, b>>
  BY PairIs DEF Text
<1>7. <<"\r">> \in Text /\ <<"\n">> \in Text /\ <<"\r", "\n">> \in Text /\ <<"\r">> \o <<"\n">> = <<"\r", "\n">>
  BY <1>4, <1>6, Zenon
<1>8. Reads(r, <<"\r">> \o <<"\n">>, r3)
  BY <1>5, <1>7, ReadsThen, Zenon
<1>9. Ended(name, value, nameParsed, inValue) \in Header0
  BY DEF Ended, Header0
<1> QED
  BY <1>7, <1>8, <1>9, Zenon DEF LineEnd, r, r3

\* A header, with so many spaces in front of its value.
IsHeader(h) ==
    /\ h.name \in Text /\ IsName(h.name)
    /\ h.value \in Text /\ IsValue(h.value)
HeaderText(h, n) == h.name \o <<":">> \o [k \in 1 .. n |-> " "] \o h.value \o LineEnd
HeaderRead(h) == Ended(h.name, h.value, TRUE, h.value # <<>>)

\* A line with a header is read as this header.
LEMMA ReadsHeader ==
  ASSUME NEW h, IsHeader(h), NEW n \in Nat, NEW list \in Seq(Header0)
  PROVE  /\ HeaderText(h, n) \in Text
         /\ HeaderRead(h) \in Header0
         /\ Reads(NewLine(list), HeaderText(h, n), NewLine(Append(list, HeaderRead(h))))
<1> DEFINE spaces == [k \in 1 .. n |-> " "]
           r1 == At(h.name, <<>>, FALSE, FALSE, FALSE, list)
           r2 == At(h.name, <<>>, TRUE, FALSE, FALSE, list)
           in == h.value # <<>>
           r3 == At(h.name, h.value, TRUE, in, FALSE, list)
           r4 == NewLine(Append(list, HeaderRead(h)))
<1>1. h.name \in Text /\ h.value \in Text /\ IsName(h.name) /\ IsValue(h.value)
  BY DEF IsHeader
<1>2. ":" \in Char /\ <<":">> \in Text /\ spaces \in Text /\ <<>> \in Text
  <2>1. \A a \in Char : <<a>> \in Seq(Char) /\ [k \in 1 .. n |-> a] \in Seq(Char)
    OBVIOUS
  <2>2. ":" \in Char /\ " " \in Char
    BY DEF Char
  <2> QED
    BY <2>1, <2>2, EmptySeq, Zenon DEF Text
<1>3. Reads(NewLine(list), h.name, r1)
  BY <1>1, ReadsName DEF NewLine
<1>4. Reads(r1, <<":">>, r2)
  <2>1. r1 \in Reader
    BY <1>1, <1>2, AtIs
  <2>2. ReadCharacter(r1, ":") = r2
    BY DEF ReadCharacter, At
  <2> HIDE DEF r1, r2
  <2> QED
    BY <1>2, <2>1, <2>2, ReadsOne, Zenon
<1>5. Reads(r2, spaces, r2)
  BY <1>1, ReadsSpaces
<1>6. Reads(r2, h.value, r3)
  BY <1>1, ReadsValue
<1>7. LineEnd \in Text /\ HeaderRead(h) \in Header0 /\ Reads(r3, LineEnd, r4)
  <2>1. in \in BOOLEAN
    OBVIOUS
  <2>2. HeaderRead(h) = Ended(h.name, h.value, TRUE, in)
    BY DEF HeaderRead
  <2> HIDE DEF in
  <2> QED
    BY <1>1, <2>1, <2>2, ReadsLineEnd
<1> HIDE DEF r1, r2, r3, r4, spaces
<1> DEFINE t1 == h.name \o <<":">>
           t2 == t1 \o spaces
           t3 == t2 \o h.value
           t4 == t3 \o LineEnd
<1>8. t1 \in Text /\ Reads(NewLine(list), t1, r2)
  BY <1>1, <1>2, <1>3, <1>4, ReadsThen, ConcatProperties DEF Text
<1> HIDE DEF t1
<1>9. t2 \in Text /\ Reads(NewLine(list), t2, r2)
  BY <1>2, <1>5, <1>8, ReadsThen, ConcatProperties DEF Text
<1> HIDE DEF t2
<1>10. t3 \in Text /\ Reads(NewLine(list), t3, r3)
  BY <1>1, <1>6, <1>9, ReadsThen, ConcatProperties DEF Text
<1> HIDE DEF t3
<1>11. t4 \in Text /\ Reads(NewLine(list), t4, r4)
  BY <1>7, <1>10, ReadsThen, ConcatProperties DEF Text
<1>12. HeaderText(h, n) = t4
  BY DEF HeaderText, t1, t2, t3, t4, spaces
<1> HIDE DEF t4
<1> QED
  BY <1>7, <1>11, <1>12 DEF r4

\* The headers in front of the k-th, behind the status line.
ReadUpTo(first, list, k) == [i \in 1 .. k + 1 |-> IF i = 1 THEN first ELSE HeaderRead(list[i - 1])]

\* Lines of headers are read as these headers, in their order.
LEMMA ReadsHeaders ==
  ASSUME NEW first \in Header0, NEW list, NEW m \in Nat, m = Len(list), \A k \in 1 .. m : IsHeader(list[k]),
         NEW n \in Nat, NEW lines, lines = [k \in 1 .. m |-> HeaderText(list[k], n)]
  PROVE  /\ FlattenSeq(lines) \in Text
         /\ ReadUpTo(first, list, m) \in Seq(Header0)
         /\ Reads(NewLine(<<first>>), FlattenSeq(lines), NewLine(ReadUpTo(first, list, m)))
<1> DEFINE after(k) == ReadUpTo(first, list, k)
<1>1. \A k \in 1 .. m, rest \in Seq(Header0) :
        /\ HeaderText(list[k], n) \in Text
        /\ HeaderRead(list[k]) \in Header0
        /\ Reads(NewLine(rest), HeaderText(list[k], n), NewLine(Append(rest, HeaderRead(list[k]))))
  BY ReadsHeader
<1>2. /\ \A k \in 1 .. m : HeaderRead(list[k]) \in Header0 /\ lines[k] = HeaderText(list[k], n)
      /\ lines \in Seq(Text) /\ Len(lines) = m
  <2>1. <<>> \in Seq(Header0)
    BY EmptySeq
  <2>2. \A k \in 1 .. m : HeaderText(list[k], n) \in Text /\ HeaderRead(list[k]) \in Header0
    BY <1>1, <2>1
  <2> QED
    BY <2>2
<1>3. ASSUME NEW k \in 0 .. m PROVE after(k) \in Seq(Header0) /\ Len(after(k)) = k + 1
  <2>1. \A i \in 1 .. k + 1 : i # 1 => i - 1 \in 1 .. m
    OBVIOUS
  <2>2. \A i \in 1 .. k + 1 : (IF i = 1 THEN first ELSE HeaderRead(list[i - 1])) \in Header0
    BY <1>2, <2>1
  <2> QED
    BY <2>2 DEF ReadUpTo
<1>4. ASSUME NEW k \in 1 .. m PROVE after(k) = Append(after(k - 1), HeaderRead(list[k]))
  <2> DEFINE a == after(k)
             b == after(k - 1)
             e == HeaderRead(list[k])
  <2>1. k \in 0 .. m /\ k - 1 \in 0 .. m /\ (k - 1) + 1 = k
    OBVIOUS
  <2>2. a \in Seq(Header0) /\ Len(a) = k + 1 /\ b \in Seq(Header0) /\ Len(b) = k /\ e \in Header0
    BY <1>2, <1>3, <2>1
  <2>3. \A i \in 1 .. k : a[i] = b[i]
    BY <2>1 DEF ReadUpTo
  <2>4. a[k + 1] = e
    BY DEF ReadUpTo
  <2> HIDE DEF a, b, e
  <2>5. /\ Append(b, e) \in Seq(Header0) /\ Len(Append(b, e)) = k + 1
        /\ \A i \in 1 .. k : Append(b, e)[i] = b[i]
        /\ Append(b, e)[k + 1] = e
    BY <2>2, AppendProperties
  <2>6. \A i \in 1 .. k + 1 : a[i] = Append(b, e)[i]
    <3>1. \A i \in 1 .. k + 1 : i \in 1 .. k \/ i = k + 1
      OBVIOUS
    <3> QED
      BY <2>3, <2>4, <2>5, <3>1
  <2>7. a = Append(b, e)
    BY <2>2, <2>5, <2>6, SeqEqual
  <2> QED
    BY <2>7 DEF a, b, e
<1>5. after(0) = <<first>>
  <2> DEFINE a == after(0)
  <2>1. a \in Seq(Header0) /\ Len(a) = 1 /\ a[1] = first
    BY <1>3 DEF ReadUpTo
  <2>2. <<first>> \in Seq(Header0) /\ Len(<<first>>) = 1 /\ <<first>>[1] = first
    OBVIOUS
  <2>3. \A i \in 1 .. 1 : a[i] = <<first>>[i]
    BY <2>1, <2>2
  <2> HIDE DEF a
  <2>4. a = <<first>>
    BY <2>1, <2>2, <2>3, SeqEqual
  <2> QED
    BY <2>4 DEF a
<1>6. PICK f \in [0 .. m -> Text] : Flattens(f, lines) /\ FlattenSeq(lines) = f[m]
  <2>1. lines \in Seq(Seq(Char))
    BY <1>2 DEF Text
  <2>2. \E f \in [0 .. Len(lines) -> Seq(Char)] : Flattens(f, lines) /\ FlattenSeq(lines) = f[Len(lines)]
    BY <2>1, FlattenWalk
  <2> QED
    BY <1>2, <2>2 DEF Text
<1>7. f[0] = <<>> /\ \A k \in 1 .. m : f[k] = f[k - 1] \o lines[k]
  BY <1>2, <1>6 DEF Flattens
<1> HIDE DEF after
<1> DEFINE P(k) == k <= m => Reads(NewLine(<<first>>), f[k], NewLine(after(k)))
           S == {k \in Nat : P(k)}
<1>8. P(0)
  <2>1. NewLine(<<first>>) \in Reader
    <3>1. <<first>> \in Seq(Header0) /\ <<>> \in Text
      BY EmptySeq DEF Text
    <3> QED
      BY <3>1, AtIs DEF NewLine
  <2> QED
    BY <1>5, <1>7, <2>1, ReadsNothing
<1>9. ASSUME NEW k \in Nat, P(k) PROVE P(k + 1)
  <2> SUFFICES ASSUME k + 1 <= m PROVE Reads(NewLine(<<first>>), f[k + 1], NewLine(after(k + 1)))
    OBVIOUS
  <2>1. k <= m /\ k \in 0 .. m /\ k + 1 \in 1 .. m /\ (k + 1) - 1 = k
    OBVIOUS
  <2>2. Reads(NewLine(<<first>>), f[k], NewLine(after(k))) /\ f[k] \in Text
    BY <1>6, <1>9, <2>1
  <2>3. lines[k + 1] \in Text /\ Reads(NewLine(after(k)), lines[k + 1], NewLine(after(k + 1)))
    BY <1>1, <1>2, <1>3, <1>4, <2>1
  <2> QED
    BY <1>7, <2>1, <2>2, <2>3, ReadsThen
<1> HIDE DEF P
<1>10. 0 \in S /\ \A k \in Nat : k \in S => k + 1 \in S
  BY <1>8, <1>9
<1>11. m \in S
  <2> HIDE DEF S
  <2> QED
    BY <1>10, SetInduction
<1>12. Reads(NewLine(<<first>>), f[m], NewLine(after(m))) /\ f[m] \in Text
  BY <1>6, <1>11 DEF P
<1> QED
  BY <1>3, <1>6, <1>12 DEF after

IsReply(h) ==
    /\ {h.version, h.status} \subseteq Char \ {":", "\r", "\n"}
    /\ h.spaces \in Nat
    /\ h.headers \in Seq([name : Seq(STRING), value : Seq(STRING)])
    /\ \A k \in 1 .. Len(h.headers) : IsHeader(h.headers[k])
StatusLine(h) == <<h.version, " ", h.status, " ", "OK">>

\* The heads that a server may answer are replies.
LEMMA HeadsAre ==
  ASSUME NEW h \in Heads
  PROVE  IsReply(h)
<1>1. /\ {h.version, h.status} \subseteq STRING \ {":", "\r", "\n"}
      /\ h.spaces \in Nat
      /\ h.headers \in Seq([name : Seq(STRING), value : Seq(STRING)])
  BY HeadsAreReplies, Zenon DEF IsHead
<1>2. ASSUME NEW k \in 1 .. Len(h.headers)
      PROVE  IsHeader(h.headers[k])
  <2> DEFINE line == h.headers[k]
  <2>1. line.name \in Seq(STRING) /\ line.value \in Seq(STRING)
    <3>1. \A C : \A list \in Seq(C) : \A j \in 1 .. Len(list) : list[j] \in C
      BY ElementOfSeq
    <3>2. line \in [name : Seq(STRING), value : Seq(STRING)]
      BY <1>1, <3>1, Zenon
    <3> QED
      BY <3>2
  <2>2. line.name \in Text /\ line.value \in Text
    <3>1. \A t \in Seq(STRING) : t \in Seq(Char)
      <4>1. STRING \subseteq Char
        BY DEF Char
      <4>2. \A A, B : A \subseteq B => Seq(A) \subseteq Seq(B)
        OBVIOUS
      <4> QED
        BY <4>1, <4>2, Zenon
    <3> QED
      BY <2>1, <3>1, Zenon DEF Text
  <2>3. /\ \A j \in 1 .. Len(line.name) : line.name[j] \notin {":", "\r", "\n"}
        /\ \A j \in 1 .. Len(line.value) : line.value[j] \notin {"\r", "\n"}
        /\ line.value # <<>> => line.value[1] # " "
    BY HeadsAreReplies, Zenon DEF IsHead
  <2>4. IsName(line.name) /\ IsValue(line.value)
    BY <2>3, Zenon DEF IsName, IsValue
  <2> QED
    BY <2>2, <2>4 DEF IsHeader
<1>3. {h.version, h.status} \subseteq Char \ {":", "\r", "\n"}
  BY <1>1, Zenon DEF Char
<1> QED
  BY <1>1, <1>2, <1>3, Zenon DEF IsReply

\* What the client has of a reply.
LEMMA ResponseOfReply ==
  ASSUME NEW h, IsReply(h), h.version = "HTTP/1.1"
  PROVE  /\ HttpResponse(HeadText(h)).status = h.status
         /\ SubSeq(HttpResponse(HeadText(h)).headers, 2, 1 + Len(h.headers)) = h.headers
<1> DEFINE list == h.headers
           n == h.spaces
           H == [name : Seq(STRING), value : Seq(STRING)]
<1>1. PICK m \in Nat : m = Len(list)
  <2>1. list \in Seq(H)
    BY DEF IsReply
  <2> QED
    BY <2>1, LenProperties
<1>2. n \in Nat /\ \A k \in 1 .. m : IsHeader(list[k])
  BY <1>1 DEF IsReply
<1> DEFINE lines == [k \in 1 .. m |-> HeaderText(list[k], n)]
           first == Ended(StatusLine(h), <<>>, FALSE, FALSE)
           rest == ReadUpTo(first, list, m)
           last == Ended(<<>>, <<>>, FALSE, FALSE)
           head1 == StatusLine(h) \o LineEnd
           head2 == head1 \o FlattenSeq(lines)
           head3 == head2 \o LineEnd
<1>3. HeadText(h) = head3
  BY <1>1 DEF HeadText, Map, HeaderText, StatusLine
<1>4. StatusLine(h) \in Text /\ IsName(StatusLine(h)) /\ Len(StatusLine(h)) = 5 /\ StatusLine(h)[1] = h.version /\ StatusLine(h)[3] = h.status
  <2>1. h.version \in Char /\ h.status \in Char /\ " " \in Char /\ "OK" \in Char
    BY Zenon DEF IsReply, Char
  <2>2. \A a, b, c, d, e \in Char : <<a, b, c, d, e>> \in Seq(Char)
    OBVIOUS
  <2>3. \A a, b, c, d, e : Len(<<a, b, c, d, e>>) = 5 /\ <<a, b, c, d, e>>[1] = a /\ <<a, b, c, d, e>>[2] = b /\ <<a, b, c, d, e>>[3] = c
                           /\ <<a, b, c, d, e>>[4] = d /\ <<a, b, c, d, e>>[5] = e
    OBVIOUS
  <2>4. \A k \in 1 .. 5 : k = 1 \/ k = 2 \/ k = 3 \/ k = 4 \/ k = 5
    OBVIOUS
  <2> DEFINE line == StatusLine(h)
  <2>11. line[1] = h.version /\ line[2] = " " /\ line[3] = h.status /\ line[4] = " " /\ line[5] = "OK"
    BY <2>3, Zenon DEF StatusLine
  <2>5. \A k \in 1 .. 5 : line[k] \in {h.version, h.status, " ", "OK"}
    <3> HIDE DEF line
    <3> QED
      BY <2>11, <2>4, Zenon
  <2>6. {h.version, h.status, " ", "OK"} \cap {":", "\r", "\n"} = {}
    BY Zenon DEF IsReply
  <2>7. \A k \in 1 .. 5 : StatusLine(h)[k] \notin {":", "\r", "\n"}
    BY <2>5, <2>6, Zenon
  <2>8. Len(StatusLine(h)) = 5
    BY <2>3, Zenon DEF StatusLine
  <2>9. IsName(StatusLine(h))
    BY <2>7, <2>8, Zenon DEF IsName
  <2>10. StatusLine(h) \in Text
    BY <2>1, <2>2, Zenon DEF StatusLine, Text
  <2> QED
    BY <2>3, <2>8, <2>9, <2>10, Zenon DEF StatusLine
<1>5. <<>> \in Text /\ <<>> \in Seq(Header0) /\ LineEnd \in Text
  <2>1. <<>> \in Text /\ <<>> \in Seq(Header0)
    BY EmptySeq DEF Text
  <2> QED
    BY <2>1, ReadsLineEnd
<1>6. first \in Header0 /\ last \in Header0 /\ head1 \in Text /\ Reads(NewLine(<<>>), head1, NewLine(<<first>>))
  <2>1. Reads(NewLine(<<>>), StatusLine(h), At(StatusLine(h), <<>>, FALSE, FALSE, FALSE, <<>>))
    BY <1>4, <1>5, ReadsName DEF NewLine
  <2>2. first \in Header0 /\ last \in Header0 /\ Reads(At(StatusLine(h), <<>>, FALSE, FALSE, FALSE, <<>>), LineEnd, NewLine(Append(<<>>, first)))
    BY <1>4, <1>5, ReadsLineEnd
  <2>3. Append(<<>>, first) = <<first>>
    OBVIOUS
  <2>4. head1 \in Text
    BY <1>4, <1>5, ConcatProperties DEF Text
  <2> QED
    BY <1>4, <1>5, <2>1, <2>2, <2>3, <2>4, ReadsThen
<1> HIDE DEF lines
<1>7. FlattenSeq(lines) \in Text /\ rest \in Seq(Header0) /\ Reads(NewLine(<<first>>), FlattenSeq(lines), NewLine(rest))
  BY <1>1, <1>2, <1>6, ReadsHeaders DEF lines
<1> HIDE DEF first, last, rest, head1
<1>8. head2 \in Text /\ Reads(NewLine(<<>>), head2, NewLine(rest))
  BY <1>6, <1>7, ReadsThen, ConcatProperties DEF Text
<1> HIDE DEF head2
<1>9. head3 \in Text /\ Reads(NewLine(<<>>), head3, NewLine(Append(rest, last)))
  <2>1. Reads(NewLine(rest), LineEnd, NewLine(Append(rest, last)))
    BY <1>5, <1>7, ReadsLineEnd DEF NewLine, last
  <2>2. head3 \in Text
    BY <1>5, <1>8, ConcatProperties DEF Text
  <2> QED
    BY <1>5, <1>8, <2>1, <2>2, ReadsThen
<1>10. head3[1] = h.version /\ head3[3] = h.status
  <2>1. Len(head1) \in Nat /\ Len(LineEnd) \in Nat /\ Len(FlattenSeq(lines)) \in Nat /\ 5 <= Len(head1) /\ head1[1] = h.version /\ head1[3] = h.status
    <3>1. Len(LineEnd) \in Nat /\ Len(FlattenSeq(lines)) \in Nat
      BY <1>5, <1>7, LenProperties DEF Text
    <3>2. Len(head1) = 5 + Len(LineEnd) /\ \A k \in 1 .. 5 : head1[k] = StatusLine(h)[k]
      <4>1. StatusLine(h) \in Seq(Char) /\ LineEnd \in Seq(Char)
        BY <1>4, <1>5 DEF Text
      <4>2. /\ Len(head1) = Len(StatusLine(h)) + Len(LineEnd)
            /\ \A k \in 1 .. Len(StatusLine(h)) + Len(LineEnd) :
                    head1[k] = IF k <= Len(StatusLine(h)) THEN StatusLine(h)[k] ELSE LineEnd[k - Len(StatusLine(h))]
        BY <4>1, ConcatProperties DEF head1
      <4> QED
        BY <3>1, <4>2, <1>4
    <3> QED
      BY <3>1, <3>2, <1>4
  <2>2. 5 <= Len(head2) /\ Len(head2) \in Nat /\ head2[1] = h.version /\ head2[3] = h.status
    BY <2>1, <1>6, <1>7, ConcatProperties DEF Text, head2
  <2> QED
    BY <2>1, <2>2, <1>5, <1>8, ConcatProperties DEF Text
<1> HIDE DEF head3
<1> DEFINE read == Append(rest, last)
           found == Map(LAMBDA l : [name |-> l.name, value |-> l.value], read)
<1>11. HttpHeaders(HeadText(h)) = found
  <2>1. NewLine(<<>>) = Start
    BY DEF NewLine, At, Start, Blank
  <2>2. FoldLeft(ReadCharacter, Start, head3) = NewLine(read)
    BY <1>9, <2>1, FoldReads
  <2>3. NewLine(read).list = read
    BY DEF NewLine, At
  <2> QED
    BY <1>3, <2>2, <2>3 DEF HttpHeaders, Start
<1>12. Len(read) = m + 2 /\ \A k \in 1 .. m : read[k + 1] = HeaderRead(list[k])
  <2>1. Len(rest) = m + 1 /\ \A k \in 1 .. m : rest[k + 1] = HeaderRead(list[k])
    BY <1>1 DEF rest, ReadUpTo
  <2>2. Len(read) = Len(rest) + 1 /\ \A k \in 1 .. Len(rest) : read[k] = rest[k]
    BY <1>6, <1>7, AppendProperties
  <2> HIDE DEF read
  <2>3. \A k \in 1 .. m : k + 1 \in 1 .. Len(rest)
    BY <1>1, <2>1
  <2> QED
    BY <1>1, <2>1, <2>2, <2>3
<1>13. Len(found) = m + 2 /\ \A k \in 1 .. m : found[k + 1] = list[k]
  <2>1. \A k \in 1 .. m : list[k] \in H
    BY <1>1, ElementOfSeq DEF IsReply
  <2>2. \A k \in 1 .. m : list[k] = [name |-> list[k].name, value |-> list[k].value]
    BY <2>1
  <2>3. \A k \in 1 .. m : HeaderRead(list[k]).name = list[k].name /\ HeaderRead(list[k]).value = list[k].value
    BY DEF HeaderRead, Ended
  <2> HIDE DEF read, list
  <2> QED
    BY <1>1, <1>12, <2>2, <2>3 DEF Map
<1> HIDE DEF found
<1>14. SubSeq(found, 2, 1 + m) = list
  <2>1. list \in Seq(H)
    BY DEF IsReply
  <2>2. \A k \in 1 .. m : list[k] \in H
    BY <1>1, <2>1, ElementOfSeq
  <2>3. \A i \in 2 .. 1 + m : i - 1 \in 1 .. m /\ (i - 1) + 1 = i
    BY <1>1
  <2>4. \A i \in 2 .. 1 + m : found[i] \in H
    BY <1>13, <2>2, <2>3
  <2> DEFINE part == SubSeq(found, 2, 1 + m)
  <2>5. part \in Seq(H) /\ Len(part) = m /\ \A i \in 1 .. m : part[i] = found[i + 1]
    <3>1. part \in Seq(H) /\ Len(part) = (IF 2 <= 1 + m THEN (1 + m) - 2 + 1 ELSE 0) /\ \A i \in 1 .. (1 + m) - 2 + 1 : part[i] = found[2 + i - 1]
      BY <1>1, <2>4, SubSeqProperties
    <3>2. (1 + m) - 2 + 1 = m /\ \A i \in 1 .. m : 2 + i - 1 = i + 1
      BY <1>1
    <3> QED
      BY <1>1, <3>1, <3>2
  <2> HIDE DEF part, list
  <2>6. part = list
    BY <1>1, <1>13, <2>1, <2>5, SeqEqual
  <2> QED
    BY <2>6 DEF part
<1>15. HeadText(h)[1] = "HTTP/1.1" /\ HeadText(h)[3] = h.status
  BY <1>3, <1>10
<1>16. HttpResponse(HeadText(h)) = [status |-> h.status, headers |-> found]
  BY <1>11, <1>15, Zenon DEF HttpResponse
<1> QED
  BY <1>1, <1>14, <1>16

\* The response is of the reply.
Answered == head # None => head \in Heads /\ response = HttpResponse(HeadText(head))

\* The client has the status and the headers of every HTTP/1.1 reply, in their order,
\* whatever names and values there are, and however many spaces in front of them:
\* HttpHeaders splits a line at its first colon only and ends it where it ends.
THEOREM ClientReadsWhatIsSent == Spec => []ClientReadsReply
<1>1. Init => Answered
  BY DEF Init, Answered
<1>2. Answered /\ [Next]_vars => Answered'
  BY DEF Answered, Next, EditUrl, SetUrlScheme, SetAuthority, SetPort, SetPath, AddUrlParam, Edit, MakeRequest, Add, Send, Receive, Over, vars, reply
<1>3. Answered => ClientReadsReply
  <2> SUFFICES ASSUME Answered, head.version = "HTTP/1.1" PROVE ClientReadsReply
    BY DEF ClientReadsReply
  <2>1. head # None
    BY DEF None
  <2>2. head \in Heads /\ response = HttpResponse(HeadText(head))
    BY <2>1 DEF Answered
  <2>3. IsReply(head)
    BY <2>2, HeadsAre
  <2> QED
    BY <2>2, <2>3, ResponseOfReply DEF ClientReadsReply
<1> QED
  BY <1>1, <1>2, <1>3, PTL DEF Spec

-----------------------------------------------------------------------------
(* Urls that are put together. *)

\* The word w is in the text from a to b.
Fits(text, a, w, b) == Has(text, a, w) /\ b = a + Len(w)
FitsApart(text, S) ==
    \A x \in Seq(S), y \in Seq(S) :
        /\ x \o y \in Seq(S)
        /\ \A a \in Nat : \A b : Fits(text, a, x \o y, b) => \E c \in Nat : Fits(text, a, x, c) /\ Fits(text, c, y, b)

\* Where two texts behind each other are, one is and then the other.
LEMMA ConcatFits ==
  ASSUME NEW text, NEW S
  PROVE  FitsApart(text, S)
<1> SUFFICES ASSUME NEW x \in Seq(S), NEW y \in Seq(S)
             PROVE  /\ x \o y \in Seq(S)
                    /\ \A a \in Nat : \A b : Fits(text, a, x \o y, b) => \E c \in Nat : Fits(text, a, x, c) /\ Fits(text, c, y, b)
  BY DEF FitsApart
<1>1. PICK m \in Nat, n \in Nat : m = Len(x) /\ n = Len(y)
  BY LenProperties
<1>2. x \o y \in Seq(S) /\ Len(x \o y) = m + n
  BY <1>1, ConcatProperties
<1>3. \A i \in 1 .. m + n : (x \o y)[i] = IF i <= m THEN x[i] ELSE y[i - m]
  BY <1>1, ConcatProperties
<1>4. ASSUME NEW a \in Nat, NEW b, Fits(text, a, x \o y, b)
      PROVE  \E c \in Nat : Fits(text, a, x, c) /\ Fits(text, c, y, b)
  <2>1. \A i \in 1 .. m + n : text[a + i] = (x \o y)[i]
    BY <1>2, <1>4 DEF Fits, Has
  <2>2. \A i \in 1 .. m : text[a + i] = x[i]
    <3>1. \A i \in 1 .. m : i \in 1 .. m + n /\ i <= m
      OBVIOUS
    <3> QED
      BY <1>3, <2>1, <3>1
  <2>3. \A i \in 1 .. n : text[a + m + i] = y[i]
    <3>1. ASSUME NEW i \in 1 .. n PROVE text[a + m + i] = y[i]
      <4>1. PICK j \in 1 .. m + n : ~(j <= m) /\ j - m = i /\ a + j = a + m + i
        <5>1. m + i \in 1 .. m + n /\ ~(m + i <= m) /\ m + i - m = i /\ a + (m + i) = a + m + i
          OBVIOUS
        <5> QED
          BY <5>1
      <4>2. (x \o y)[j] = y[i]
        BY <1>3, <4>1
      <4>3. text[a + j] = (x \o y)[j]
        BY <2>1
      <4> QED
        BY <4>1, <4>2, <4>3
    <3> QED
      BY <3>1
  <2>4. b = a + m + n /\ a + m \in Nat
    BY <1>2, <1>4 DEF Fits
  <2> QED
    BY <1>1, <2>2, <2>3, <2>4 DEF Fits, Has
<1> QED
  BY <1>2, <1>4

\* The place of a single character.
LEMMA OneFits ==
  ASSUME NEW text, NEW a \in Nat, NEW ch, NEW b, Fits(text, a, <<ch>>, b)
  PROVE  b = a + 1 /\ text[b] = ch
<1>1. Len(<<ch>>) = 1 /\ <<ch>>[1] = ch
  OBVIOUS
<1>2. 1 \in 1 .. Len(<<ch>>)
  BY <1>1
<1> QED
  BY <1>1, <1>2 DEF Fits, Has

\* How a text is put together.
IsLogin(L, us, pw) == IF us = <<>> THEN L = <<>> /\ pw = <<>> ELSE L = us \o <<":">> \o pw \o <<"@">>
IsPort(P, p) == IF p = <<>> THEN P = <<>> ELSE P = <<":">> \o p
IsQuery(Q, q) == IF q = <<>> THEN Q = <<>> ELSE Q = <<"?">> \o q
Layout(s, L, h, P, x, Q) == s \o SchemeEnd \o L \o h \o P \o <<"/">> \o x \o Q

\* The user and the password are laid out where their text is, ...
LEMMA LoginIsLaid ==
  ASSUME NEW text, NEW S, NEW us \in Seq(S), NEW pw \in Seq(S), NEW L, IsLogin(L, us, pw), us # <<>> => {":", "@"} \subseteq S,
         NEW a \in Nat, NEW e, Fits(text, a, L, e)
  PROVE  LaidLogin(text, a, us, pw, e)
<1>1. CASE us = <<>>
  BY <1>1 DEF IsLogin, LaidLogin, Fits
<1>2. CASE us # <<>>
  <2>1. L = us \o <<":">> \o pw \o <<"@">> /\ <<":">> \in Seq(S) /\ <<"@">> \in Seq(S)
    BY <1>2 DEF IsLogin
  <2>2. FitsApart(text, S)
    BY ConcatFits
  <2>3. PICK c \in Nat, d \in Nat, b \in Nat :
          Fits(text, a, us, b) /\ Fits(text, b, <<":">>, c) /\ Fits(text, c, pw, d) /\ Fits(text, d, <<"@">>, e)
    <3>1. us \o <<":">> \in Seq(S) /\ us \o <<":">> \o pw \in Seq(S)
      BY <2>1, <2>2 DEF FitsApart
    <3>2. PICK d \in Nat : Fits(text, a, us \o <<":">> \o pw, d) /\ Fits(text, d, <<"@">>, e)
      BY <2>1, <2>2, <3>1 DEF FitsApart
    <3>3. PICK c \in Nat : Fits(text, a, us \o <<":">>, c) /\ Fits(text, c, pw, d)
      BY <2>1, <2>2, <3>1, <3>2 DEF FitsApart
    <3>4. PICK b \in Nat : Fits(text, a, us, b) /\ Fits(text, b, <<":">>, c)
      BY <2>1, <2>2, <3>3 DEF FitsApart
    <3> QED
      BY <3>2, <3>3, <3>4
  <2>4. c = b + 1 /\ text[c] = ":" /\ e = d + 1 /\ text[e] = "@"
    BY <2>3, OneFits
  <2>5. Len(us) \in Nat /\ Len(pw) \in Nat
    BY LenProperties
  <2> QED
    BY <1>2, <2>3, <2>4, <2>5 DEF LaidLogin, Fits
<1> QED
  BY <1>1, <1>2

\* ... the host and the port, ...
LEMMA HostIsLaid ==
  ASSUME NEW text, NEW S, NEW h \in Seq(S), NEW p \in Seq(S), NEW P, IsPort(P, p), {":", "/"} \subseteq S,
         NEW a \in Nat, NEW b \in Nat, NEW c \in Nat, NEW e, Fits(text, a, h, b), Fits(text, b, P, c), Fits(text, c, <<"/">>, e)
  PROVE  LaidHost(text, a, h, p, e)
<1>1. e = c + 1 /\ text[e] = "/"
  BY OneFits
<1>2. Len(h) \in Nat /\ Len(p) \in Nat
  BY LenProperties
<1>3. CASE p = <<>>
  <2>1. c = b
    BY <1>3 DEF IsPort, Fits
  <2> QED
    BY <1>1, <1>2, <1>3, <2>1 DEF LaidHost, Fits
<1>4. CASE p # <<>>
  <2>1. P = <<":">> \o p /\ <<":">> \in Seq(S)
    BY <1>4 DEF IsPort
  <2>2. FitsApart(text, S)
    BY ConcatFits
  <2>3. PICK d \in Nat : Fits(text, b, <<":">>, d) /\ Fits(text, d, p, c)
    BY <2>1, <2>2 DEF FitsApart
  <2>4. d = b + 1 /\ text[d] = ":"
    BY <2>3, OneFits
  <2> QED
    BY <1>1, <1>2, <1>4, <2>3, <2>4 DEF LaidHost, Fits
<1> QED
  BY <1>3, <1>4

\* ... the path and the query, ...
LEMMA PathIsLaid ==
  ASSUME NEW text, NEW S, NEW x \in Seq(S), NEW q \in Seq(S), NEW Q, IsQuery(Q, q), "?" \in S,
         NEW a \in Nat, NEW b \in Nat, NEW n, Fits(text, a, x, b), Fits(text, b, Q, n)
  PROVE  LaidPath(text, a, x, q, n)
<1>1. Len(x) \in Nat /\ Len(q) \in Nat
  BY LenProperties
<1>2. Has(text, a, x) /\ b = a + Len(x)
  BY DEF Fits
<1>3. Closes(text, b, n, q)
  <2>1. CASE q = <<>>
    BY <2>1 DEF IsQuery, Fits, Closes
  <2>2. CASE q # <<>>
    <3>1. Q = <<"?">> \o q /\ <<"?">> \in Seq(S)
      BY <2>2 DEF IsQuery
    <3>2. FitsApart(text, S)
      BY ConcatFits
    <3>3. PICK d \in Nat : Fits(text, b, <<"?">>, d) /\ Fits(text, d, q, n)
      BY <3>1, <3>2 DEF FitsApart
    <3>4. d = b + 1 /\ text[d] = "?"
      BY <3>3, OneFits
    <3> QED
      BY <1>1, <2>2, <3>3, <3>4 DEF Closes, Fits
  <2> QED
    BY <2>1, <2>2
<1> QED
  BY <1>2, <1>3 DEF LaidPath

\* ... and the scheme.
LEMMA BeginningIsLaid ==
  ASSUME NEW text, NEW S, NEW s \in Seq(S), {":", "/"} \subseteq S, NEW b, Fits(text, 0, s \o SchemeEnd, b)
  PROVE  Has(text, 0, s) /\ BeginsAt(text, Len(s)) /\ b = Len(s) + 3
<1>1. SchemeEnd \in Seq(S) /\ Len(SchemeEnd) = 3 /\ SchemeEnd[1] = ":" /\ SchemeEnd[2] = "/" /\ SchemeEnd[3] = "/"
  BY DEF SchemeEnd
<1>2. PICK a \in Nat : Fits(text, 0, s, a) /\ Fits(text, a, SchemeEnd, b)
  <2>1. FitsApart(text, S) /\ 0 \in Nat
    BY ConcatFits
  <2> QED
    BY <1>1, <2>1 DEF FitsApart
<1>3. Len(s) \in Nat /\ Has(text, 0, s) /\ a = Len(s)
  <2>1. Len(s) \in Nat
    BY LenProperties
  <2> QED
    BY <1>2, <2>1 DEF Fits
<1>4. text[a + 1] = ":" /\ text[a + 2] = "/" /\ text[a + 3] = "/" /\ b = a + 3
  BY <1>1, <1>2 DEF Fits, Has
<1> QED
  BY <1>3, <1>4 DEF BeginsAt

\* A text that is put together so is laid out so.
LEMMA LayoutIsLaid ==
  ASSUME NEW S, NEW s \in Seq(S), NEW us \in Seq(S), NEW pw \in Seq(S), NEW h \in Seq(S), NEW p \in Seq(S),
         NEW x \in Seq(S), NEW q \in Seq(S), NEW L \in Seq(S), NEW P \in Seq(S), NEW Q \in Seq(S),
         IsLogin(L, us, pw), IsPort(P, p), IsQuery(Q, q),
         {":", "/", "?"} \subseteq S, us # <<>> => "@" \in S
  PROVE  Layout(s, L, h, P, x, Q) \in Seq(S) /\ LaidUrl(Layout(s, L, h, P, x, Q), s, us, pw, h, p, x, q)
<1> DEFINE t1 == s \o SchemeEnd
           t2 == t1 \o L
           t3 == t2 \o h
           t4 == t3 \o P
           t5 == t4 \o <<"/">>
           t6 == t5 \o x
           text == t6 \o Q
<1>1. Layout(s, L, h, P, x, Q) = text
  BY DEF Layout
<1>2. FitsApart(text, S)
  BY ConcatFits
<1>3. t1 \in Seq(S) /\ t2 \in Seq(S) /\ t3 \in Seq(S) /\ t4 \in Seq(S) /\ t5 \in Seq(S) /\ t6 \in Seq(S) /\ text \in Seq(S)
  <2>1. SchemeEnd \in Seq(S) /\ <<"/">> \in Seq(S)
    BY DEF SchemeEnd
  <2>2. \A a \in Seq(S), b \in Seq(S) : a \o b \in Seq(S)
    OBVIOUS
  <2>3. t1 \in Seq(S)
    BY <2>1, <2>2
  <2> HIDE DEF t1
  <2>4. t2 \in Seq(S)
    BY <2>2, <2>3
  <2> HIDE DEF t2
  <2>5. t3 \in Seq(S)
    BY <2>2, <2>4
  <2> HIDE DEF t3
  <2>6. t4 \in Seq(S)
    BY <2>2, <2>5
  <2> HIDE DEF t4
  <2>7. t5 \in Seq(S)
    BY <2>1, <2>2, <2>6
  <2> HIDE DEF t5
  <2>8. t6 \in Seq(S)
    BY <2>2, <2>7
  <2> HIDE DEF t6
  <2>9. text \in Seq(S)
    BY <2>2, <2>8
  <2> QED
    BY <2>3, <2>4, <2>5, <2>6, <2>7, <2>8, <2>9
<1>4. <<"/">> \in Seq(S)
  OBVIOUS
<1> DEFINE n == Len(text)
<1>5. n \in Nat /\ Fits(text, 0, text, n)
  <2> HIDE DEF text
  <2>1. \A j \in 1 .. n : text[0 + j] = text[j]
    OBVIOUS
  <2>2. n \in Nat
    BY <1>3, LenProperties
  <2> QED
    BY <2>1, <2>2 DEF Fits, Has
<1> HIDE DEF n
<1> DEFINE J(y, z, e) == \E c \in Nat : Fits(text, 0, y, c) /\ Fits(text, c, z, e)
<1>6. \A y \in Seq(S), z \in Seq(S) : \A e : Fits(text, 0, y \o z, e) => J(y, z, e)
  BY <1>2 DEF FitsApart
<1>7. PICK c6 \in Nat : Fits(text, 0, t6, c6) /\ Fits(text, c6, Q, n)
  <2> HIDE DEF t6
  <2>1. J(t6, Q, n)
    <3>1. t6 \o Q = text
      BY DEF text
    <3> HIDE DEF J, text
    <3> QED
      BY <1>3, <1>5, <1>6, <3>1
  <2> QED
    BY <2>1
<1> HIDE DEF text
<1>8. PICK c5 \in Nat : Fits(text, 0, t5, c5) /\ Fits(text, c5, x, c6)
  <2> HIDE DEF t5
  <2>1. J(t5, x, c6)
    <3> HIDE DEF J
    <3> QED
      BY <1>3, <1>6, <1>7
  <2> QED
    BY <2>1
<1>9. PICK c4 \in Nat : Fits(text, 0, t4, c4) /\ Fits(text, c4, <<"/">>, c5)
  <2> HIDE DEF t4
  <2>1. J(t4, <<"/">>, c5)
    <3> HIDE DEF J
    <3> QED
      BY <1>3, <1>4, <1>6, <1>8
  <2> QED
    BY <2>1
<1>10. PICK c3 \in Nat : Fits(text, 0, t3, c3) /\ Fits(text, c3, P, c4)
  <2> HIDE DEF t3
  <2>1. J(t3, P, c4)
    <3> HIDE DEF J
    <3> QED
      BY <1>3, <1>6, <1>9
  <2> QED
    BY <2>1
<1>11. PICK c2 \in Nat : Fits(text, 0, t2, c2) /\ Fits(text, c2, h, c3)
  <2> HIDE DEF t2
  <2>1. J(t2, h, c3)
    <3> HIDE DEF J
    <3> QED
      BY <1>3, <1>6, <1>10
  <2> QED
    BY <2>1
<1>12. PICK c1 \in Nat : Fits(text, 0, t1, c1) /\ Fits(text, c1, L, c2)
  <2> HIDE DEF t1
  <2>1. J(t1, L, c2)
    <3> HIDE DEF J
    <3> QED
      BY <1>3, <1>6, <1>11
  <2> QED
    BY <2>1
<1>13. Has(text, 0, s) /\ BeginsAt(text, Len(s)) /\ c1 = Len(s) + 3
  BY <1>12, BeginningIsLaid
<1>14. LaidLogin(text, c1, us, pw, c2)
  <2>1. us # <<>> => {":", "@"} \subseteq S
    OBVIOUS
  <2> QED
    BY <1>12, <2>1, LoginIsLaid
<1>15. LaidHost(text, c2, h, p, c5)
  <2>1. {":", "/"} \subseteq S
    OBVIOUS
  <2> QED
    BY <1>9, <1>10, <1>11, <2>1, HostIsLaid
<1>16. LaidPath(text, c5, x, q, n)
  <2>1. "?" \in S
    OBVIOUS
  <2> QED
    BY <1>7, <1>8, <2>1, PathIsLaid
<1>17. LaidFrom(text, Len(s) + 3, us, pw, h, p, x, q, c2, c5)
  BY <1>13, <1>14, <1>15, <1>16 DEF LaidFrom, n
<1>18. LaidUrl(text, s, us, pw, h, p, x, q)
  BY <1>13, <1>17 DEF LaidUrl
<1> QED
  BY <1>1, <1>3, <1>18

\* A Url that is put together of readable parts is read.
LEMMA ReadingLayout ==
  ASSUME NEW C, {":", "/", "?"} \subseteq C, {Digits[k] : k \in 0 .. 9} \subseteq C,
         NEW s, NEW us, NEW pw, NEW h, NEW p, NEW x, NEW q, ReadableParts(C, s, us, pw, h, p, x, q),
         NEW L, NEW P, NEW Q, IsLogin(L, us, pw), IsPort(P, p), IsQuery(Q, q)
  PROVE  Layout(s, L, h, P, x, Q) \in Seq(C \union {"@"}) /\ UrlIsRead(Layout(s, L, h, P, x, Q), s, us, pw, h, p, x, q)
<1> DEFINE S == IF us = <<>> THEN C ELSE C \union {"@"}
           text == Layout(s, L, h, P, x, Q)
<1>1. C \subseteq S /\ S \subseteq C \union {"@"} /\ {":", "/", "?"} \subseteq S /\ (us # <<>> => "@" \in S) /\ (us = <<>> => S = C)
  OBVIOUS
<1> HIDE DEF S
<1>2. /\ s \in Seq(S) /\ us \in Seq(S) /\ pw \in Seq(S) /\ h \in Seq(S) /\ p \in Seq(S)
      /\ x \in Seq(S) /\ q \in Seq(S)
  <2>1. Seq(C) \subseteq Seq(S)
    BY <1>1, SeqWider
  <2>2. C \ {":"} \subseteq C /\ C \ {":", "/"} \subseteq C /\ C \ {"?"} \subseteq C /\ C \ {"#"} \subseteq C
    OBVIOUS
  <2>3. s \in Seq(C) /\ us \in Seq(C)
    <3>1. Seq(C \ {":"}) \subseteq Seq(C)
      BY <2>2, SeqWider
    <3> QED
      BY <3>1 DEF ReadableParts
  <2>4. h \in Seq(C)
    <3>1. Seq(C \ {":", "/"}) \subseteq Seq(C)
      BY <2>2, SeqWider
    <3> QED
      BY <3>1 DEF ReadableParts
  <2>5. x \in Seq(C)
    <3>1. Seq(C \ {"?"}) \subseteq Seq(C)
      BY <2>2, SeqWider
    <3> QED
      BY <3>1 DEF ReadableParts
  <2>6. q \in Seq(C)
    <3>1. Seq(C \ {"#"}) \subseteq Seq(C)
      BY <2>2, SeqWider
    <3> QED
      BY <3>1 DEF ReadableParts
  <2>7. p \in Seq(C)
    <3>1. DigitText \subseteq Seq(C)
      BY SeqWider DEF DigitText
    <3> QED
      BY <3>1 DEF ReadableParts
  <2>8. pw \in Seq(C)
    BY DEF ReadableParts
  <2> QED
    BY <2>1, <2>3, <2>4, <2>5, <2>6, <2>7, <2>8
<1>3. L \in Seq(S) /\ P \in Seq(S) /\ Q \in Seq(S)
  <2>1. \A a \in Seq(S), b \in Seq(S) : a \o b \in Seq(S)
    OBVIOUS
  <2>2. L \in Seq(S)
    <3>1. CASE us = <<>>
      BY <1>2, <3>1 DEF IsLogin
    <3>2. CASE us # <<>>
      <4>1. <<":">> \in Seq(S) /\ <<"@">> \in Seq(S)
        BY <1>1, <3>2
      <4>2. us \o <<":">> \in Seq(S)
        BY <1>2, <2>1, <4>1
      <4>3. us \o <<":">> \o pw \in Seq(S)
        BY <1>2, <2>1, <4>2
      <4>4. us \o <<":">> \o pw \o <<"@">> \in Seq(S)
        BY <2>1, <4>1, <4>3
      <4> QED
        BY <3>2, <4>4 DEF IsLogin
    <3> QED
      BY <3>1, <3>2
  <2>3. <<":">> \in Seq(S) /\ <<"?">> \in Seq(S)
    BY <1>1
  <2>4. P \in Seq(S)
    BY <1>2, <2>1, <2>3 DEF IsPort
  <2>5. Q \in Seq(S)
    BY <1>2, <2>1, <2>3 DEF IsQuery
  <2> QED
    BY <2>2, <2>4, <2>5
<1>4. text \in Seq(S) /\ LaidUrl(text, s, us, pw, h, p, x, q)
  BY <1>1, <1>2, <1>3, LayoutIsLaid
<1> HIDE DEF text
<1>5. text \in Seq(C \union {"@"}) /\ (us = <<>> => text \in Seq(C))
  <2>1. Seq(S) \subseteq Seq(C \union {"@"})
    BY <1>1, SeqWider
  <2> QED
    BY <1>1, <1>4, <2>1
<1>6. UrlIsRead(text, s, us, pw, h, p, x, q)
  BY <1>4, <1>5, ReadingUrl
<1> QED
  BY <1>5, <1>6 DEF text

\* What UrlText writes is put together so.
LEMMA UrlTextIs ==
  ASSUME NEW w
  PROVE  \E L, P, Q : IsLogin(L, w.user, IF w.user = <<>> THEN <<>> ELSE w.password) /\ IsPort(P, w.port) /\ IsQuery(Q, w.query)
                      /\ UrlText(w) = Layout(w.scheme, L, w.host, P, w.path, Q)
<1> DEFINE L == IF w.user = <<>> THEN <<>> ELSE w.user \o <<":">> \o w.password \o <<"@">>
           P == IF w.port = <<>> THEN <<>> ELSE <<":">> \o w.port
           Q == IF w.query = <<>> THEN <<>> ELSE <<"?">> \o w.query
<1>1. IsLogin(L, w.user, IF w.user = <<>> THEN <<>> ELSE w.password)
  BY DEF IsLogin
<1>2. IsPort(P, w.port) /\ IsQuery(Q, w.query)
  BY DEF IsPort, IsQuery
<1>3. UrlText(w) = Layout(w.scheme, L, w.host, P, w.path, Q)
  BY DEF UrlText, Layout
<1> QED
  BY <1>1, <1>2, <1>3

\* A set of numbers has a least one.
LEMMA SetMinimum ==
  ASSUME NEW T, T \subseteq Nat, T # {}
  PROVE  \E x \in T : \A y \in T : x <= y
<1> SUFFICES ASSUME \A x \in T : \E y \in T : ~ (x <= y) PROVE FALSE
  OBVIOUS
<1> DEFINE S == {k \in Nat : \A x \in T : x > k}
<1>1. 0 \in S
  OBVIOUS
<1>2. ASSUME NEW k \in Nat, k \in S PROVE k + 1 \in S
  BY <1>2
<1> HIDE DEF S
<1>3. Nat \subseteq S
  BY <1>1, <1>2, SetInduction
<1>4. PICK x \in T : TRUE
  OBVIOUS
<1> QED
  BY <1>3, <1>4 DEF S

\* What is written of a number are digits, as many as there are powers at most.
LEMMA DecimalOfType ==
  ASSUME NEW n \in Nat, NEW powers \in Seq(Nat \ {0}), powers # <<>>
  PROVE  DecimalOf(n, powers) \in DigitText /\ Len(DecimalOf(n, powers)) <= Len(powers) /\ DecimalOf(n, powers) # <<>>
<1> DEFINE size == Len(powers)
           all == [k \in 1 .. size |-> (n \div powers[k]) % 10]
           T == {k \in 1 .. size : all[k] # 0} \union {size}
           first == Min(T)
           digits == SubSeq(all, first, size)
<1>1. DecimalOf(n, powers) = Map(LAMBDA k : Digits[k], digits)
  BY DEF DecimalOf
<1>2. size \in Nat \ {0}
  BY LenProperties, EmptySeq
<1> HIDE DEF size
<1>3. all \in Seq(0 .. 9) /\ Len(all) = size
  <2>1. \A k \in 1 .. size : powers[k] \in Nat \ {0}
    BY ElementOfSeq DEF size
  <2>2. \A d \in Nat \ {0} : (n \div d) % 10 \in 0 .. 9
    OBVIOUS
  <2> DEFINE Place(k) == (n \div powers[k]) % 10
  <2>3. \A k \in 1 .. size : Place(k) \in 0 .. 9
    BY <2>1, <2>2
  <2>4. all = [k \in 1 .. size |-> Place(k)]
    OBVIOUS
  <2> HIDE DEF Place, all
  <2> QED
    BY <1>2, <2>3, <2>4
<1>4. T \subseteq 1 .. size /\ size \in T
  BY <1>2
<1> HIDE DEF T, all
<1>5. first \in 1 .. size
  <2>1. \E x \in T : \A y \in T : x <= y
    <3>1. T \subseteq Nat /\ T # {}
      BY <1>4
    <3> QED
      BY <3>1, SetMinimum
  <2> QED
    BY <1>4, <2>1 DEF Min
<1> HIDE DEF first
<1>6. digits \in Seq(0 .. 9) /\ Len(digits) = size + 1 - first
  <2>1. first <= size + 1 /\ \A i \in first .. size : i \in 1 .. Len(all) /\ all[i] \in 0 .. 9
    <3>1. \A i \in 1 .. size : all[i] \in 0 .. 9
      BY <1>3, ElementOfSeq
    <3> QED
      BY <1>3, <1>5, <3>1
  <2> QED
    BY <1>3, <1>5, <2>1, SubSeqProperties
<1> HIDE DEF digits
<1>7. PICK m \in 1 .. size : m = Len(digits)
  BY <1>2, <1>5, <1>6
<1>8. \A k \in 1 .. m : Digits[digits[k]] \in {Digits[j] : j \in 0 .. 9}
  BY <1>6, <1>7, ElementOfSeq
<1>9. DecimalOf(n, powers) = [k \in 1 .. m |-> Digits[digits[k]]]
  BY <1>1, <1>7 DEF Map
<1> QED
  BY <1>7, <1>8, <1>9 DEF DigitText, size

\* A port is written in at most five digits.
LEMMA DecimalType ==
  ASSUME NEW n \in Nat
  PROVE  Decimal(n) \in DigitText /\ Len(Decimal(n)) <= 5 /\ Decimal(n) # <<>>
<1> DEFINE powers == <<10000, 1000, 100, 10, 1>>
<1>1. powers \in Seq(Nat \ {0}) /\ Len(powers) = 5 /\ powers # <<>>
  BY SMT
<1>2. Decimal(n) = DecimalOf(n, powers)
  BY SMT DEF Decimal
<1> HIDE DEF powers
<1> QED
  BY <1>1, <1>2, DecimalOfType

-----------------------------------------------------------------------------
(* The Url of the user. *)

\* Characters, and those of a URL without a user.
Marks == {":", "/", "?", "#", "=", "&", "@"}
Character == STRING \union Marks \union {Digits[k] : k \in 0 .. 9}
Ordinary == Character \ {"@"}
Named == Ordinary \ {"#", "&", "="}

\* A Url each part of which could be written.
ReadableUrl(u) ==
    /\ u = UrlOf(u.scheme, u.user, u.password, u.host, u.port, u.path, u.params)
    /\ u.scheme \in Seq(Ordinary \ {":"}) /\ u.scheme # <<>>
    /\ u.user \in Seq(Ordinary \ {":"}) /\ u.password \in Seq(Ordinary) /\ (u.user = <<>> <=> u.password = <<>>)
    /\ u.host \in Seq(Ordinary \ {":", "/"}) /\ u.host # <<>>
    /\ u.port \in Nat
    /\ u.path \in Seq(Ordinary \ {"?"}) /\ u.path # <<>>

\* The marks and digits of a URL are ordinary, and "=" and "&" are all that a query has
\* besides names and values.
LEMMA OrdinaryIs ==
  /\ "@" \notin Ordinary /\ {":", "/", "?"} \subseteq Ordinary /\ {Digits[k] : k \in 0 .. 9} \subseteq Ordinary
  /\ "=" \notin Named /\ "&" \notin Named
  /\ Named \union {"=", "&"} = Ordinary \ {"#"}
<1>1. \A k \in 0 .. 9 : Digits[k] # "@"
  BY DigitsAre DEF DigitCharacters
<1> QED
  BY <1>1 DEF Ordinary, Character, Named, Marks

\* What lacks some marks is a text of the characters a part may have.
LEMMA WithoutIs ==
  /\ \A marks : Without(marks) \subseteq Seq(Character \ marks)
  /\ Without({":", "@"}) \subseteq Seq(Ordinary \ {":"})
  /\ Without({":", "/", "@"}) \subseteq Seq(Ordinary \ {":", "/"})
  /\ Without({"@"}) \subseteq Seq(Ordinary)
  /\ Without({"?", "@"}) \subseteq Seq(Ordinary \ {"?"})
  /\ Without({"#", "@"}) \subseteq Seq(Ordinary \ {"#"})
  /\ Without({"=", "&", "#", "@"}) \subseteq Seq(Named)
<1>1. \A marks, S : STRING \ marks \subseteq S => Without(marks) \subseteq Seq(S)
  BY SeqWider DEF Without
<1>2. \A marks : STRING \ marks \subseteq Character \ marks
  BY DEF Character
<1>3. /\ STRING \ {":", "@"} \subseteq Ordinary \ {":"}
      /\ STRING \ {":", "/", "@"} \subseteq Ordinary \ {":", "/"}
      /\ STRING \ {"@"} \subseteq Ordinary
      /\ STRING \ {"?", "@"} \subseteq Ordinary \ {"?"}
      /\ STRING \ {"#", "@"} \subseteq Ordinary \ {"#"}
      /\ STRING \ {"=", "&", "#", "@"} \subseteq Named
  BY DEF Ordinary, Character, Named
<1> QED
  BY <1>1, <1>2, <1>3

\* The text that such a Url composes is put together as a URL is.
LoginText(u) == IF u.user = <<>> THEN <<>> ELSE u.user \o <<":">> \o u.password \o <<"@">>
PortDigits(u, includePort) == IF u.port # 0 /\ includePort THEN Decimal(u.port) ELSE <<>>
QueryOf(u) == IF u.params = <<>> THEN <<>> ELSE QueryText(u)
Marked(mark, text) == IF text = <<>> THEN <<>> ELSE <<mark>> \o text
ComposedLayout(u, includePort) ==
    Layout(u.scheme, LoginText(u), u.host, Marked(":", PortDigits(u, includePort)), u.path, Marked("?", QueryOf(u)))

\* composeUrl puts the parts together so.
LEMMA ComposeUrlIs ==
  ASSUME NEW u, ReadableUrl(u), NEW includePort \in BOOLEAN,
         u.port # 0 /\ includePort <=> PortDigits(u, includePort) # <<>>, u.params # <<>> <=> QueryOf(u) # <<>>,
         ComposedLayout(u, includePort) \in Seq(Character)
  PROVE  ComposeUrl(u, includePort) = ComposedLayout(u, includePort)
<1> DEFINE S == Character
           start == u.scheme \o SchemeEnd
           port == Marked(":", PortDigits(u, includePort))
           query == Marked("?", QueryOf(u))
<1>1. Associates(S)
  BY ConcatAssociates
<1>2. u.scheme \in Seq(S) /\ u.user \in Seq(S) /\ u.password \in Seq(S)
  <2>1. Ordinary \ {":"} \subseteq S /\ Ordinary \subseteq S
    BY DEF Ordinary
  <2>2. Seq(Ordinary \ {":"}) \subseteq Seq(S) /\ Seq(Ordinary) \subseteq Seq(S)
    BY <2>1, SeqWider
  <2> QED
    BY <2>2 DEF ReadableUrl
<1>3. ":" \in S /\ "/" \in S /\ "@" \in S
  BY DEF Character, Marks
<1> HIDE DEF S
<1>4. (IF u.scheme # <<>> THEN u.scheme \o <<":">> ELSE <<>>) \o <<"/", "/">> = start
  <2>1. <<":">> \o <<"/", "/">> = SchemeEnd
    <3> DEFINE a == <<":">> \o <<"/", "/">>
    <3>1. a \in Seq(STRING \union {":", "/"}) /\ SchemeEnd \in Seq(STRING \union {":", "/"})
      BY DEF SchemeEnd
    <3>2. Len(a) = 3 /\ a[1] = ":" /\ a[2] = "/" /\ a[3] = "/"
      OBVIOUS
    <3>3. Len(SchemeEnd) = 3 /\ SchemeEnd[1] = ":" /\ SchemeEnd[2] = "/" /\ SchemeEnd[3] = "/"
      BY DEF SchemeEnd
    <3>4. \A i \in 1 .. 3 : a[i] = SchemeEnd[i]
      BY <3>2, <3>3
    <3> HIDE DEF a
    <3> QED
      BY <3>1, <3>2, <3>3, <3>4, SeqEqual
  <2>2. <<":">> \in Seq(S) /\ <<"/", "/">> \in Seq(S)
    BY <1>3
  <2>3. (u.scheme \o <<":">>) \o <<"/", "/">> = u.scheme \o (<<":">> \o <<"/", "/">>)
    BY <1>1, <1>2, <2>2 DEF Associates
  <2> QED
    BY <2>1, <2>3 DEF ReadableUrl
<1>5. (IF u.user # <<>> THEN u.user \o (IF u.password # <<>> THEN <<":">> \o u.password ELSE <<>>) \o <<"@">> ELSE <<>>) = LoginText(u)
  <2>1. <<":">> \in Seq(S)
    BY <1>3
  <2>2. u.user \o (<<":">> \o u.password) = (u.user \o <<":">>) \o u.password
    BY <1>1, <1>2, <2>1 DEF Associates
  <2> QED
    BY <2>2 DEF ReadableUrl, LoginText
<1>6. (IF u.port # 0 /\ includePort THEN <<":">> \o Decimal(u.port) ELSE <<>>) = port
  BY DEF PortDigits, Marked
<1>7. (IF u.params # <<>> THEN <<"?">> \o QueryText(u) ELSE <<>>) = query
  BY DEF QueryOf, Marked
<1>8. u.fragment = <<>>
  BY UrlOfParts DEF ReadableUrl
<1> HIDE DEF start, port, query
<1>9. ComposeUrl(u, includePort) = start \o LoginText(u) \o u.host \o port \o <<"/">> \o u.path \o query \o <<>>
  BY <1>4, <1>5, <1>6, <1>7, <1>8, Zenon DEF ComposeUrl
<1>10. ComposedLayout(u, includePort) = start \o LoginText(u) \o u.host \o port \o <<"/">> \o u.path \o query
  BY DEF ComposedLayout, Layout, start, port, query
<1>11. \A text \in Seq(S) : text \o <<>> = text
  BY ConcatEmptySeq
<1> QED
  BY <1>9, <1>10, <1>11 DEF S

\* Such a Url is read from the text it composes.
LEMMA ComposedIsRead ==
  ASSUME NEW u, ReadableUrl(u), u.params \in Parameters(Named), NEW includePort \in BOOLEAN
  PROVE  \E port : ReadUrl(ComposeUrl(u, includePort)) = UrlOf(u.scheme, u.user, u.password, u.host, port, u.path, u.params)
<1> DEFINE us == u.user
           pw == u.password
           port == u.port
           p == IF port # 0 /\ includePort THEN Decimal(port) ELSE <<>>
           q == IF u.params = <<>> THEN <<>> ELSE QueryText(u)
           L == IF us = <<>> THEN <<>> ELSE us \o <<":">> \o pw \o <<"@">>
           P == IF p = <<>> THEN <<>> ELSE <<":">> \o p
           Q == IF q = <<>> THEN <<>> ELSE <<"?">> \o q
<1>1. p \in DigitText /\ Len(p) <= 5 /\ (port # 0 /\ includePort <=> p # <<>>)
  <2>1. port \in Nat
    BY DEF ReadableUrl
  <2>2. Decimal(port) \in DigitText /\ Len(Decimal(port)) <= 5 /\ Decimal(port) # <<>>
    BY <2>1, DecimalType
  <2>3. <<>> \in DigitText /\ Len(<<>>) <= 5
    BY DEF DigitText
  <2> HIDE DEF port
  <2> QED
    BY <2>2, <2>3
<1>2. q \in Seq(Ordinary \ {"#"}) /\ (u.params # <<>> <=> q # <<>>) /\ (q # <<>> => ParseParams(q) = u.params)
  <2>1. CASE u.params = <<>>
    BY <2>1
  <2>2. CASE u.params # <<>>
    BY <2>2, OrdinaryIs, QueryReadsBack
  <2> QED
    BY <2>1, <2>2
<1>3. ReadableParts(Ordinary, u.scheme, us, pw, u.host, p, u.path, q)
  BY <1>1, <1>2, OrdinaryIs DEF ReadableUrl, ReadableParts
<1>4. IsLogin(L, us, pw) /\ IsPort(P, p) /\ IsQuery(Q, q)
  <2>1. IsLogin(L, us, pw)
    BY DEF ReadableUrl, IsLogin
  <2>2. IsPort(P, p)
    BY DEF IsPort
  <2>3. IsQuery(Q, q)
    BY DEF IsQuery
  <2> QED
    BY <2>1, <2>2, <2>3
<1> DEFINE text == Layout(u.scheme, L, u.host, P, u.path, Q)
<1>5. text = ComposedLayout(u, includePort)
  BY DEF ComposedLayout, LoginText, PortDigits, QueryOf, Marked
<1> HIDE DEF P, Q, L
<1>6. text \in Seq(Character) /\ UrlIsRead(text, u.scheme, us, pw, u.host, p, u.path, q)
  <2> HIDE DEF p, q, us, pw
  <2>1. text \in Seq(Ordinary \union {"@"}) /\ UrlIsRead(text, u.scheme, us, pw, u.host, p, u.path, q)
    BY <1>3, <1>4, OrdinaryIs, ReadingLayout
  <2>2. Ordinary \union {"@"} = Character
    BY DEF Ordinary, Character, Marks
  <2> QED
    BY <2>1, <2>2
<1> HIDE DEF text
<1>7. ComposeUrl(u, includePort) = text
  BY <1>1, <1>2, <1>5, <1>6, ComposeUrlIs DEF PortDigits, QueryOf
<1> HIDE DEF p, q, us, pw
<1>8. PICK port2 : ReadUrl(ComposeUrl(u, includePort))
          = UrlOf(u.scheme, us, pw, u.host, port2, u.path, IF q = <<>> THEN <<>> ELSE ParseParams(q))
  BY <1>6, <1>7 DEF UrlIsRead
<1>9. (IF q = <<>> THEN <<>> ELSE ParseParams(q)) = u.params
  BY <1>2
<1> QED
  BY <1>8, <1>9 DEF us, pw

\* The default port of a scheme is all that is not read.
LEMMA PortIsDefault ==
  ASSUME NEW s, NEW us, NEW pw, NEW h, NEW port, NEW x, NEW ps
  PROVE  \E p : WithDefaultPort(UrlOf(s, us, pw, h, port, x, ps)) = UrlOf(s, us, pw, h, p, x, ps)
                /\ p \in {port, SwapBytes(DefaultPorts[s[1]])} /\ (~Known(s) => p = port)
<1>1. \A p : [UrlOf(s, us, pw, h, port, x, ps) EXCEPT !.port = p] = UrlOf(s, us, pw, h, p, x, ps)
  BY DEF UrlOf
<1>2. UrlOf(s, us, pw, h, port, x, ps).scheme = s
  BY DEF UrlOf
<1> QED
  BY <1>1, <1>2 DEF WithDefaultPort

\* What the constructor makes of what it read.
LEMMA ConstructedUrl ==
  ASSUME NEW text, NEW s, NEW us, NEW pw, NEW h, NEW port, NEW x, NEW ps,
         ReadUrl(text) = UrlOf(s, us, pw, h, port, x, ps)
  PROVE  Url(text) = WithDefaultPort(UrlOf(s, us, pw, h, port, IF x = <<>> THEN <<"/">> ELSE x, ps))
<1>1. \A y : [UrlOf(s, us, pw, h, port, x, ps) EXCEPT !.path = y] = UrlOf(s, us, pw, h, port, y, ps)
  BY DEF UrlOf
<1>2. UrlOf(s, us, pw, h, port, x, ps).path = x
  BY DEF UrlOf
<1>3. Url(text) = WithDefaultPort([UrlOf(s, us, pw, h, port, x, ps) EXCEPT !.path = IF x = <<>> THEN <<"/">> ELSE x])
  BY <1>2 DEF Url
<1> QED
  BY <1>1, <1>3

\* Only the port may be another one.
LEMMA UrlReadsBack ==
  ASSUME NEW u, ReadableUrl(u), u.params \in Parameters(Named), NEW includePort \in BOOLEAN
  PROVE  [Url(ComposeUrl(u, includePort)) EXCEPT !.port = u.port] = u
<1>1. PICK port : ReadUrl(ComposeUrl(u, includePort)) = UrlOf(u.scheme, u.user, u.password, u.host, port, u.path, u.params)
  BY ComposedIsRead
<1>2. u.path # <<>> /\ u = UrlOf(u.scheme, u.user, u.password, u.host, u.port, u.path, u.params)
  BY DEF ReadableUrl
<1>3. Url(ComposeUrl(u, includePort)) = WithDefaultPort(UrlOf(u.scheme, u.user, u.password, u.host, port, u.path, u.params))
  BY <1>1, <1>2, ConstructedUrl
<1>4. PICK p : Url(ComposeUrl(u, includePort)) = UrlOf(u.scheme, u.user, u.password, u.host, p, u.path, u.params)
  BY <1>3, PortIsDefault
<1>5. \A s, us, pw, h, x, ps, port2 : [UrlOf(s, us, pw, h, p, x, ps) EXCEPT !.port = port2] = UrlOf(s, us, pw, h, port2, x, ps)
  BY DEF UrlOf
<1> QED
  BY <1>2, <1>4, <1>5

\* The text that is written is read as what it says; and no port adds up to 80 or 443.
LEMMA WrittenIsRead ==
  ASSUME NEW w \in Written
  PROVE  \E port \in Nat \ {80, 443} :
            ReadUrl(UrlText(w)) = UrlOf(w.scheme, w.user, w.password, w.host, port, w.path,
                                        IF w.query = <<>> THEN <<>> ELSE ParseParams(w.query))
<1>1. ReadableParts(Ordinary, w.scheme, w.user, w.password, w.host, w.port, w.path, w.query)
  <2>1. /\ w.scheme \in Without({":", "@"}) /\ w.user \in Without({":", "@"}) /\ w.password \in Without({"@"})
        /\ w.host \in Without({":", "/", "@"}) /\ w.host # <<>> /\ w.port \in DigitText /\ Len(w.port) <= 5
        /\ w.path \in Without({"?", "@"}) /\ w.query \in Without({"#", "@"})
    BY UrlsAreWritten, Zenon DEF DigitText
  <2> QED
    BY <2>1, OrdinaryIs, WithoutIs DEF ReadableParts
<1>2. w.user = <<>> => w.password = <<>>
  BY UrlsAreWritten, Zenon
<1>3. PICK L, P, Q :
        /\ IsLogin(L, w.user, w.password) /\ IsPort(P, w.port) /\ IsQuery(Q, w.query)
        /\ UrlText(w) = Layout(w.scheme, L, w.host, P, w.path, Q)
  BY <1>2, UrlTextIs
<1>4. UrlIsRead(UrlText(w), w.scheme, w.user, w.password, w.host, w.port, w.path, w.query)
  <2>1. UrlIsRead(Layout(w.scheme, L, w.host, P, w.path, Q), w.scheme, w.user, w.password, w.host, w.port, w.path, w.query)
    BY <1>1, <1>3, OrdinaryIs, ReadingLayout
  <2> QED
    BY <1>3, <2>1
<1>5. PICK port \in Sums(Len(w.port)) :
        ReadUrl(UrlText(w)) = UrlOf(w.scheme, w.user, w.password, w.host, port, w.path,
                                    IF w.query = <<>> THEN <<>> ELSE ParseParams(w.query))
  BY <1>4 DEF UrlIsRead
<1>6. Len(w.port) \in 0 .. 5
  <2>1. w.port \in DigitText /\ Len(w.port) <= 5
    BY <1>1 DEF ReadableParts
  <2>2. Len(w.port) \in Nat
    BY <2>1, LenProperties DEF DigitText
  <2>3. \A j \in Nat : j <= 5 => j \in 0 .. 5
    OBVIOUS
  <2> QED
    BY <2>1, <2>2, <2>3
<1>7. \A m \in 0 .. 5 : \A z \in Sums(m) : z \in Nat \ {80, 443}
  BY DEF Sums
<1>8. port \in Nat \ {80, 443}
  BY <1>6, <1>7, Zenon
<1> QED
  BY <1>5, <1>8, Zenon

\* A default port is a number on the wire, too.
LEMMA DefaultPortIsNumber ==
  ASSUME NEW s, Known(s)
  PROVE  SwapBytes(DefaultPorts[s[1]]) \in Nat
<1>1. PICK name \in DOMAIN DefaultPorts : s = <<name>>
  BY DEF Known
<1>2. s[1] = name
  BY <1>1
<1>3. DefaultPorts[name] \in Nat
  BY DEF DefaultPorts
<1>4. \A n \in Nat : (n % 256) * 256 + n \div 256 \in Nat
  OBVIOUS
<1> QED
  BY <1>2, <1>3, <1>4 DEF SwapBytes

\* The default port leaves a Url readable.
LEMMA DefaultPortReadable ==
  ASSUME NEW u, ReadableUrl(u)
  PROVE  ReadableUrl(WithDefaultPort(u)) /\ WithDefaultPort(u).params = u.params
<1> DEFINE v == WithDefaultPort(u)
<1>1. u = UrlOf(u.scheme, u.user, u.password, u.host, u.port, u.path, u.params)
  BY DEF ReadableUrl
<1>2. PICK p : /\ v = UrlOf(u.scheme, u.user, u.password, u.host, p, u.path, u.params)
               /\ p \in {u.port, SwapBytes(DefaultPorts[u.scheme[1]])} /\ (~Known(u.scheme) => p = u.port)
  BY <1>1, PortIsDefault
<1>3. p \in Nat
  BY <1>2, DefaultPortIsNumber DEF ReadableUrl
<1> HIDE DEF v
<1>4. /\ v.scheme = u.scheme /\ v.user = u.user /\ v.password = u.password /\ v.host = u.host
      /\ v.port = p /\ v.path = u.path /\ v.params = u.params
  BY <1>2 DEF UrlOf
<1> QED
  BY <1>2, <1>3, <1>4 DEF ReadableUrl, v

\* What the user has made of the Url can be composed and read: if the parameters that
\* were added are plain, they are separated where they are read.
Composable ==
    /\ ReadableUrl(url)
    /\ "added" \in DOMAIN meant /\ meant.added \in Seq([name : Seq(Named), value : Seq(STRING)])
    /\ AllPlain(meant.added) => url.params \in Parameters(Named)

\* What is written can be composed.
LEMMA InitComposable ==
  ASSUME Init
  PROVE  Composable
<1>1. PICK w \in Written :
        /\ url = Url(UrlText(w))
        /\ meant = [scheme |-> w.scheme, user |-> w.user, password |-> w.password, host |-> w.host, port |-> w.port,
                    path |-> w.path, query |-> w.query, added |-> <<>>, portSet |-> FALSE]
  BY DEF Init
<1> DEFINE ps == IF w.query = <<>> THEN <<>> ELSE ParseParams(w.query)
           x == IF w.path = <<>> THEN <<"/">> ELSE w.path
<1>2. PICK port \in Nat \ {80, 443} : ReadUrl(UrlText(w)) = UrlOf(w.scheme, w.user, w.password, w.host, port, w.path, ps)
  BY WrittenIsRead
<1>3. ps \in Parameters(Named)
  <2>1. w.query \in Seq(Ordinary \ {"#"})
    BY UrlsAreWritten, WithoutIs
  <2>2. (Ordinary \ {"#"}) \ {"&", "="} = Named
    BY DEF Named
  <2>3. ParseParams(w.query) \in Parameters((Ordinary \ {"#"}) \ {"&", "="})
    BY <2>1, ParseParamsType
  <2>4. <<>> \in Parameters(Named)
    BY DEF Parameters
  <2> QED
    BY <2>2, <2>3, <2>4
<1> HIDE DEF ps
<1> DEFINE u == UrlOf(w.scheme, w.user, w.password, w.host, port, x, ps)
<1>4. url = WithDefaultPort(u)
  BY <1>1, <1>2, ConstructedUrl
<1>5. /\ u.scheme = w.scheme /\ u.user = w.user /\ u.password = w.password /\ u.host = w.host
      /\ u.port = port /\ u.path = x /\ u.params = ps
  BY DEF UrlOf
<1>6. x \in Seq(Ordinary \ {"?"}) /\ x # <<>>
  <2>1. w.path \in Seq(Ordinary \ {"?"})
    BY UrlsAreWritten, WithoutIs
  <2>2. "/" \in Ordinary \ {"?"}
    BY OrdinaryIs
  <2>3. <<"/">> \in Seq(Ordinary \ {"?"}) /\ <<"/">> # <<>>
    BY <2>2
  <2> QED
    BY <2>1, <2>3
<1>7. u = UrlOf(u.scheme, u.user, u.password, u.host, u.port, u.path, u.params)
  BY <1>5
<1> HIDE DEF u, x
<1>8. ReadableUrl(u)
  <2>1. /\ w.scheme \in Seq(Ordinary \ {":"}) /\ w.scheme # <<>>
        /\ w.user \in Seq(Ordinary \ {":"}) /\ w.password \in Seq(Ordinary) /\ (w.user = <<>> <=> w.password = <<>>)
        /\ w.host \in Seq(Ordinary \ {":", "/"}) /\ w.host # <<>>
    BY UrlsAreWritten, WithoutIs
  <2> QED
    BY <1>5, <1>6, <1>7, <2>1 DEF ReadableUrl
<1>9. ReadableUrl(url) /\ url.params = ps
  BY <1>4, <1>5, <1>8, DefaultPortReadable
<1>10. "added" \in DOMAIN meant /\ meant.added = <<>>
  BY <1>1
<1> QED
  BY <1>3, <1>9, <1>10 DEF Composable

\* A part that is set to what can be read leaves the Url readable.
LEMMA SetReadable ==
  ASSUME NEW u, ReadableUrl(u)
  PROVE  /\ \A s \in Seq(Ordinary \ {":"}) \ {<<>>} :
              ReadableUrl([u EXCEPT !.scheme = s]) /\ [u EXCEPT !.scheme = s].params = u.params
         /\ \A h \in Seq(Ordinary \ {":", "/"}) \ {<<>>} :
              LET v == [u EXCEPT !.host = h, !.user = <<>>, !.password = <<>>] IN ReadableUrl(v) /\ v.params = u.params
         /\ \A p \in Nat : ReadableUrl([u EXCEPT !.port = p]) /\ [u EXCEPT !.port = p].params = u.params
         /\ \A x \in Seq(Ordinary \ {"?"}) \ {<<>>} :
              ReadableUrl([u EXCEPT !.path = x]) /\ [u EXCEPT !.path = x].params = u.params
         /\ \A p : LET v == [u EXCEPT !.params = Append(@, p)] IN ReadableUrl(v) /\ v.params = Append(u.params, p)
<1>1. /\ u = UrlOf(u.scheme, u.user, u.password, u.host, u.port, u.path, u.params)
      /\ u.scheme \in Seq(Ordinary \ {":"}) /\ u.scheme # <<>>
      /\ u.user \in Seq(Ordinary \ {":"}) /\ u.password \in Seq(Ordinary) /\ (u.user = <<>> <=> u.password = <<>>)
      /\ u.host \in Seq(Ordinary \ {":", "/"}) /\ u.host # <<>>
      /\ u.port \in Nat
      /\ u.path \in Seq(Ordinary \ {"?"}) /\ u.path # <<>>
  BY DEF ReadableUrl
<1>7. PICK s0, us0, pw0, h0, p0, x0, ps0 :
        /\ u = UrlOf(s0, us0, pw0, h0, p0, x0, ps0)
        /\ s0 = u.scheme /\ us0 = u.user /\ pw0 = u.password /\ h0 = u.host /\ p0 = u.port /\ x0 = u.path /\ ps0 = u.params
  BY <1>1
<1>2. ASSUME NEW s \in Seq(Ordinary \ {":"}) \ {<<>>}
      PROVE  ReadableUrl([u EXCEPT !.scheme = s]) /\ [u EXCEPT !.scheme = s].params = u.params
  <2> DEFINE v == [u EXCEPT !.scheme = s]
  <2>1. v = UrlOf(s, us0, pw0, h0, p0, x0, ps0)
    BY <1>7 DEF UrlOf
  <2> HIDE DEF v
  <2>2. /\ v.scheme = s /\ v.user = u.user /\ v.password = u.password /\ v.host = u.host
        /\ v.port = u.port /\ v.path = u.path /\ v.params = u.params
    BY <1>7, <2>1 DEF UrlOf
  <2>3. v = UrlOf(v.scheme, v.user, v.password, v.host, v.port, v.path, v.params)
    BY <1>7, <2>1, <2>2
  <2> QED
    BY <1>1, <2>2, <2>3 DEF ReadableUrl, v
<1>3. ASSUME NEW h \in Seq(Ordinary \ {":", "/"}) \ {<<>>}
      PROVE  LET v == [u EXCEPT !.host = h, !.user = <<>>, !.password = <<>>] IN ReadableUrl(v) /\ v.params = u.params
  <2> DEFINE v == [u EXCEPT !.host = h, !.user = <<>>, !.password = <<>>]
  <2>1. v = UrlOf(s0, <<>>, <<>>, h, p0, x0, ps0)
    <3> DEFINE F == {"scheme", "user", "password", "host", "port", "path", "params", "fragment"}
               a == UrlOf(s0, us0, pw0, h0, p0, x0, ps0)
               b == UrlOf(s0, <<>>, <<>>, h, p0, x0, ps0)
               c == [a EXCEPT !.host = h, !.user = <<>>, !.password = <<>>]
    <3>1. b = [f \in F |-> b[f]] /\ DOMAIN a = F
      BY DEF UrlOf
    <3>2. c = [f \in F |-> c[f]]
      BY <3>1
    <3>3. \A f \in F : c[f] = IF f = "host" THEN h ELSE IF f \in {"user", "password"} THEN <<>> ELSE a[f]
      BY <3>1
    <3>4. \A f \in F : b[f] = IF f = "host" THEN h ELSE IF f \in {"user", "password"} THEN <<>> ELSE a[f]
      BY DEF UrlOf
    <3> HIDE DEF F, a, b, c
    <3>5. c = b
      BY <3>1, <3>2, <3>3, <3>4
    <3> QED
      BY <1>7, <3>5 DEF a, b, c
  <2> HIDE DEF v
  <2>2. /\ v.scheme = u.scheme /\ v.user = <<>> /\ v.password = <<>> /\ v.host = h
        /\ v.port = u.port /\ v.path = u.path /\ v.params = u.params
    BY <1>7, <2>1 DEF UrlOf
  <2>3. v = UrlOf(v.scheme, v.user, v.password, v.host, v.port, v.path, v.params)
    BY <1>7, <2>1, <2>2
  <2>4. \A S : <<>> \in Seq(S)
    OBVIOUS
  <2> QED
    BY <1>1, <2>2, <2>3, <2>4 DEF ReadableUrl, v
<1>4. ASSUME NEW p \in Nat
      PROVE  ReadableUrl([u EXCEPT !.port = p]) /\ [u EXCEPT !.port = p].params = u.params
  <2> DEFINE v == [u EXCEPT !.port = p]
  <2>1. v = UrlOf(s0, us0, pw0, h0, p, x0, ps0)
    BY <1>7 DEF UrlOf
  <2> HIDE DEF v
  <2>2. /\ v.scheme = u.scheme /\ v.user = u.user /\ v.password = u.password /\ v.host = u.host
        /\ v.port = p /\ v.path = u.path /\ v.params = u.params
    BY <1>7, <2>1 DEF UrlOf
  <2>3. v = UrlOf(v.scheme, v.user, v.password, v.host, v.port, v.path, v.params)
    BY <1>7, <2>1, <2>2
  <2> QED
    BY <1>1, <2>2, <2>3 DEF ReadableUrl, v
<1>5. ASSUME NEW x \in Seq(Ordinary \ {"?"}) \ {<<>>}
      PROVE  ReadableUrl([u EXCEPT !.path = x]) /\ [u EXCEPT !.path = x].params = u.params
  <2> DEFINE v == [u EXCEPT !.path = x]
  <2>1. v = UrlOf(s0, us0, pw0, h0, p0, x, ps0)
    BY <1>7 DEF UrlOf
  <2> HIDE DEF v
  <2>2. /\ v.scheme = u.scheme /\ v.user = u.user /\ v.password = u.password /\ v.host = u.host
        /\ v.port = u.port /\ v.path = x /\ v.params = u.params
    BY <1>7, <2>1 DEF UrlOf
  <2>3. v = UrlOf(v.scheme, v.user, v.password, v.host, v.port, v.path, v.params)
    BY <1>7, <2>1, <2>2
  <2> QED
    BY <1>1, <2>2, <2>3 DEF ReadableUrl, v
<1>6. ASSUME NEW p
      PROVE  LET v == [u EXCEPT !.params = Append(@, p)] IN ReadableUrl(v) /\ v.params = Append(u.params, p)
  <2> DEFINE v == [u EXCEPT !.params = Append(@, p)]
  <2>1. v = UrlOf(s0, us0, pw0, h0, p0, x0, Append(ps0, p))
    BY <1>7 DEF UrlOf
  <2> HIDE DEF v
  <2>2. /\ v.scheme = u.scheme /\ v.user = u.user /\ v.password = u.password /\ v.host = u.host
        /\ v.port = u.port /\ v.path = u.path /\ v.params = Append(u.params, p)
    BY <1>7, <2>1 DEF UrlOf
  <2>3. v = UrlOf(v.scheme, v.user, v.password, v.host, v.port, v.path, v.params)
    BY <1>7, <2>1, <2>2
  <2> QED
    BY <1>1, <2>2, <2>3 DEF ReadableUrl, v
<1> QED
  BY <1>2, <1>3, <1>4, <1>5, <1>6

\* The marks of a query are characters that have a code.
LEMMA PlainIsNamed ==
  ASSUME NEW text \in Seq(STRING), Plain(text)
  PROVE  text \in Seq(Named)
<1>1. \A ch \in Marks : ch \in DOMAIN Code
  BY Zenon DEF Marks, Code, Encoded
<1>2. \A k \in 1 .. Len(text) : text[k] \in STRING /\ text[k] \notin Marks
  BY <1>1, ElementOfSeq DEF Plain
<1>3. \A k \in 1 .. Len(text) : text[k] \in Named
  BY <1>2 DEF Named, Ordinary, Character, Marks
<1> QED
  BY <1>3, LenProperties

\* What was added before is as plain as all that is added.
LEMMA AddedPlain ==
  ASSUME NEW list \in Seq([name : Seq(Named), value : Seq(STRING)]), NEW p \in [name : Seq(Named), value : Seq(STRING)],
         AllPlain(Append(list, p))
  PROVE  AllPlain(list) /\ Plain(p.value)
<1>1. PICK n \in Nat : n = Len(list)
  BY LenProperties
<1>2. /\ Len(Append(list, p)) = n + 1 /\ Append(list, p)[n + 1] = p
      /\ \A k \in 1 .. n : Append(list, p)[k] = list[k]
  BY <1>1, AppendProperties
<1>3. \A k \in 1 .. n + 1 : Plain(Append(list, p)[k].value)
  BY <1>2 DEF AllPlain
<1>4. \A k \in 1 .. n : k \in 1 .. n + 1
  OBVIOUS
<1>5. n + 1 \in 1 .. n + 1
  OBVIOUS
<1> QED
  BY <1>1, <1>2, <1>3, <1>4, <1>5 DEF AllPlain

\* Each setter leaves a Url that can be composed.
LEMMA EditComposable ==
  ASSUME Composable, EditUrl
  PROVE  Composable'
<1> DEFINE A == Seq([name : Seq(Named), value : Seq(STRING)])
           Kept == ReadableUrl(url') /\ url'.params = url.params /\ "added" \in DOMAIN meant' /\ meant'.added = meant.added
<1>1. ReadableUrl(url) /\ "added" \in DOMAIN meant /\ meant.added \in A /\ (AllPlain(meant.added) => url.params \in Parameters(Named))
  BY DEF Composable
<1>2. Kept => Composable'
  BY <1>1 DEF Composable
<1>3. CASE SetUrlScheme
  <2>1. PICK s \in Schemes : url' = SetScheme(url, s) /\ meant' = [meant EXCEPT !.scheme = s, !.portSet = @ /\ ~Known(s)]
    BY <1>3 DEF SetUrlScheme, Edit
  <2> DEFINE u == [url EXCEPT !.scheme = s]
  <2>2. s \in Seq(Ordinary \ {":"}) \ {<<>>}
    BY PartsAreWritten, WithoutIs
  <2>3. ReadableUrl(u) /\ u.params = url.params
    BY <1>1, <2>2, SetReadable
  <2>4. url' = WithDefaultPort(u)
    BY <2>1 DEF SetScheme
  <2> HIDE DEF u
  <2>5. ReadableUrl(url') /\ url'.params = url.params
    BY <2>3, <2>4, DefaultPortReadable
  <2>6. "added" \in DOMAIN meant' /\ meant'.added = meant.added
    BY <1>1, <2>1
  <2> QED
    BY <1>2, <2>5, <2>6
<1>4. CASE SetAuthority
  <2>1. PICK h \in Hosts : url' = [url EXCEPT !.host = h, !.user = <<>>, !.password = <<>>]
                           /\ meant' = [meant EXCEPT !.host = h, !.user = <<>>, !.password = <<>>]
    BY <1>4 DEF SetAuthority, Edit
  <2>2. h \in Seq(Ordinary \ {":", "/"}) \ {<<>>}
    BY PartsAreWritten, WithoutIs
  <2>3. ReadableUrl(url') /\ url'.params = url.params
    BY <1>1, <2>1, <2>2, SetReadable
  <2>4. "added" \in DOMAIN meant' /\ meant'.added = meant.added
    BY <1>1, <2>1
  <2> QED
    BY <1>2, <2>3, <2>4
<1>5. CASE SetPort
  <2>1. PICK p \in Ports : url' = [url EXCEPT !.port = p] /\ meant' = [meant EXCEPT !.portSet = TRUE]
    BY <1>5 DEF SetPort, Edit
  <2>2. p \in Nat
    BY PartsAreWritten
  <2>3. ReadableUrl(url') /\ url'.params = url.params
    BY <1>1, <2>1, <2>2, SetReadable
  <2>4. "added" \in DOMAIN meant' /\ meant'.added = meant.added
    BY <1>1, <2>1
  <2> QED
    BY <1>2, <2>3, <2>4
<1>6. CASE SetPath
  <2>1. PICK x \in Paths : url' = [url EXCEPT !.path = x] /\ meant' = [meant EXCEPT !.path = x]
    BY <1>6 DEF SetPath, Edit
  <2>2. x \in Seq(Ordinary \ {"?"}) \ {<<>>}
    BY PartsAreWritten, WithoutIs
  <2>3. ReadableUrl(url') /\ url'.params = url.params
    BY <1>1, <2>1, <2>2, SetReadable
  <2>4. "added" \in DOMAIN meant' /\ meant'.added = meant.added
    BY <1>1, <2>1
  <2> QED
    BY <1>2, <2>3, <2>4
<1>7. CASE AddUrlParam
  <2>1. PICK p \in NewParams : url' = [url EXCEPT !.params = Append(@, p)] /\ meant' = [meant EXCEPT !.added = Append(@, p)]
    BY <1>7 DEF AddUrlParam, Edit
  <2>2. p \in [name : Seq(Named), value : Seq(STRING)]
    <3>1. p \in [name : Without({"=", "&", "#", "@"}), value : Seq(STRING)]
      BY PartsAreWritten
    <3>2. Without({"=", "&", "#", "@"}) \subseteq Seq(Named)
      BY WithoutIs
    <3> QED
      BY <3>1, <3>2
  <2>3. ReadableUrl(url') /\ url'.params = Append(url.params, p)
    BY <1>1, <2>1, SetReadable
  <2>4. "added" \in DOMAIN meant' /\ meant'.added = Append(meant.added, p)
    BY <1>1, <2>1
  <2>5. Append(meant.added, p) \in A
    BY <1>1, <2>2, AppendProperties
  <2>6. ASSUME AllPlain(Append(meant.added, p)) PROVE Append(url.params, p) \in Parameters(Named)
    <3>1. AllPlain(meant.added) /\ Plain(p.value)
      BY <1>1, <2>2, <2>6, AddedPlain
    <3>2. url.params \in Parameters(Named)
      BY <1>1, <3>1
    <3>3. p.value \in Seq(Named)
      BY <2>2, <3>1, PlainIsNamed
    <3>4. p \in [name : Seq(Named), value : Seq(Named)]
      BY <2>2, <3>3
    <3> QED
      BY <3>2, <3>4, AppendProperties DEF Parameters
  <2> HIDE DEF A
  <2> QED
    BY <2>3, <2>4, <2>5, <2>6 DEF Composable, A
<1> QED
  BY <1>3, <1>4, <1>5, <1>6, <1>7 DEF EditUrl

\* A Url with plain parameters reads itself from the text it composes, whatever was
\* written for it, and whatever the user set in any order: a part that is composed
\* meets, in the text, exactly the marks that end it.
THEOREM UrlReadsItself == Spec => []ComposedUrlReadsBack
<1> DEFINE Inv == ~made => Composable
<1>1. Init => Inv
  BY InitComposable
<1>2. Inv /\ [Next]_vars => Inv'
  <2> SUFFICES ASSUME Inv, [Next]_vars, ~made' PROVE Composable'
    OBVIOUS
  <2>1. CASE EditUrl
    <3>1. \A u, m : Edit(u, m) => ~made
      BY DEF Edit
    <3>2. ~made
      BY <2>1, <3>1, Zenon DEF EditUrl, SetUrlScheme, SetAuthority, SetPort, SetPath, AddUrlParam
    <3> QED
      BY <2>1, <3>2, EditComposable
  <2>2. CASE MakeRequest
    BY <2>2 DEF MakeRequest
  <2>3. CASE Add \/ Send \/ Receive \/ UNCHANGED vars
    <3>1. UNCHANGED <<url, meant, made>>
      BY <2>3 DEF Add, Send, Receive, vars, setup, kind
    <3> QED
      BY <3>1 DEF Composable
  <2> QED
    BY <2>1, <2>2, <2>3 DEF Next, Over
<1>3. Inv => ComposedUrlReadsBack
  <2> SUFFICES ASSUME Inv, ~made, AllPlain(meant.added), NEW includePort \in BOOLEAN
               PROVE  [Url(ComposeUrl(url, includePort)) EXCEPT !.port = url.port] = url
    BY DEF ComposedUrlReadsBack
  <2> QED
    BY UrlReadsBack DEF Composable
<1> QED
  BY <1>1, <1>2, <1>3, PTL DEF Spec

-----------------------------------------------------------------------------
(* Ports and encryption. *)

\* The default ports, in network byte order.
OnTheWire ==
    [http |-> 20480, https |-> 47873, ftp |-> 5120, ssh |-> 5632, smtp |-> 6400, imap |-> 36608, pop |-> 58115]

\* No default port looks like the one of http or https once it is swapped, and only
\* that of https is encrypted.
LEMMA PortsOnTheWire ==
    ASSUME NEW name \in DOMAIN DefaultPorts
    PROVE  /\ SwapBytes(DefaultPorts[name]) = OnTheWire[name]
           /\ OnTheWire[name] \notin {80, 443}
           /\ SwapBytes(OnTheWire[name]) = 443 <=> name = "https"
<1>1. DOMAIN DefaultPorts = {"http", "https", "ftp", "ssh", "smtp", "imap", "pop"}
  BY DEF DefaultPorts
<1>2. CASE name = "http"
  <2>1. DefaultPorts[name] = 80 /\ OnTheWire[name] = 20480
    BY <1>2 DEF DefaultPorts, OnTheWire
  <2>2. (80 % 256) * 256 + 80 \div 256 = 20480 /\ (20480 % 256) * 256 + 20480 \div 256 = 80
    OBVIOUS
  <2> QED
    BY <1>2, <2>1, <2>2 DEF SwapBytes
<1>3. CASE name = "https"
  <2>1. DefaultPorts[name] = 443 /\ OnTheWire[name] = 47873
    BY <1>3 DEF DefaultPorts, OnTheWire
  <2>2. (443 % 256) * 256 + 443 \div 256 = 47873 /\ (47873 % 256) * 256 + 47873 \div 256 = 443
    OBVIOUS
  <2> QED
    BY <1>3, <2>1, <2>2 DEF SwapBytes
<1>4. CASE name = "ftp"
  <2>1. DefaultPorts[name] = 20 /\ OnTheWire[name] = 5120
    BY <1>4 DEF DefaultPorts, OnTheWire
  <2>2. (20 % 256) * 256 + 20 \div 256 = 5120 /\ (5120 % 256) * 256 + 5120 \div 256 = 20
    OBVIOUS
  <2> QED
    BY <1>4, <2>1, <2>2 DEF SwapBytes
<1>5. CASE name = "ssh"
  <2>1. DefaultPorts[name] = 22 /\ OnTheWire[name] = 5632
    BY <1>5 DEF DefaultPorts, OnTheWire
  <2>2. (22 % 256) * 256 + 22 \div 256 = 5632 /\ (5632 % 256) * 256 + 5632 \div 256 = 22
    OBVIOUS
  <2> QED
    BY <1>5, <2>1, <2>2 DEF SwapBytes
<1>6. CASE name = "smtp"
  <2>1. DefaultPorts[name] = 25 /\ OnTheWire[name] = 6400
    BY <1>6 DEF DefaultPorts, OnTheWire
  <2>2. (25 % 256) * 256 + 25 \div 256 = 6400 /\ (6400 % 256) * 256 + 6400 \div 256 = 25
    OBVIOUS
  <2> QED
    BY <1>6, <2>1, <2>2 DEF SwapBytes
<1>7. CASE name = "imap"
  <2>1. DefaultPorts[name] = 143 /\ OnTheWire[name] = 36608
    BY <1>7 DEF DefaultPorts, OnTheWire
  <2>2. (143 % 256) * 256 + 143 \div 256 = 36608 /\ (36608 % 256) * 256 + 36608 \div 256 = 143
    OBVIOUS
  <2> QED
    BY <1>7, <2>1, <2>2 DEF SwapBytes
<1>8. CASE name = "pop"
  <2>1. DefaultPorts[name] = 995 /\ OnTheWire[name] = 58115
    BY <1>8 DEF DefaultPorts, OnTheWire
  <2>2. (995 % 256) * 256 + 995 \div 256 = 58115 /\ (58115 % 256) * 256 + 58115 \div 256 = 995
    OBVIOUS
  <2> QED
    BY <1>8, <2>1, <2>2 DEF SwapBytes
<1> QED
  BY <1>1, <1>2, <1>3, <1>4, <1>5, <1>6, <1>7, <1>8

\* A Url with its scheme and a port that goes with it.
HasPort(u) == {"scheme", "port"} \subseteq DOMAIN u
PortFits(u) ==
    IF Known(u.scheme) THEN u.port = SwapBytes(DefaultPorts[u.scheme[1]]) ELSE u.port \notin {80, 443}

\* What is meant is what the Url has.
Meant ==
    /\ HasPort(url) /\ {"scheme", "portSet"} \subseteq DOMAIN meant
    /\ meant.scheme = url.scheme
    /\ ~meant.portSet => PortFits(url)
Encrypted ==
    made /\ ~meant.portSet => (error <=> ~ForHttp) /\ (ssl <=> ForHttp /\ SwapBytes(url.port) = 443)
IInv == Meant /\ Encrypted

\* A port that goes with its scheme is accepted for http and https only, and is the
\* one for encryption for https only.
LEMMA AcceptedForHttp ==
    ASSUME HasPort(url), PortFits(url)
    PROVE  /\ ForHttp <=> url.scheme \in {<<"http">>, <<"https">>}
           /\ ForHttp => url.port = SwapBytes(DefaultPorts[url.scheme[1]])
           /\ ForHttp /\ SwapBytes(url.port) = 443 <=> url.scheme = <<"https">>
<1>1. CASE Known(url.scheme)
  <2>1. PICK name \in DOMAIN DefaultPorts : url.scheme = <<name>>
    BY <1>1 DEF Known
  <2>2. url.scheme[1] = name /\ (url.scheme = <<"http">> <=> name = "http") /\ (url.scheme = <<"https">> <=> name = "https")
    BY <2>1
  <2>3. url.port = SwapBytes(DefaultPorts[name])
    BY <1>1, <2>2 DEF PortFits
  <2>4. url.port = OnTheWire[name] /\ url.port \notin {80, 443} /\ (SwapBytes(url.port) = 443 <=> name = "https")
    BY <2>3, PortsOnTheWire
  <2> QED
    BY <2>2, <2>3, <2>4 DEF ForHttp
<1>2. CASE ~Known(url.scheme)
  <2>1. "http" \in DOMAIN DefaultPorts /\ "https" \in DOMAIN DefaultPorts
    BY DEF DefaultPorts
  <2>2. url.scheme # <<"http">> /\ url.scheme # <<"https">>
    BY <1>2, <2>1 DEF Known
  <2>3. url.port \notin {80, 443}
    BY <1>2 DEF PortFits
  <2> QED
    BY <2>2, <2>3 DEF ForHttp
<1> QED
  BY <1>1, <1>2

\* The default port of a scheme goes with it, whatever the port was.
LEMMA DefaultPortFits ==
    ASSUME NEW u, HasPort(u), Known(u.scheme) \/ PortFits(u)
    PROVE  HasPort(WithDefaultPort(u)) /\ WithDefaultPort(u).scheme = u.scheme /\ PortFits(WithDefaultPort(u))
<1>1. CASE Known(u.scheme)
  <2> DEFINE port == SwapBytes(DefaultPorts[u.scheme[1]])
             v == [u EXCEPT !.port = port]
  <2>1. WithDefaultPort(u) = v
    BY <1>1 DEF WithDefaultPort
  <2>2. HasPort(v) /\ v.scheme = u.scheme /\ v.port = port
    BY DEF HasPort
  <2> QED
    BY <1>1, <2>1, <2>2 DEF PortFits
<1>2. CASE ~Known(u.scheme)
  BY <1>2 DEF WithDefaultPort
<1> QED
  BY <1>1, <1>2

\* The constructor gives a Url the default port of the scheme it reads.
LEMMA InitIInv ==
    ASSUME Init
    PROVE  IInv
<1>1. PICK w \in Written :
        /\ url = Url(UrlText(w))
        /\ meant = [scheme |-> w.scheme, user |-> w.user, password |-> w.password, host |-> w.host, port |-> w.port,
                    path |-> w.path, query |-> w.query, added |-> <<>>, portSet |-> FALSE]
  BY DEF Init
<1> DEFINE x == IF w.path = <<>> THEN <<"/">> ELSE w.path
           ps == IF w.query = <<>> THEN <<>> ELSE ParseParams(w.query)
<1>2. PICK port \in Nat \ {80, 443} : ReadUrl(UrlText(w)) = UrlOf(w.scheme, w.user, w.password, w.host, port, w.path, ps)
  BY WrittenIsRead
<1> HIDE DEF ps
<1> DEFINE u == UrlOf(w.scheme, w.user, w.password, w.host, port, x, ps)
<1>3. url = WithDefaultPort(u)
  BY <1>1, <1>2, ConstructedUrl
<1>4. HasPort(u) /\ u.scheme = w.scheme /\ u.port = port
  BY DEF HasPort, UrlOf
<1> HIDE DEF u
<1>5. HasPort(url) /\ url.scheme = w.scheme /\ PortFits(url)
  BY <1>2, <1>3, <1>4, DefaultPortFits DEF PortFits
<1>6. {"scheme", "portSet"} \subseteq DOMAIN meant /\ meant.scheme = w.scheme
  BY <1>1
<1> QED
  BY <1>5, <1>6 DEF IInv, Meant, Encrypted, Init

\* Each setter keeps the port with the scheme, or is the one for the port.
LEMMA EditIInv ==
    ASSUME IInv, EditUrl
    PROVE  IInv'
<1>1. ~made' /\ UNCHANGED <<error, ssl>>
  <2>1. \A u, m : Edit(u, m) => ~made' /\ UNCHANGED <<error, ssl>>
    BY DEF Edit, kind
  <2> QED
    BY <2>1 DEF EditUrl, SetUrlScheme, SetAuthority, SetPort, SetPath, AddUrlParam
<1>2. SUFFICES Meant'
  BY <1>1 DEF IInv, Encrypted
<1>3. CASE SetUrlScheme
  <2>1. PICK s \in Schemes : url' = SetScheme(url, s) /\ meant' = [meant EXCEPT !.scheme = s, !.portSet = @ /\ ~Known(s)]
    BY <1>3 DEF SetUrlScheme, Edit
  <2> DEFINE u == [url EXCEPT !.scheme = s]
  <2>2. HasPort(u) /\ u.scheme = s /\ u.port = url.port
    BY DEF IInv, Meant, HasPort
  <2>3. {"scheme", "portSet"} \subseteq DOMAIN meant' /\ meant'.scheme = s /\ meant'.portSet = (meant.portSet /\ ~Known(s))
    BY <2>1 DEF IInv, Meant
  <2>4. url' = WithDefaultPort(u)
    BY <2>1 DEF SetScheme
  <2> HIDE DEF u
  <2>5. HasPort(url') /\ url'.scheme = s
    BY <2>2, <2>4 DEF WithDefaultPort, HasPort
  <2>6. ~meant'.portSet => PortFits(url')
    <3>1. CASE Known(s)
      BY <2>2, <2>4, <3>1, DefaultPortFits
    <3>2. CASE ~Known(s) /\ ~meant.portSet
      <4>1. url.port \notin {80, 443}
        <5>1. CASE Known(url.scheme)
          <6>1. PICK name \in DOMAIN DefaultPorts : url.scheme = <<name>>
            BY <5>1 DEF Known
          <6>2. url.port = SwapBytes(DefaultPorts[name])
            BY <3>2, <5>1, <6>1 DEF IInv, Meant, PortFits
          <6> QED
            BY <6>2, PortsOnTheWire
        <5>2. CASE ~Known(url.scheme)
          BY <3>2, <5>2 DEF IInv, Meant, PortFits
        <5> QED
          BY <5>1, <5>2
      <4>2. PortFits(u)
        BY <2>2, <3>2, <4>1 DEF PortFits
      <4> QED
        BY <2>2, <2>4, <4>2, DefaultPortFits
    <3> QED
      BY <2>3, <3>1, <3>2
  <2> QED
    BY <2>3, <2>5, <2>6 DEF Meant
<1>4. CASE SetPort
  <2>1. PICK p \in Ports : url' = [url EXCEPT !.port = p] /\ meant' = [meant EXCEPT !.portSet = TRUE]
    BY <1>4 DEF SetPort, Edit
  <2> QED
    BY <2>1 DEF IInv, Meant, HasPort
<1>5. CASE SetAuthority \/ SetPath \/ AddUrlParam
  <2>1. /\ HasPort(url') /\ url'.scheme = url.scheme /\ url'.port = url.port
        /\ {"scheme", "portSet"} \subseteq DOMAIN meant' /\ meant'.scheme = meant.scheme /\ meant'.portSet = meant.portSet
    BY <1>5 DEF SetAuthority, SetPath, AddUrlParam, Edit, IInv, Meant, HasPort
  <2> QED
    BY <2>1 DEF IInv, Meant, PortFits
<1> QED
  BY <1>3, <1>4, <1>5 DEF EditUrl

\* Once the request is made its Url stays, and so does what its constructor found.
LEMMA NextIInv ==
    ASSUME IInv, [Next]_vars
    PROVE  IInv'
<1>1. CASE EditUrl
  BY <1>1, EditIInv
<1>2. CASE MakeRequest
  <2>1. /\ url' = [url EXCEPT !.host = Bare(@)] /\ meant' = meant
        /\ error' = ~ForHttp /\ ssl' = (ForHttp /\ SwapBytes(url.port) = 443)
    BY <1>2 DEF MakeRequest
  <2>2. HasPort(url') /\ url'.scheme = url.scheme /\ url'.port = url.port
    BY <2>1 DEF IInv, Meant, HasPort
  <2>3. Meant'
    BY <2>1, <2>2 DEF IInv, Meant, PortFits
  <2>4. ForHttp' <=> ForHttp
    BY <2>2 DEF ForHttp
  <2>5. Encrypted'
    BY <2>1, <2>2, <2>4 DEF Encrypted
  <2> QED
    BY <2>3, <2>5 DEF IInv
<1>3. CASE Add \/ Send \/ Receive \/ UNCHANGED vars
  <2>1. UNCHANGED <<url, meant, made, error, ssl>>
    BY <1>3 DEF Add, Send, Receive, vars, setup, kind
  <2> QED
    BY <2>1 DEF IInv, Meant, Encrypted, HasPort, PortFits, ForHttp
<1> QED
  BY <1>1, <1>2, <1>3 DEF Next, Over

\* Unless the user set a port after the scheme, exactly the requests for http and
\* https are accepted, go to the port of their scheme, and are encrypted for https.
THEOREM EncryptionFollowsScheme == Spec => []EncryptedExactlyForHttps
<1>1. Init => IInv
  BY InitIInv
<1>2. IInv /\ [Next]_vars => IInv'
  BY NextIInv
<1>3. IInv => EncryptedExactlyForHttps
  BY AcceptedForHttp DEF IInv, Meant, Encrypted, EncryptedExactlyForHttps
<1> QED
  BY <1>1, <1>2, <1>3, PTL DEF Spec

-----------------------------------------------------------------------------
(* Requests. *)
Space == " "
CR == "\r"
LF == "\n"

\* The codes, one by one.
LEMMA CodeTable ==
  /\ DOMAIN Code = Encoded
  /\ Code[" "] = "%20" /\ Code["!"] = "%21" /\ Code["@"] = "%40" /\ Code["#"] = "%23"
  /\ Code["$"] = "%24" /\ Code["%"] = "%25" /\ Code["&"] = "%26" /\ Code["*"] = "%2A"
  /\ Code["("] = "%28" /\ Code[")"] = "%29" /\ Code["+"] = "%2B" /\ Code["="] = "%3D"
  /\ Code["["] = "%5B" /\ Code["]"] = "%5D" /\ Code[":"] = "%3A" /\ Code[";"] = "%3B"
  /\ Code["'"] = "%27" /\ Code[","] = "%2C" /\ Code["/"] = "%2F" /\ Code["?"] = "%3F"
<1> DEFINE F(ch) ==
    CASE ch = " " -> "%20" [] ch = "!" -> "%21" [] ch = "@" -> "%40" [] ch = "#" -> "%23"
      [] ch = "$" -> "%24" [] ch = "%" -> "%25" [] ch = "&" -> "%26" [] ch = "*" -> "%2A"
      [] ch = "(" -> "%28" [] ch = ")" -> "%29" [] ch = "+" -> "%2B" [] ch = "=" -> "%3D"
      [] ch = "[" -> "%5B" [] ch = "]" -> "%5D" [] ch = ":" -> "%3A" [] ch = ";" -> "%3B"
      [] ch = "'" -> "%27" [] ch = "," -> "%2C" [] ch = "/" -> "%2F" [] ch = "?" -> "%3F"
<1>1. DOMAIN Code = Encoded /\ \A ch \in Encoded : Code[ch] = F(ch)
  BY Zenon DEF Code
<1>2. F(" ") = "%20" /\ " " \in Encoded
  BY Zenon DEF Encoded
<1>3. F("!") = "%21" /\ "!" \in Encoded
  BY Zenon DEF Encoded
<1>4. F("@") = "%40" /\ "@" \in Encoded
  BY Zenon DEF Encoded
<1>5. F("#") = "%23" /\ "#" \in Encoded
  BY Zenon DEF Encoded
<1>6. F("$") = "%24" /\ "$" \in Encoded
  BY Zenon DEF Encoded
<1>7. F("%") = "%25" /\ "%" \in Encoded
  BY Zenon DEF Encoded
<1>8. F("&") = "%26" /\ "&" \in Encoded
  BY Zenon DEF Encoded
<1>9. F("*") = "%2A" /\ "*" \in Encoded
  BY Zenon DEF Encoded
<1>10. F("(") = "%28" /\ "(" \in Encoded
  BY Zenon DEF Encoded
<1>11. F(")") = "%29" /\ ")" \in Encoded
  BY Zenon DEF Encoded
<1>12. F("+") = "%2B" /\ "+" \in Encoded
  BY Zenon DEF Encoded
<1>13. F("=") = "%3D" /\ "=" \in Encoded
  BY Zenon DEF Encoded
<1>14. F("[") = "%5B" /\ "[" \in Encoded
  BY Zenon DEF Encoded
<1>15. F("]") = "%5D" /\ "]" \in Encoded
  BY Zenon DEF Encoded
<1>16. F(":") = "%3A" /\ ":" \in Encoded
  BY Zenon DEF Encoded
<1>17. F(";") = "%3B" /\ ";" \in Encoded
  BY Zenon DEF Encoded
<1>18. F("'") = "%27" /\ "'" \in Encoded
  BY Zenon DEF Encoded
<1>19. F(",") = "%2C" /\ "," \in Encoded
  BY Zenon DEF Encoded
<1>20. F("/") = "%2F" /\ "/" \in Encoded
  BY Zenon DEF Encoded
<1>21. F("?") = "%3F" /\ "?" \in Encoded
  BY Zenon DEF Encoded
<1> HIDE DEF F
<1> QED
  BY <1>1, <1>2, <1>3, <1>4, <1>5, <1>6, <1>7, <1>8, <1>9, <1>10, <1>11, <1>12, <1>13, <1>14, <1>15, <1>16, <1>17, <1>18, <1>19, <1>20, <1>21, Zenon

\* No code is a character that has one, or a line feed; and each says of which it is.
LEMMA CodesAre ==
  /\ \A c \in DOMAIN Code : Code[c] \in Codes /\ Code[c] \notin DOMAIN Code \union {LF}
  /\ \A c, d \in DOMAIN Code : Code[c] = Code[d] => c = d
<1> DEFINE E == {"%20", "%21", "%40", "%23", "%24", "%25", "%26", "%2A", "%28", "%29", "%2B", "%3D", "%5B", "%5D", "%3A", "%3B", "%27", "%2C", "%2F", "%3F"}
<1> DEFINE Back(e) ==
        CASE e = "%20" -> " " [] e = "%21" -> "!" [] e = "%40" -> "@" [] e = "%23" -> "#"
          [] e = "%24" -> "$" [] e = "%25" -> "%" [] e = "%26" -> "&" [] e = "%2A" -> "*"
          [] e = "%28" -> "(" [] e = "%29" -> ")" [] e = "%2B" -> "+" [] e = "%3D" -> "="
          [] e = "%5B" -> "[" [] e = "%5D" -> "]" [] e = "%3A" -> ":" [] e = "%3B" -> ";"
          [] e = "%27" -> "'" [] e = "%2C" -> "," [] e = "%2F" -> "/" [] e = "%3F" -> "?"
<1>1. \A c \in Encoded : Code[c] \in E /\ Back(Code[c]) = c
  <2> SUFFICES ASSUME NEW c \in Encoded PROVE Code[c] \in E /\ Back(Code[c]) = c
    OBVIOUS
  <2>1. CASE c = " "
    <3>1. "%20" \in E /\ Back("%20") = " "
      BY Zenon
    <3> QED
      BY <2>1, <3>1, CodeTable, Zenon
  <2>2. CASE c = "!"
    <3>1. "%21" \in E /\ Back("%21") = "!"
      BY Zenon
    <3> QED
      BY <2>2, <3>1, CodeTable, Zenon
  <2>3. CASE c = "@"
    <3>1. "%40" \in E /\ Back("%40") = "@"
      BY Zenon
    <3> QED
      BY <2>3, <3>1, CodeTable, Zenon
  <2>4. CASE c = "#"
    <3>1. "%23" \in E /\ Back("%23") = "#"
      BY Zenon
    <3> QED
      BY <2>4, <3>1, CodeTable, Zenon
  <2>5. CASE c = "$"
    <3>1. "%24" \in E /\ Back("%24") = "$"
      BY Zenon
    <3> QED
      BY <2>5, <3>1, CodeTable, Zenon
  <2>6. CASE c = "%"
    <3>1. "%25" \in E /\ Back("%25") = "%"
      BY Zenon
    <3> QED
      BY <2>6, <3>1, CodeTable, Zenon
  <2>7. CASE c = "&"
    <3>1. "%26" \in E /\ Back("%26") = "&"
      BY Zenon
    <3> QED
      BY <2>7, <3>1, CodeTable, Zenon
  <2>8. CASE c = "*"
    <3>1. "%2A" \in E /\ Back("%2A") = "*"
      BY Zenon
    <3> QED
      BY <2>8, <3>1, CodeTable, Zenon
  <2>9. CASE c = "("
    <3>1. "%28" \in E /\ Back("%28") = "("
      BY Zenon
    <3> QED
      BY <2>9, <3>1, CodeTable, Zenon
  <2>10. CASE c = ")"
    <3>1. "%29" \in E /\ Back("%29") = ")"
      BY Zenon
    <3> QED
      BY <2>10, <3>1, CodeTable, Zenon
  <2>11. CASE c = "+"
    <3>1. "%2B" \in E /\ Back("%2B") = "+"
      BY Zenon
    <3> QED
      BY <2>11, <3>1, CodeTable, Zenon
  <2>12. CASE c = "="
    <3>1. "%3D" \in E /\ Back("%3D") = "="
      BY Zenon
    <3> QED
      BY <2>12, <3>1, CodeTable, Zenon
  <2>13. CASE c = "["
    <3>1. "%5B" \in E /\ Back("%5B") = "["
      BY Zenon
    <3> QED
      BY <2>13, <3>1, CodeTable, Zenon
  <2>14. CASE c = "]"
    <3>1. "%5D" \in E /\ Back("%5D") = "]"
      BY Zenon
    <3> QED
      BY <2>14, <3>1, CodeTable, Zenon
  <2>15. CASE c = ":"
    <3>1. "%3A" \in E /\ Back("%3A") = ":"
      BY Zenon
    <3> QED
      BY <2>15, <3>1, CodeTable, Zenon
  <2>16. CASE c = ";"
    <3>1. "%3B" \in E /\ Back("%3B") = ";"
      BY Zenon
    <3> QED
      BY <2>16, <3>1, CodeTable, Zenon
  <2>17. CASE c = "'"
    <3>1. "%27" \in E /\ Back("%27") = "'"
      BY Zenon
    <3> QED
      BY <2>17, <3>1, CodeTable, Zenon
  <2>18. CASE c = ","
    <3>1. "%2C" \in E /\ Back("%2C") = ","
      BY Zenon
    <3> QED
      BY <2>18, <3>1, CodeTable, Zenon
  <2>19. CASE c = "/"
    <3>1. "%2F" \in E /\ Back("%2F") = "/"
      BY Zenon
    <3> QED
      BY <2>19, <3>1, CodeTable, Zenon
  <2>20. CASE c = "?"
    <3>1. "%3F" \in E /\ Back("%3F") = "?"
      BY Zenon
    <3> QED
      BY <2>20, <3>1, CodeTable, Zenon
  <2> HIDE DEF E, Back
  <2> QED
    BY <2>1, <2>2, <2>3, <2>4, <2>5, <2>6, <2>7, <2>8, <2>9, <2>10, <2>11, <2>12, <2>13, <2>14, <2>15, <2>16, <2>17, <2>18, <2>19, <2>20, Zenon DEF Encoded
<1>2. E \cap (DOMAIN Code \union {LF}) = {}
  <2>1. \A e \in E : e \notin Encoded
    BY Zenon DEF Encoded
  <2>2. \A e \in E : e # LF
    BY Zenon DEF LF
  <2> QED
    BY <2>1, <2>2, CodeTable, Zenon
<1> HIDE DEF E, Back
<1>3. \A c \in DOMAIN Code : Code[c] \in Codes /\ Code[c] \notin DOMAIN Code \union {LF}
  BY <1>1, <1>2, CodeTable, Zenon DEF Codes
<1>4. \A c, d \in DOMAIN Code : Code[c] = Code[d] => c = d
  BY <1>1, CodeTable, Zenon
<1> QED
  BY <1>3, <1>4, Zenon

\* What is sent is made of these.
Wire == Character \union {Space, CR, LF, "HTTP/1.1", "GET", "POST", "PUT", "host", "content-length"} \union Codes
Line == Wire \ {LF}
Safe == Line \ DOMAIN Code

\* The marks of a request, of which a character in a line is none unless it is meant.
LEMMA WireIs ==
  /\ {Space, CR, "HTTP/1.1", "GET", "POST", "PUT", "host", "content-length", "?", "&", "=", ":", "/"} \subseteq Line
  /\ LF \in Wire /\ LF \notin Line
  /\ {Space, "?", "&", "="} \cap Safe = {}
  /\ {"GET", "POST", "PUT", "HTTP/1.1"} \cap {Space, "?"} = {}
  /\ Space \notin {"?", "&", "=", "/"} /\ "?" \notin {"&", "=", "/"} /\ "&" # "="
  /\ {Digits[k] : k \in 0 .. 9} \subseteq Line
  /\ \A marks : STRING \ ({LF} \union marks) \subseteq Line \ marks
<1>1. /\ {":", "/", "?", "#", "=", "&", "@"} \subseteq Wire
      /\ {Space, CR, LF, "HTTP/1.1", "GET", "POST", "PUT", "host", "content-length"} \subseteq Wire
      /\ {Digits[k] : k \in 0 .. 9} \subseteq Wire
      /\ \A c \in STRING : c \in Wire
  BY Zenon DEF Wire, Character, Marks
<1>2. LF \notin {Space, CR, "HTTP/1.1", "GET", "POST", "PUT", "host", "content-length", "?", "&", "=", ":", "/"}
  BY Zenon DEF LF, Space, CR
<1>3. {"GET", "POST", "PUT", "HTTP/1.1"} \cap {Space, "?"} = {}
  BY Zenon DEF Space
<1>4. Space \notin {"?", "&", "=", "/"} /\ "?" \notin {"&", "=", "/"} /\ "&" # "="
  BY Zenon DEF Space
<1>5. {Space, "?", "&", "="} \subseteq DOMAIN Code
  BY CodeTable, Zenon DEF Space, Encoded
<1>6. \A k \in 0 .. 9 : Digits[k] # LF
  <2>1. \A e \in DigitCharacters : e # LF
    BY Zenon DEF DigitCharacters, LF
  <2> QED
    BY <2>1, DigitsAre
<1>7. \A marks : STRING \ ({LF} \union marks) \subseteq Line \ marks
  BY <1>1, Zenon DEF Line
<1>8. {Space, "?", "&", "="} \cap Safe = {}
  BY <1>5, Zenon DEF Safe
<1>9. {Space, CR, "HTTP/1.1", "GET", "POST", "PUT", "host", "content-length", "?", "&", "=", ":", "/"} \subseteq Line
  BY <1>1, <1>2, Zenon DEF Line
<1>10. {Digits[k] : k \in 0 .. 9} \subseteq Line
  BY <1>1, <1>6, Zenon DEF Line
<1> QED
  BY <1>1, <1>3, <1>4, <1>7, <1>8, <1>9, <1>10, Zenon DEF Line

\* A value is sent so that the server reads it.
LEMMA EncodedIsDecoded ==
  ASSUME NEW v \in Seq(Line \ Codes)
  PROVE  EncodeUrl(v) \in Seq(Safe) /\ Decode(EncodeUrl(v)) = v
<1> DEFINE e == EncodeUrl(v)
<1>1. PICK n \in Nat : n = Len(v) /\ v = [k \in 1 .. n |-> v[k]]
  BY LenProperties
<1>2. \A k \in 1 .. n : v[k] \in Line /\ v[k] \notin Codes
  BY <1>1, ElementOfSeq
<1>3. e = [k \in 1 .. n |-> IF v[k] \in DOMAIN Code THEN Code[v[k]] ELSE v[k]]
  BY <1>1 DEF EncodeUrl, Map
<1>4. \A k \in 1 .. n : (v[k] \in DOMAIN Code => e[k] = Code[v[k]]) /\ (v[k] \notin DOMAIN Code => e[k] = v[k])
  BY <1>3
<1>5. Codes \subseteq Wire
  BY DEF Wire
<1> HIDE DEF e
<1>6. \A k \in 1 .. n : e[k] \in Safe
  BY <1>2, <1>4, <1>5, CodesAre, Zenon DEF Line, Safe
<1>7. e \in Seq(Safe) /\ Len(e) = n
  <2>1. e = [k \in 1 .. n |-> e[k]]
    BY <1>3
  <2> QED
    BY <1>6, <2>1
<1> DEFINE Back(ch) == IF ch \in Codes THEN CHOOSE c \in DOMAIN Code : Code[c] = ch ELSE ch
<1>8. Decode(e) = [k \in 1 .. n |-> Back(e[k])]
  BY <1>7 DEF Decode, Map
<1>9. ASSUME NEW k \in 1 .. n PROVE Back(e[k]) = v[k]
  <2>1. CASE v[k] \in DOMAIN Code
    <3>1. e[k] = Code[v[k]] /\ e[k] \in Codes
      BY <1>4, <2>1, CodesAre, Zenon
    <3>2. \A c \in DOMAIN Code : Code[c] = e[k] => c = v[k]
      BY <2>1, <3>1, CodesAre, Zenon
    <3> QED
      BY <2>1, <3>1, <3>2
  <2>2. CASE v[k] \notin DOMAIN Code
    BY <1>2, <1>4, <2>2
  <2> QED
    BY <2>1, <2>2
<1> HIDE DEF Back
<1> QED
  BY <1>1, <1>7, <1>8, <1>9 DEF e

\* A plain value is sent as it is.
LEMMA PlainIsItself ==
  ASSUME NEW v \in Seq(Line), Plain(v)
  PROVE  EncodeUrl(v) = v /\ v \in Seq(Safe)
<1>1. PICK n \in Nat : n = Len(v) /\ v = [k \in 1 .. n |-> v[k]]
  BY LenProperties
<1>2. \A k \in 1 .. n : v[k] \in Safe /\ v[k] \notin DOMAIN Code
  BY <1>1, ElementOfSeq DEF Plain, Safe
<1>3. EncodeUrl(v) = [k \in 1 .. n |-> IF v[k] \in DOMAIN Code THEN Code[v[k]] ELSE v[k]]
  BY <1>1 DEF EncodeUrl, Map
<1>4. v \in Seq(Safe)
  <2>1. \A k \in 1 .. Len(v) : v[k] \in Safe
    BY <1>1, <1>2
  <2> HIDE DEF Safe
  <2> QED
    BY <2>1, LenProperties
<1> QED
  BY <1>1, <1>2, <1>3, <1>4

\* One field of a query or a form.
FieldOf(piece) == [name |-> Before(piece, "="), value |-> Decode(Join(Tail(Split(piece, "=")), "="))]

\* The fields of a text are those of its pieces.
LEMMA FieldsAre ==
  ASSUME NEW text, text # <<>>
  PROVE  Fields(text) = [k \in 1 .. Len(Split(text, "&")) |-> FieldOf(Split(text, "&")[k])]
BY DEF Fields, Map, FieldOf

\* A piece with one "=" at most has a name, and what is behind it is the value.
LEMMA FieldOfPiece ==
  ASSUME NEW C, NEW piece \in Seq(C), Len(Split(piece, "=")) <= 2
  PROVE  FieldOf(piece) = [name |-> Before(piece, "="), value |-> Decode(FlattenSeq(Tail(Split(piece, "="))))]
<1> DEFINE T == Seq(C \ {"="})
           halves == Split(piece, "=")
<1>1. halves \in Seq(T) /\ halves # <<>>
  BY SplitType DEF Pieces
<1> HIDE DEF T, halves
<1>2. Tail(halves) \in Seq(T) /\ Len(Tail(halves)) <= 1
  <2>1. Tail(halves) \in Seq(T) /\ Len(Tail(halves)) = Len(halves) - 1
    BY <1>1, HeadTailProperties
  <2>2. Len(halves) <= 2 /\ Len(halves) \in Nat
    BY <1>1, LenProperties DEF halves
  <2> QED
    BY <2>1, <2>2
<1>3. Join(Tail(halves), "=") = FlattenSeq(Tail(halves))
  BY <1>2, JoinShort
<1> QED
  BY <1>3 DEF FieldOf, halves

FieldsOf(D) ==
    \A n \in Seq(D) :
        /\ FieldOf(n) = [name |-> n, value |-> <<>>]
        /\ \A v \in Seq(D) : FieldOf(n \o <<"=">> \o v) = [name |-> n, value |-> Decode(v)]

\* A name and a value are the field that is sent; a name alone has no value.
LEMMA FieldOfPair ==
  ASSUME NEW D, "=" \notin D
  PROVE  FieldsOf(D)
<1> SUFFICES ASSUME NEW n \in Seq(D)
             PROVE  /\ FieldOf(n) = [name |-> n, value |-> <<>>]
                    /\ \A v \in Seq(D) : FieldOf(n \o <<"=">> \o v) = [name |-> n, value |-> Decode(v)]
  BY DEF FieldsOf
<1>1. \A a, b : /\ Head(<<a, b>>) = a /\ Tail(<<a, b>>) = <<b>> /\ Len(<<a, b>>) = 2
                /\ Head(<<a>>) = a /\ Tail(<<a>>) = <<>> /\ Len(<<a>>) = 1
  OBVIOUS
<1>2. FieldOf(n) = [name |-> n, value |-> <<>>]
  <2>1. Split(n, "=") = <<n>>
    BY SplitWhole
  <2>2. FieldOf(n) = [name |-> n, value |-> Decode(FlattenSeq(<<>>))]
    <3>1. Len(Split(n, "=")) <= 2
      BY <1>1, <2>1
    <3> QED
      BY <1>1, <2>1, <3>1, FieldOfPiece DEF Before
  <2>3. FlattenSeq(<<>>) = <<>>
    BY DEF FlattenSeq
  <2>4. Decode(<<>>) = <<>>
    BY DEF Decode, Map
  <2> QED
    BY <2>2, <2>3, <2>4
<1>3. ASSUME NEW v \in Seq(D) PROVE FieldOf(n \o <<"=">> \o v) = [name |-> n, value |-> Decode(v)]
  <2> DEFINE piece == n \o <<"=">> \o v
  <2>1. piece \in Seq(D \union {"="}) /\ Split(piece, "=") = <<n, v>>
    <3>1. PairsSplit(D, "=")
      BY PairSplits
    <3> QED
      BY <3>1 DEF PairsSplit
  <2> HIDE DEF piece
  <2>2. Len(Split(piece, "=")) <= 2 /\ Before(piece, "=") = n /\ Tail(Split(piece, "=")) = <<v>>
    <3>1. \A h : h = <<n, v>> => Len(h) <= 2 /\ Head(h) = n /\ Tail(h) = <<v>>
      OBVIOUS
    <3> QED
      BY <2>1, <3>1, Zenon DEF Before
  <2>3. FlattenSeq(<<v>>) = v
    BY FlattenOne
  <2> QED
    BY <2>1, <2>2, <2>3, FieldOfPiece DEF piece
<1> QED
  BY <1>2, <1>3

\* The characters of a query, and those of a name or value in it.
Word == Line \ {Space, "?"}
Term == Word \ {"=", "&"}
Given == [name : Seq(Term) \ {<<>>}, value : Seq(Line \ Codes)]

Entry(p) == [name |-> p.name, value |-> p.value]
Sent(p) == [name |-> p.name, value |-> Decode(p.value)]
Piece(p) == IF p.value = <<>> THEN p.name ELSE p.name \o <<"=">> \o EncodeUrl(p.value)
Pair(p) == p.name \o <<"=">> \o p.value
SentPieces(list) == [k \in 1 .. Len(list) |-> Piece(list[k])]
Pairs(list) == [k \in 1 .. Len(list) |-> Pair(list[k])]

\* The text is a query of the pieces.
Writes(text, pieces) == text \in Seq(Word) /\ text # <<>> /\ pieces \in Seq(Seq(Word \ {"&"})) /\ Split(text, "&") = pieces

\* The characters of a query are in a line; what is safe is in a name or value.
LEMMA WordIs ==
  /\ Word \subseteq Line /\ Term \subseteq Word /\ Safe \subseteq Term /\ Line \subseteq Wire
  /\ "=" \in Word /\ "&" \in Word /\ "=" \notin Term /\ "&" \notin Term /\ "?" \notin Word /\ Space \notin Word
  /\ Term \union {"="} = Word \ {"&"} /\ (Word \ {"&"}) \union {"&"} = Word
<1>1. Safe \subseteq Term
  BY WireIs DEF Word, Term, Safe
<1>2. "=" \in Word /\ "&" \in Word
  BY WireIs DEF Word
<1>3. "&" # "="
  BY WireIs
<1> QED
  BY <1>1, <1>2, <1>3 DEF Word, Term, Line

\* What is joined is a query.
LEMMA JoinWrites ==
  ASSUME NEW pieces \in Seq(Seq(Word \ {"&"})), pieces # <<>>, pieces[1] # <<>>
  PROVE  Writes(Join(pieces, "&"), pieces)
<1>1. "&" \notin Word \ {"&"} /\ (Word \ {"&"}) \union {"&"} = Word
  BY WordIs
<1>2. Join(pieces, "&") \in Seq(Word) /\ Split(Join(pieces, "&"), "&") = pieces
  BY <1>1, SplitJoin
<1>3. Join(pieces, "&") # <<>>
  <2>1. Split(<<>>, "&") = << <<>> >>
    <3>1. <<>> \in Seq(Word \ {"&"})
      BY EmptySeq
    <3> QED
      BY <1>1, <3>1, SplitWhole
  <2>2. << <<>> >>[1] = <<>>
    OBVIOUS
  <2> QED
    BY <1>2, <2>1, <2>2, Zenon
<1> QED
  BY <1>2, <1>3 DEF Writes

\* Two queries with an "&" between them are one.
LEMMA WritesBoth ==
  ASSUME NEW a, NEW p, Writes(a, p), NEW b, NEW q, Writes(b, q)
  PROVE  Writes(a \o <<"&">> \o b, p \o q)
<1>1. a \in Seq(Word) /\ b \in Seq(Word) /\ p \in Seq(Seq(Word \ {"&"})) /\ q \in Seq(Seq(Word \ {"&"}))
      /\ Split(a, "&") = p /\ Split(b, "&") = q
  BY DEF Writes
<1>2. Split(a \o <<"&">> \o b, "&") = p \o q
  <2>1. SplitsBetween(Word, "&")
    BY WordIs, SplitThen
  <2> QED
    BY <1>1, <2>1 DEF SplitsBetween
<1> DEFINE T == Seq(Word \ {"&"})
<1>3. p \o q \in Seq(T)
  <2> HIDE DEF T
  <2> QED
    BY <1>1, ConcatProperties DEF T
<1> DEFINE front == a \o <<"&">>
<1>4. front \in Seq(Word) /\ Len(front) = Len(a) + 1
  <2>1. front = Append(a, "&")
    BY <1>1, WordIs, AppendIsConcat
  <2>2. "&" \in Word
    BY WordIs
  <2> HIDE DEF front
  <2> QED
    BY <1>1, <2>1, <2>2, AppendProperties
<1> HIDE DEF front
<1>5. front \o b \in Seq(Word) /\ front \o b # <<>>
  <2>1. Len(a) \in Nat /\ Len(b) \in Nat
    BY <1>1, LenProperties
  <2> DEFINE whole == front \o b
  <2>2. whole \in Seq(Word) /\ Len(whole) = Len(a) + 1 + Len(b)
    <3>1. front \in Seq(Word) /\ b \in Seq(Word)
      BY <1>1, <1>4, Zenon
    <3>2. whole \in Seq(Word) /\ Len(whole) = Len(front) + Len(b)
      BY <3>1, ConcatProperties
    <3> QED
      BY <1>4, <3>2, Zenon
  <2> HIDE DEF whole
  <2>3. Len(whole) # 0
    BY <2>1, <2>2
  <2>4. whole # <<>>
    BY <2>3, EmptySeq
  <2> QED
    BY <2>2, <2>4 DEF whole
<1> QED
  BY <1>2, <1>3, <1>5 DEF Writes, front

\* The parameters of a GET request as pieces.
LEMMA GivenPieces ==
  ASSUME NEW list \in Seq(Given)
  PROVE  /\ SentPieces(list) \in Seq(Seq(Word \ {"&"})) /\ Len(SentPieces(list)) = Len(list)
         /\ \A k \in 1 .. Len(list) : SentPieces(list)[k] # <<>> /\ FieldOf(SentPieces(list)[k]) = Entry(list[k])
<1>1. PICK m \in Nat : m = Len(list)
  BY LenProperties
<1>2. FieldsOf(Term)
  BY WordIs, FieldOfPair
<1>3. ASSUME NEW k \in 1 .. m
      PROVE  /\ Piece(list[k]) \in Seq(Word \ {"&"}) /\ Piece(list[k]) # <<>>
             /\ FieldOf(Piece(list[k])) = Entry(list[k])
  <2>1. list[k].name \in Seq(Term) /\ list[k].name # <<>> /\ list[k].value \in Seq(Line \ Codes)
    <3>1. list[k] \in Given
      BY <1>1, ElementOfSeq
    <3> QED
      BY <3>1 DEF Given
  <2> DEFINE n == list[k].name
             v == list[k].value
             e == EncodeUrl(v)
  <2>2. e \in Seq(Term) /\ Decode(e) = v
    <3>1. e \in Seq(Safe) /\ Decode(e) = v
      BY <2>1, EncodedIsDecoded
    <3> HIDE DEF e
    <3>2. Seq(Safe) \subseteq Seq(Term)
      BY WordIs, SeqWider
    <3> QED
      BY <3>1, <3>2
  <2> HIDE DEF e
  <2>3. CASE v = <<>>
    <3>1. Piece(list[k]) = n
      BY <2>3 DEF Piece
    <3>2. n \in Seq(Word \ {"&"})
      <4>1. Seq(Term) \subseteq Seq(Word \ {"&"})
        BY SeqWider DEF Term
      <4> QED
        BY <2>1, <4>1
    <3>3. FieldOf(n) = [name |-> n, value |-> <<>>]
      BY <1>2, <2>1 DEF FieldsOf
    <3> QED
      BY <2>1, <2>3, <3>1, <3>2, <3>3 DEF Entry
  <2>4. CASE v # <<>>
    <3>1. Piece(list[k]) = n \o <<"=">> \o e
      BY <2>4 DEF Piece, e
    <3>2. FieldOf(n \o <<"=">> \o e) = [name |-> n, value |-> v]
      BY <1>2, <2>1, <2>2 DEF FieldsOf
    <3>3. n \o <<"=">> \o e \in Seq(Word \ {"&"}) /\ n \o <<"=">> \o e # <<>>
      <4>1. PairsSplit(Term, "=") /\ Term \union {"="} = Word \ {"&"}
        BY WordIs, PairSplits
      <4>2. n \o <<"=">> \o e \in Seq(Term \union {"="}) /\ n \o <<"=">> \o e # <<>>
        BY <2>1, <2>2, <4>1 DEF PairsSplit
      <4> QED
        BY <4>1, <4>2
    <3> QED
      BY <3>1, <3>2, <3>3 DEF Entry
  <2> QED
    BY <2>3, <2>4
<1>4. SentPieces(list) = [k \in 1 .. m |-> Piece(list[k])]
  BY <1>1 DEF SentPieces
<1>5. SentPieces(list) \in Seq(Seq(Word \ {"&"})) /\ Len(SentPieces(list)) = m
  BY <1>3, <1>4
<1> QED
  BY <1>1, <1>3, <1>4, <1>5

\* Those of a Url.
LEMMA UrlPairs ==
  ASSUME NEW list \in Parameters(Term)
  PROVE  /\ Pairs(list) \in Seq(Seq(Word \ {"&"})) /\ Len(Pairs(list)) = Len(list)
         /\ \A k \in 1 .. Len(list) : Pairs(list)[k] # <<>> /\ FieldOf(Pairs(list)[k]) = Sent(list[k])
<1>1. PICK m \in Nat : m = Len(list)
  BY LenProperties DEF Parameters
<1>2. FieldsOf(Term) /\ PairsSplit(Term, "=") /\ Term \union {"="} = Word \ {"&"}
  BY WordIs, FieldOfPair, PairSplits
<1>3. ASSUME NEW k \in 1 .. m
      PROVE  /\ Pair(list[k]) \in Seq(Word \ {"&"}) /\ Pair(list[k]) # <<>>
             /\ FieldOf(Pair(list[k])) = Sent(list[k])
  <2>1. list[k].name \in Seq(Term) /\ list[k].value \in Seq(Term)
    <3>1. list[k] \in [name : Seq(Term), value : Seq(Term)]
      BY <1>1, ElementOfSeq DEF Parameters
    <3> QED
      BY <3>1
  <2> DEFINE n == list[k].name
             v == list[k].value
  <2>2. FieldOf(n \o <<"=">> \o v) = [name |-> n, value |-> Decode(v)]
    BY <1>2, <2>1 DEF FieldsOf
  <2>3. n \o <<"=">> \o v \in Seq(Term \union {"="}) /\ n \o <<"=">> \o v # <<>>
    BY <1>2, <2>1 DEF PairsSplit
  <2> QED
    BY <1>2, <2>2, <2>3 DEF Pair, Sent
<1>4. Pairs(list) = [k \in 1 .. m |-> Pair(list[k])]
  BY <1>1 DEF Pairs
<1>5. Pairs(list) \in Seq(Seq(Word \ {"&"})) /\ Len(Pairs(list)) = m
  BY <1>3, <1>4
<1> QED
  BY <1>1, <1>3, <1>4, <1>5

\* The fields are the parameters of the request and then those of the Url.
QueryFields(q, list, ps) ==
    /\ IsList(Fields(q), Len(list) + Len(ps))
    /\ \A k \in 1 .. Len(list) : Fields(q)[k] = Entry(list[k])
    /\ \A k \in 1 .. Len(ps) : Fields(q)[Len(list) + k] = Sent(ps[k])

\* The server reads a field of each piece.
LEMMA WritesFields ==
  ASSUME NEW q, NEW pieces, Writes(q, pieces)
  PROVE  IsList(Fields(q), Len(pieces)) /\ \A k \in 1 .. Len(pieces) : Fields(q)[k] = FieldOf(pieces[k])
<1>1. Fields(q) = [k \in 1 .. Len(pieces) |-> FieldOf(pieces[k])]
  BY FieldsAre DEF Writes
<1>2. Len(pieces) \in Nat
  BY LenProperties DEF Writes
<1> QED
  BY <1>1, <1>2 DEF IsList

\* The text of some parameters, and the fields of it.
LEMMA GivenWrites ==
  ASSUME NEW list \in Seq(Given), list # <<>>
  PROVE  Writes(Join(SentPieces(list), "&"), SentPieces(list))
<1>1. PICK m \in Nat : m = Len(list) /\ m # 0
  BY LenProperties, EmptySeq
<1>2. /\ SentPieces(list) \in Seq(Seq(Word \ {"&"})) /\ Len(SentPieces(list)) = m
      /\ \A k \in 1 .. m : SentPieces(list)[k] # <<>>
  BY <1>1, GivenPieces
<1>3. SentPieces(list) # <<>>
  <2> DEFINE p == SentPieces(list)
  <2> HIDE DEF p
  <2>1. Len(p) # 0
    BY <1>1, <1>2 DEF p
  <2>2. p # <<>>
    BY <2>1
  <2> QED
    BY <2>2 DEF p
<1>4. SentPieces(list)[1] # <<>>
  BY <1>1, <1>2
<1> QED
  BY <1>2, <1>3, <1>4, JoinWrites

\* So for the parameters of a Url.
LEMMA PairsWrite ==
  ASSUME NEW list \in Parameters(Term), list # <<>>
  PROVE  Writes(Join(Pairs(list), "&"), Pairs(list))
<1>1. PICK m \in Nat : m = Len(list) /\ m # 0
  BY LenProperties, EmptySeq DEF Parameters
<1>2. /\ Pairs(list) \in Seq(Seq(Word \ {"&"})) /\ Len(Pairs(list)) = m
      /\ \A k \in 1 .. m : Pairs(list)[k] # <<>>
  BY <1>1, UrlPairs
<1>3. Pairs(list) # <<>>
  <2> DEFINE p == Pairs(list)
  <2> HIDE DEF p
  <2>1. Len(p) # 0
    BY <1>1, <1>2 DEF p
  <2>2. p # <<>>
    BY <2>1
  <2> QED
    BY <2>2 DEF p
<1>4. Pairs(list)[1] # <<>>
  BY <1>1, <1>2
<1> QED
  BY <1>2, <1>3, <1>4, JoinWrites

\* The target of a GET request behind its path.
LEMMA GetQueryIs ==
  ASSUME params \in Seq(Given), url.params \in Parameters(Term)
  PROVE  \E q \in Seq(Word) : GetQuery = (IF q = <<>> THEN <<>> ELSE <<"?">> \o q) /\ QueryFields(q, params, url.params)
<1> DEFINE ps == url.params
           a == GetParams
           b == QueryText(url)
           pa == SentPieces(params)
           pb == Pairs(ps)
<1>1. a = Join(pa, "&") /\ b = Join(pb, "&")
  BY DEF GetParams, QueryText, Map, SentPieces, Piece, Pairs, Pair
<1>2. GetQuery = (IF params = <<>> THEN <<>> ELSE <<"?">> \o a)
                 \o (IF ps = <<>> THEN <<>> ELSE (IF params = <<>> THEN <<"?">> ELSE <<"&">>) \o b)
  BY DEF GetQuery
<1>3. PICK m \in Nat, n \in Nat : m = Len(params) /\ n = Len(ps) /\ (m = 0 <=> params = <<>>) /\ (n = 0 <=> ps = <<>>)
  BY LenProperties, EmptySeq DEF Parameters
<1>4. /\ pa \in Seq(Seq(Word \ {"&"})) /\ Len(pa) = m /\ \A k \in 1 .. m : FieldOf(pa[k]) = Entry(params[k])
      /\ (params # <<>> => Writes(a, pa))
  BY <1>1, <1>3, GivenPieces, GivenWrites
<1>5. /\ pb \in Seq(Seq(Word \ {"&"})) /\ Len(pb) = n /\ \A k \in 1 .. n : FieldOf(pb[k]) = Sent(ps[k])
      /\ (ps # <<>> => Writes(b, pb))
  BY <1>1, <1>3, UrlPairs, PairsWrite
<1>6. <<"?">> \in Seq(Wire) /\ <<"&">> \in Seq(Wire) /\ Seq(Word) \subseteq Seq(Wire)
  <2>1. "?" \in Wire /\ "&" \in Wire
    BY WireIs DEF Line
  <2>2. Word \subseteq Wire
    BY WordIs
  <2>3. \A S : \A e \in S : <<e>> \in Seq(S)
    OBVIOUS
  <2> QED
    BY <2>1, <2>2, <2>3, SeqWider, Zenon
<1> HIDE DEF a, b, pa, pb, ps
<1>7. CASE params = <<>> /\ ps = <<>>
  <2>1. GetQuery = <<>> \o <<>> /\ <<>> \o <<>> = <<>>
    <3>1. \A C : <<>> \in Seq(C)
      OBVIOUS
    <3> QED
      BY <1>2, <1>7, <3>1, ConcatEmptySeq
  <2>2. QueryFields(<<>>, params, ps)
    <3>1. Fields(<<>>) = <<>> /\ m = 0 /\ n = 0
      BY <1>3, <1>7 DEF Fields
    <3>2. IsList(<<>>, 0) /\ 0 + 0 = 0
      BY DEF IsList
    <3>3. 1 .. 0 = {}
      OBVIOUS
    <3> QED
      BY <1>3, <3>1, <3>2, <3>3 DEF QueryFields
  <2> QED
    BY <2>1, <2>2, EmptySeq DEF ps
<1>8. CASE params # <<>> /\ ps = <<>>
  <2>1. GetQuery = <<"?">> \o a
    <3>1. GetQuery = (<<"?">> \o a) \o <<>>
      BY <1>2, <1>8
    <3>2. <<"?">> \o a \in Seq(Wire)
      BY <1>4, <1>6, <1>8, ConcatProperties DEF Writes
    <3> QED
      BY <3>1, <3>2, ConcatEmptySeq
  <2>2. a \in Seq(Word) /\ a # <<>>
    BY <1>4, <1>8 DEF Writes
  <2>3. QueryFields(a, params, ps)
    <3>1. IsList(Fields(a), m) /\ \A k \in 1 .. m : Fields(a)[k] = Entry(params[k])
      BY <1>4, <1>8, WritesFields
    <3>2. n = 0 /\ m + 0 = m /\ 1 .. 0 = {}
      BY <1>3, <1>8
    <3> QED
      BY <1>3, <3>1, <3>2 DEF QueryFields
  <2> QED
    BY <2>1, <2>2, <2>3 DEF ps
<1>9. CASE params = <<>> /\ ps # <<>>
  <2>1. GetQuery = <<"?">> \o b
    <3>1. GetQuery = <<>> \o (<<"?">> \o b)
      BY <1>2, <1>9
    <3>2. <<"?">> \o b \in Seq(Wire)
      BY <1>5, <1>6, <1>9, ConcatProperties DEF Writes
    <3> QED
      BY <3>1, <3>2, ConcatEmptySeq
  <2>2. b \in Seq(Word) /\ b # <<>>
    BY <1>5, <1>9 DEF Writes
  <2>3. QueryFields(b, params, ps)
    <3>1. IsList(Fields(b), n) /\ \A k \in 1 .. n : Fields(b)[k] = Sent(ps[k])
      BY <1>5, <1>9, WritesFields
    <3>2. m = 0 /\ 0 + n = n /\ 1 .. 0 = {} /\ \A k \in 1 .. n : 0 + k = k
      BY <1>3, <1>9
    <3> QED
      BY <1>3, <3>1, <3>2 DEF QueryFields
  <2> QED
    BY <2>1, <2>2, <2>3 DEF ps
<1>10. CASE params # <<>> /\ ps # <<>>
  <2> DEFINE q == a \o <<"&">> \o b
  <2>1. a \in Seq(Wire) /\ b \in Seq(Wire) /\ a \o <<"&">> \in Seq(Wire)
    <3>1. a \in Seq(Wire) /\ b \in Seq(Wire)
      BY <1>4, <1>5, <1>6, <1>10 DEF Writes
    <3> QED
      BY <1>6, <3>1, ConcatProperties
  <2>2. GetQuery = (<<"?">> \o a) \o (<<"&">> \o b)
    BY <1>2, <1>10
  <2>3. (<<"?">> \o a) \o (<<"&">> \o b) = <<"?">> \o q
    <3>1. Associates(Wire)
      BY ConcatAssociates
    <3>2. <<"&">> \o b \in Seq(Wire)
      BY <1>6, <2>1, ConcatProperties
    <3>3. (<<"?">> \o a) \o (<<"&">> \o b) = <<"?">> \o (a \o (<<"&">> \o b))
      BY <1>6, <2>1, <3>1, <3>2 DEF Associates
    <3>4. a \o (<<"&">> \o b) = (a \o <<"&">>) \o b
      BY <1>6, <2>1, <3>1 DEF Associates
    <3> QED
      BY <3>3, <3>4
  <2>4. Writes(q, pa \o pb)
    BY <1>4, <1>5, <1>10, WritesBoth
  <2>5. IsList(pa, m) /\ IsList(pb, n)
    BY <1>4, <1>5, ListIs
  <2>6. /\ Len(pa \o pb) = m + n
        /\ \A k \in 1 .. m : (pa \o pb)[k] = pa[k]
        /\ \A k \in 1 .. n : (pa \o pb)[m + k] = pb[k]
    <3>1. Behind(pa \o pb, pa, m, pb, n)
      BY <2>5, ConcatBehind, Zenon
    <3> QED
      BY <3>1, Zenon DEF Behind
  <2> HIDE DEF q
  <2>7. IsList(Fields(q), m + n) /\ \A k \in 1 .. m + n : Fields(q)[k] = FieldOf((pa \o pb)[k])
    <3> DEFINE p == pa \o pb
    <3>1. Writes(q, p) /\ Len(p) = m + n
      BY <2>4, <2>6, Zenon
    <3> HIDE DEF p
    <3>2. IsList(Fields(q), Len(p)) /\ \A k \in 1 .. Len(p) : Fields(q)[k] = FieldOf(p[k])
      BY <3>1, WritesFields
    <3> QED
      BY <3>1, <3>2, Zenon DEF p
  <2>8. (\A k \in 1 .. m : k \in 1 .. m + n) /\ \A k \in 1 .. n : m + k \in 1 .. m + n
    BY <1>3
  <2>9. QueryFields(q, params, ps)
    <3>1. ASSUME NEW k \in 1 .. m PROVE Fields(q)[k] = Entry(params[k])
      BY <1>4, <2>6, <2>7, <2>8
    <3>2. ASSUME NEW k \in 1 .. n PROVE Fields(q)[m + k] = Sent(ps[k])
      BY <1>5, <2>6, <2>7, <2>8
    <3> QED
      BY <1>3, <2>7, <3>1, <3>2 DEF QueryFields
  <2>10. q \in Seq(Word) /\ q # <<>>
    BY <2>4 DEF Writes
  <2> QED
    BY <2>2, <2>3, <2>9, <2>10 DEF ps
<1> QED
  BY <1>7, <1>8, <1>9, <1>10

\* Whatever was added to the Url, the target goes on in the line, with a "?" if at all.
LEMMA GetQueryType ==
  ASSUME params \in Seq(Given), url.params \in Seq([name : Seq(Term), value : Seq(Line)])
  PROVE  GetQuery \in Seq(Line) /\ (GetQuery = <<>> \/ (Len(GetQuery) > 0 /\ GetQuery[1] = "?"))
<1> DEFINE ps == url.params
           a == GetParams
           b == QueryText(url)
<1>1. PICK n \in Nat : n = Len(ps)
  BY LenProperties
<1>2. \A S : \A e \in S : <<e>> \in Seq(S)
  OBVIOUS
<1>3. {"?", "&", "="} \subseteq Line
  BY WireIs, Zenon
<1>4. <<"?">> \in Seq(Line) /\ <<"&">> \in Seq(Line) /\ <<"=">> \in Seq(Line)
  BY <1>2, <1>3, Zenon
<1>5. Seq(Word) \subseteq Seq(Line) /\ Seq(Term) \subseteq Seq(Line)
  BY WordIs, SeqWider
<1>6. b \in Seq(Line)
  <2>1. ASSUME NEW k \in 1 .. n PROVE Pair(ps[k]) \in Seq(Line)
    <3>1. ps[k] \in [name : Seq(Term), value : Seq(Line)]
      BY <1>1, ElementOfSeq
    <3>2. ps[k].name \in Seq(Line) /\ ps[k].value \in Seq(Line)
      BY <1>5, <3>1
    <3>3. ps[k].name \o <<"=">> \in Seq(Line)
      BY <1>4, <3>2, ConcatProperties
    <3> QED
      BY <3>2, <3>3, ConcatProperties DEF Pair
  <2>2. Pairs(ps) = [k \in 1 .. n |-> Pair(ps[k])]
    BY <1>1 DEF Pairs
  <2>3. Pairs(ps) \in Seq(Seq(Line))
    BY <2>1, <2>2
  <2>4. b = Join(Pairs(ps), "&")
    BY DEF QueryText, Map, Pairs, Pair
  <2> QED
    BY <1>3, <2>3, <2>4, JoinType
<1>7. params # <<>> => a \in Seq(Line)
  <2> SUFFICES ASSUME params # <<>> PROVE a \in Seq(Line)
    OBVIOUS
  <2>1. a = Join(SentPieces(params), "&")
    BY DEF GetParams, Map, SentPieces, Piece
  <2>2. a \in Seq(Word)
    BY <2>1, GivenWrites DEF Writes
  <2> QED
    BY <1>5, <2>2
<1>8. GetQuery = (IF params = <<>> THEN <<>> ELSE <<"?">> \o a)
                 \o (IF ps = <<>> THEN <<>> ELSE (IF params = <<>> THEN <<"?">> ELSE <<"&">>) \o b)
  BY DEF GetQuery
<1> HIDE DEF a, b, ps
<1>9. \A t \in Seq(Line) : <<"?">> \o t \in Seq(Line) /\ Len(<<"?">> \o t) > 0 /\ (<<"?">> \o t)[1] = "?"
  <2>1. ASSUME NEW t \in Seq(Line) PROVE <<"?">> \o t \in Seq(Line) /\ Len(<<"?">> \o t) > 0 /\ (<<"?">> \o t)[1] = "?"
    <3>1. IsList(<<"?">>, 1) /\ <<"?">>[1] = "?"
      BY DEF IsList
    <3>2. IsList(t, Len(t)) /\ Len(t) \in Nat
      BY ListIs, LenProperties
    <3>3. Len(<<"?">> \o t) = 1 + Len(t) /\ (<<"?">> \o t)[1] = "?"
      <4>1. 1 \in 1 .. 1
        OBVIOUS
      <4> QED
        BY <3>1, <3>2, <4>1, ConcatBehind DEF Behind
    <3>4. <<"?">> \o t \in Seq(Line)
      BY <1>4, ConcatProperties
    <3>5. 1 + Len(t) > 0
      BY <3>2
    <3> QED
      BY <3>3, <3>4, <3>5
  <2> QED
    BY <2>1
<1>10. CASE params = <<>> /\ ps = <<>>
  <2>1. <<>> \o <<>> = <<>> /\ <<>> \in Seq(Line)
    BY EmptySeq, ConcatEmptySeq
  <2> QED
    BY <1>8, <1>10, <2>1
<1>11. CASE params = <<>> /\ ps # <<>>
  <2>1. <<>> \o (<<"?">> \o b) = <<"?">> \o b
    BY <1>6, <1>9, ConcatEmptySeq
  <2>2. GetQuery = <<"?">> \o b
    BY <1>8, <1>11, <2>1
  <2> QED
    BY <1>6, <1>9, <2>2
<1>12. CASE params # <<>> /\ ps = <<>>
  <2>1. (<<"?">> \o a) \o <<>> = <<"?">> \o a
    BY <1>7, <1>9, <1>12, ConcatEmptySeq
  <2>2. GetQuery = <<"?">> \o a
    BY <1>8, <1>12, <2>1
  <2> QED
    BY <1>7, <1>9, <1>12, <2>2
<1>13. CASE params # <<>> /\ ps # <<>>
  <2>1. <<"&">> \o b \in Seq(Line)
    BY <1>4, <1>6, ConcatProperties
  <2>2. (<<"?">> \o a) \o (<<"&">> \o b) = <<"?">> \o (a \o (<<"&">> \o b))
    <3>1. Associates(Line)
      BY ConcatAssociates
    <3> QED
      BY <1>4, <1>7, <1>13, <2>1, <3>1 DEF Associates
  <2>3. a \o (<<"&">> \o b) \in Seq(Line)
    BY <1>7, <1>13, <2>1, ConcatProperties
  <2>4. GetQuery = <<"?">> \o (a \o (<<"&">> \o b))
    BY <1>8, <1>13, <2>2
  <2> QED
    BY <1>9, <2>3, <2>4
<1> QED
  BY <1>10, <1>11, <1>12, <1>13

\* The first line of a request: the method, the path with what is behind it, the version.
LineText(m, x, g) == <<m, Space>> \o (x \o g) \o <<Space, "HTTP/1.1">>

\* What is behind the path is read with it, up to a space.
LEMMA WordsOfLine ==
  ASSUME NEW m \in Line \ {Space}, NEW x \in Seq(Line \ {Space}), NEW g \in Seq(Line)
  PROVE  /\ LineText(m, x, g) \in Seq(Line)
         /\ g \in Seq(Line \ {Space}) => Words(LineText(m, x, g), Space, <<m>>, x \o g)
         /\ \A y \in Seq(Line \ {Space}), z \in Seq(Line) :
               g = y \o <<Space>> \o z => Words(LineText(m, x, g), Space, <<m>>, x \o y)
<1> DEFINE sp == <<Space>>
           Http == <<"HTTP/1.1">>
           T == Seq(Line \ {Space})
           L == Seq(Line)
           fore == <<m>> \o sp
           line == LineText(m, x, g)
<1>1. \A S : \A e \in S : <<e>> \in Seq(S)
  OBVIOUS
<1>2. \A S, U, s, u : S \subseteq U /\ s \in Seq(S) => s \in Seq(U)
  BY SeqWider, Zenon
<1>3. Space \in Line /\ sp \in L /\ Http \in L /\ <<m>> \in T /\ <<m>> \in L
  <2>1. Space \in Line /\ "HTTP/1.1" \in Line /\ m \in Line
    BY WireIs, Zenon
  <2> QED
    BY <1>1, <2>1, Zenon
<1>4. x \in L /\ \A y \in T : y \in L /\ x \o y \in T
  <2>1. Line \ {Space} \subseteq Line
    OBVIOUS
  <2>2. \A a \in T, b \in T : a \o b \in T
    BY ConcatProperties
  <2> QED
    BY <1>2, <2>1, <2>2, Zenon
<1>5. \A a \in L, b \in L : a \o b \in L
  BY ConcatProperties
<1>6. line = fore \o (x \o g) \o (sp \o Http)
  <2>1. <<m, Space>> = <<m>> \o sp /\ <<Space, "HTTP/1.1">> = sp \o Http
    <3>1. \A a \in Line, b \in Line : <<a, b>> = <<a>> \o <<b>>
      BY PairIs
    <3>2. "HTTP/1.1" \in Line
      BY WireIs, Zenon
    <3> QED
      BY <1>3, <3>1, <3>2, Zenon
  <2> QED
    BY <2>1, Zenon DEF LineText
<1>7. \A y \in T, rest \in L : line = fore \o ((x \o y) \o sp) \o rest => Words(line, Space, <<m>>, x \o y)
  <2> TAKE y \in T, rest \in L
  <2> HAVE line = fore \o ((x \o y) \o sp) \o rest
  <2>1. x \o y \in T
    BY <1>4, Zenon
  <2> HIDE DEF line
  <2>2. Words((<<m>> \o <<Space>>) \o ((x \o y) \o <<Space>>) \o rest, Space, <<m>>, x \o y)
    BY <1>3, <2>1, TwoWords, Zenon
  <2> QED
    BY <2>2, Zenon
<1> HIDE DEF sp, Http, fore, line, T, L
<1>8. fore \in L /\ sp \o Http \in L
  BY <1>3, <1>5, Zenon DEF fore
<1>9. /\ \A w \in L : EndMoves(fore, x, sp, Http, w)
      /\ \A y \in L, z \in L : RestMoves(fore, x, sp, Http, y, z)
  BY <1>3, <1>4, <1>8, LineRegroups, Zenon DEF L
<1>10. line \in L
  <2>1. fore \o (x \o g) \in L
    BY <1>4, <1>5, <1>8, Zenon DEF L
  <2> QED
    BY <1>5, <1>6, <1>8, <2>1, Zenon
<1>11. g \in T => Words(line, Space, <<m>>, x \o g)
  BY <1>3, <1>4, <1>6, <1>7, <1>9, Zenon DEF EndMoves
<1>12. ASSUME NEW y \in T, NEW z \in L, g = y \o sp \o z PROVE Words(line, Space, <<m>>, x \o y)
  <2>1. z \o (sp \o Http) \in L
    BY <1>5, <1>8, Zenon
  <2>2. line = fore \o ((x \o y) \o sp) \o (z \o (sp \o Http))
    BY <1>4, <1>6, <1>9, <1>12, Zenon DEF RestMoves
  <2> QED
    BY <1>7, <2>1, <2>2, Zenon
<1> QED
  BY <1>10, <1>11, <1>12, Zenon DEF line, sp, T, L

\* A text is nothing, or begins with a "?".
Asks(text) == text = <<>> \/ \E r \in Seq(Line) : text = <<"?">> \o r

\* What is in front of the first "?" is the path.
LEMMA TargetSplits ==
  ASSUME NEW x \in Seq(Word)
  PROVE  /\ Split(x, "?") = <<x>>
         /\ \A r \in Seq(Line) : Split(x \o (<<"?">> \o r), "?") = <<x>> \o Split(r, "?")
         /\ \A y : Asks(y) => Split(x \o y, "?")[1] = x
<1> DEFINE q == <<"?">>
<1>1. "?" \in Line /\ q \in Seq(Line)
  <2>1. \A S : \A e \in S : <<e>> \in Seq(S)
    OBVIOUS
  <2>2. "?" \in Line
    BY WireIs, Zenon
  <2> QED
    BY <2>1, <2>2, Zenon
<1>2. Split(x, "?") = <<x>>
  BY WordIs, SplitWhole
<1>3. x \in Seq(Line)
  BY WordIs, SeqWider
<1>4. \A a \in Seq(Line), b \in Seq(Line), c \in Seq(Line) : (a \o b) \o c = a \o (b \o c)
  BY ConcatAssociates DEF Associates
<1>5. \A a \in Seq(Line), b \in Seq(Line) : Split(a \o q \o b, "?") = Split(a, "?") \o Split(b, "?")
  BY <1>1, SplitThen DEF SplitsBetween
<1> HIDE DEF q
<1>6. \A r \in Seq(Line) : Split(x \o (q \o r), "?") = <<x>> \o Split(r, "?")
  BY <1>1, <1>2, <1>3, <1>4, <1>5, Zenon
<1>7. \A r \in Seq(Line) : (<<x>> \o Split(r, "?"))[1] = x
  <2> TAKE r \in Seq(Line)
  <2> DEFINE behind == Split(r, "?")
  <2>1. IsList(<<x>>, 1) /\ <<x>>[1] = x
    <3>1. \A p : IsList(<<p>>, 1) /\ <<p>>[1] = p
      BY DEF IsList
    <3> QED
      BY <3>1, Zenon
  <2>2. IsList(behind, Len(behind))
    <3>1. behind \in Seq(Seq(Line \ {"?"}))
      BY SplitType DEF Pieces
    <3> HIDE DEF behind
    <3> QED
      BY <3>1, ListIs, Zenon
  <2>3. 1 \in 1 .. 1
    OBVIOUS
  <2> HIDE DEF behind
  <2>4. Behind(<<x>> \o behind, <<x>>, 1, behind, Len(behind))
    BY <2>1, <2>2, ConcatBehind, Zenon
  <2> QED
    BY <2>1, <2>3, <2>4 DEF behind, Behind
<1>8. ASSUME NEW y, Asks(y) PROVE Split(x \o y, "?")[1] = x
  <2>1. CASE y = <<>>
    <3>1. x \o y = x
      BY <1>3, <2>1, ConcatEmptySeq
    <3>2. \A p : <<p>>[1] = p
      OBVIOUS
    <3> QED
      BY <1>2, <3>1, <3>2, Zenon
  <2>2. CASE \E r \in Seq(Line) : y = q \o r
    BY <1>6, <1>7, <2>2, Zenon
  <2> QED
    BY <1>8, <2>1, <2>2, Zenon DEF Asks, q
<1> QED
  BY <1>2, <1>6, <1>8, Zenon DEF q

\* The headers of a request, and what is sent of one.
Header == [name : Line, value : Seq(Line)]
Headed(h) == <<h.name, ":">> \o h.value
HeaderPiece(h) == Headed(h) \o <<CR>>
HeaderLine(h) == Headed(h) \o LineEnd
HeaderPieces(list) == [k \in 1 .. Len(list) |-> HeaderPiece(list[k])]

\* A line and its end are a piece, with the first half of the end.
LEMMA DividesLine ==
  ASSUME NEW t \in Seq(Line)
  PROVE  Divides(Wire, LF, t \o LineEnd, <<t \o <<CR>> >>) /\ t \o <<CR>> \in Seq(Line) /\ Len(t \o <<CR>>) = Len(t) + 1
         /\ Front(t \o <<CR>>) = t
<1> DEFINE cr == <<CR>>
           lf == <<LF>>
<1>1. CR \in Line /\ CR \in Wire /\ LF \in Wire
  BY WireIs, WordIs, Zenon
<1>2. LineEnd = cr \o lf
  <2>1. LineEnd = <<CR, LF>>
    BY Zenon DEF LineEnd, CR, LF
  <2>2. \A p, q : <<p>> \o <<q>> = <<p, q>>
    BY ShortLists, Zenon
  <2> QED
    BY <2>1, <2>2, Zenon
<1>3. cr \in Seq(Wire) /\ lf \in Seq(Wire)
  <2>1. \A S : \A e \in S : <<e>> \in Seq(S)
    OBVIOUS
  <2> QED
    BY <1>1, <2>1, Zenon
<1>4. t \in Seq(Wire)
  BY WordIs, SeqWider
<1>5. Front(t \o cr) = t /\ t \o cr \in Seq(Line) /\ Len(t \o cr) = Len(t) + 1
  BY <1>1, FrontIs
<1> HIDE DEF cr
<1>6. Divides(Wire, LF, (t \o cr) \o lf, <<t \o cr>>)
  <2>1. t \o cr \in Seq(Wire \ {LF})
    BY <1>5 DEF Line
  <2> QED
    BY <1>1, <2>1, DividesWord, Zenon
<1> HIDE DEF lf
<1>7. (t \o cr) \o lf = t \o LineEnd
  <2>1. Moves(t, cr, lf)
    BY <1>3, <1>4, ConcatMoves, Zenon
  <2> QED
    BY <1>2, <2>1, Zenon DEF Moves
<1> QED
  BY <1>5, <1>6, <1>7, Zenon DEF cr

\* What is sent of a header can be read again.
LEMMA HeaderIs ==
  ASSUME NEW h \in Header
  PROVE  /\ Headed(h) \in Seq(Line) /\ HeaderPiece(h) \in Seq(Line)
         /\ Divides(Wire, LF, HeaderLine(h), <<HeaderPiece(h)>>)
         /\ Len(HeaderPiece(h)) = Len(h.value) + 3 /\ HeaderPiece(h)[1] = h.name
         /\ SubSeq(HeaderPiece(h), 3, Len(HeaderPiece(h)) - 1) = h.value
<1> DEFINE n == h.name
           v == h.value
<1>1. n \in Line /\ v \in Seq(Line) /\ ":" \in Line /\ CR \in Line
  BY WireIs DEF Header
<1> HIDE DEF n, v
<1>2. Headed(h) = <<n, ":">> \o v /\ HeaderPiece(h) = <<n, ":">> \o v \o <<CR>>
  BY Zenon DEF Headed, HeaderPiece, n, v
<1>3. Headed(h) \in Seq(Line)
  <2>1. \A p \in Line, q \in Line : <<p, q>> \in Seq(Line)
    OBVIOUS
  <2>2. <<n, ":">> \in Seq(Line)
    BY <1>1, <2>1, Zenon
  <2> QED
    BY <1>1, <1>2, <2>2, ConcatProperties, Zenon
<1>4. /\ HeaderPiece(h) \in Seq(Line) /\ Len(HeaderPiece(h)) = Len(v) + 3 /\ HeaderPiece(h)[1] = n
      /\ SubSeq(HeaderPiece(h), 3, Len(HeaderPiece(h)) - 1) = v
  BY <1>1, <1>2, MiddleIs
<1>5. Divides(Wire, LF, HeaderLine(h), <<HeaderPiece(h)>>)
  BY <1>3, DividesLine, Zenon DEF HeaderLine, HeaderPiece
<1> QED
  BY <1>3, <1>4, <1>5 DEF n, v

\* The headers are read as lines, and an empty one.
LEMMA HeaderLinesDivide ==
  ASSUME NEW list \in Seq(Header)
  PROVE  /\ Divides(Wire, LF, HeaderLines(list), HeaderPieces(list) \o << <<CR>> >>)
         /\ HeaderPieces(list) \in Seq(Seq(Line)) /\ IsList(HeaderPieces(list), Len(list))
<1> DEFINE texts == [k \in 1 .. Len(list) |-> HeaderLine(list[k])]
           pieces == HeaderPieces(list)
<1>1. PICK n \in Nat : n = Len(list)
  BY LenProperties
<1>2. \A k \in 1 .. n : list[k] \in Header
  BY <1>1, ElementOfSeq
<1>3. \A k \in 1 .. n : HeaderPiece(list[k]) \in Seq(Line) /\ Divides(Wire, LF, HeaderLine(list[k]), <<HeaderPiece(list[k])>>)
  BY <1>2, HeaderIs, Zenon
<1>4. \A k \in 1 .. n : HeaderLine(list[k]) \in Seq(Wire)
  BY <1>3, Zenon DEF Divides
<1>5. pieces = [k \in 1 .. n |-> HeaderPiece(list[k])] /\ texts = [k \in 1 .. n |-> HeaderLine(list[k])]
  BY <1>1 DEF HeaderPieces
<1>6. HeaderLines(list) = FlattenSeq(texts) \o LineEnd
  BY <1>1 DEF HeaderLines, Map, HeaderLine, Headed
<1> HIDE DEF texts, pieces
<1>7. texts \in Seq(Seq(Wire)) /\ Len(texts) = n /\ \A k \in 1 .. n : texts[k] = HeaderLine(list[k])
  BY <1>4, <1>5
<1>8. pieces \in Seq(Seq(Line)) /\ Len(pieces) = n /\ \A k \in 1 .. n : pieces[k] = HeaderPiece(list[k])
  <2>1. Len(pieces) = n /\ \A k \in 1 .. n : pieces[k] = HeaderPiece(list[k])
    BY <1>5
  <2>2. \A k \in 1 .. n : pieces[k] \in Seq(Line)
    BY <1>3, <2>1, Zenon
  <2>3. pieces \in Seq(Seq(Line))
    BY <1>5, <2>2
  <2> QED
    BY <2>1, <2>3
<1>9. \A k \in 1 .. n : Divides(Wire, LF, texts[k], <<pieces[k]>>)
  BY <1>3, <1>7, <1>8, Zenon
<1>10. Divides(Wire, LF, FlattenSeq(texts), pieces)
  <2>1. pieces \in Seq(Seq(Wire \ {LF}))
    BY <1>8 DEF Line
  <2> QED
    BY <1>7, <1>8, <1>9, <2>1, DividesFlat
<1>11. Divides(Wire, LF, LineEnd, << <<CR>> >>)
  <2>1. <<>> \in Seq(Line) /\ LineEnd \in Seq(Wire) /\ <<CR>> \in Seq(Wire)
    <3>1. \A S : <<>> \in Seq(S) /\ (\A e \in S : <<e>> \in Seq(S)) /\ (\A d \in S, e \in S : <<d, e>> \in Seq(S))
      OBVIOUS
    <3>2. CR \in Wire /\ LF \in Wire
      BY WireIs, WordIs, Zenon
    <3>3. LineEnd = <<CR, LF>>
      BY Zenon DEF LineEnd, CR, LF
    <3> QED
      BY <3>1, <3>2, <3>3, Zenon
  <2>2. Divides(Wire, LF, <<>> \o LineEnd, << <<>> \o <<CR>> >>)
    BY <2>1, DividesLine, Zenon
  <2>3. \A S : \A s \in Seq(S) : <<>> \o s = s
    BY ConcatEmptySeq
  <2>4. <<>> \o LineEnd = LineEnd /\ <<>> \o <<CR>> = <<CR>>
    BY <2>1, <2>3, Zenon
  <2> QED
    BY <2>2, <2>4, Zenon
<1>12. Divides(Wire, LF, FlattenSeq(texts) \o LineEnd, pieces \o << <<CR>> >>)
  BY <1>10, <1>11, DividesThen, Zenon
<1>13. IsList(pieces, Len(list))
  BY <1>1, <1>8, ListIs, Zenon
<1> QED
  BY <1>6, <1>8, <1>12, <1>13, Zenon DEF pieces

\* The lines of a request: the first one, the headers, an empty one, and the body.
LaidOut(lines, first, list, n, b) ==
    /\ IsList(lines, n + 3) /\ lines[1] = first \o <<CR>>
    /\ \A k \in 1 .. n : lines[k + 1] = HeaderPiece(list[k])
    /\ lines[n + 2] = <<CR>> /\ lines[n + 3] = b

\* What is composed is read as these lines.
LEMMA RequestIsLaidOut ==
  ASSUME NEW t \in Seq(Line), NEW list \in Seq(Header), NEW b \in Seq(Line), NEW n \in Nat, n = Len(list)
  PROVE  LaidOut(Split((t \o LineEnd) \o HeaderLines(list) \o b, LF), t, list, n, b)
<1> DEFINE first == t \o <<CR>>
           pieces == HeaderPieces(list)
           up == << <<CR>> >>
           lines == Split((t \o LineEnd) \o HeaderLines(list) \o b, LF)
<1>1. Divides(Wire, LF, t \o LineEnd, <<first>>)
  BY DividesLine, Zenon
<1>2. Divides(Wire, LF, HeaderLines(list), pieces \o up)
  BY HeaderLinesDivide, Zenon
<1>3. \A rest \in Seq(Wire) :
          Split((t \o LineEnd) \o HeaderLines(list) \o rest, LF) = (<<first>> \o (pieces \o up)) \o Split(rest, LF)
  <2>1. Divides(Wire, LF, (t \o LineEnd) \o HeaderLines(list), <<first>> \o (pieces \o up))
    BY <1>1, <1>2, DividesThen, Zenon
  <2> QED
    BY <2>1, Zenon DEF Divides
<1>4. b \in Seq(Wire) /\ Split(b, LF) = <<b>>
  BY WireIs, WordIs, SeqWider, SplitWhole
<1>5. lines = (<<first>> \o (pieces \o up)) \o <<b>>
  BY <1>3, <1>4, Zenon
<1>6. IsList(pieces, n) /\ IsList(<<first>>, 1) /\ <<first>>[1] = first /\ IsList(up, 1) /\ up[1] = <<CR>>
      /\ IsList(<<b>>, 1) /\ <<b>>[1] = b
  BY HeaderLinesDivide, ShortLists, Zenon
<1>7. \A k \in 1 .. n : pieces[k] = HeaderPiece(list[k])
  BY DEF HeaderPieces
<1> HIDE DEF first, pieces, up, lines
<1> DEFINE q == pieces \o up
           r == <<first>> \o q
<1>8. Behind(q, pieces, n, up, 1)
  BY <1>6, ConcatBehind, Zenon
<1> HIDE DEF q
<1>9. IsList(q, n + 1)
  BY <1>8, Zenon DEF Behind
<1>10. Behind(r, <<first>>, 1, q, n + 1)
  BY <1>6, <1>9, ConcatBehind, Zenon
<1> HIDE DEF r
<1>11. IsList(r, n + 2)
  <2>1. 1 + (n + 1) = n + 2
    OBVIOUS
  <2> QED
    BY <1>10, <2>1, Zenon DEF Behind
<1>12. Behind(lines, r, n + 2, <<b>>, 1)
  <2>1. Behind(r \o <<b>>, r, n + 2, <<b>>, 1)
    BY <1>6, <1>11, ConcatBehind, Zenon
  <2> QED
    BY <1>5, <2>1, Zenon DEF r, q
<1>13. 1 \in 1 .. 1 /\ 1 \in 1 .. n + 2 /\ (n + 2) + 1 = n + 3
  OBVIOUS
<1>14. /\ IsList(lines, n + 3) /\ lines[n + 3] = b
       /\ \A k \in 1 .. n + 2 : lines[k] = r[k]
  <2>1. IsList(lines, (n + 2) + 1) /\ lines[(n + 2) + 1] = <<b>>[1]
    BY <1>12, <1>13, Zenon DEF Behind
  <2>2. \A k \in 1 .. n + 2 : lines[k] = r[k]
    BY <1>12, Zenon DEF Behind
  <2> QED
    BY <1>6, <1>13, <2>1, <2>2, Zenon
<1>15. r[1] = first /\ \A k \in 1 .. n + 1 : r[1 + k] = q[k]
  BY <1>6, <1>10, <1>13, Zenon DEF Behind
<1>16. (\A k \in 1 .. n : q[k] = pieces[k]) /\ q[n + 1] = <<CR>>
  BY <1>6, <1>8, <1>13, Zenon DEF Behind
<1>17. lines[1] = first
  BY <1>13, <1>14, <1>15, Zenon
<1>18. ASSUME NEW k \in 1 .. n PROVE lines[k + 1] = HeaderPiece(list[k])
  <2>1. k \in 1 .. n + 1 /\ k + 1 \in 1 .. n + 2 /\ 1 + k = k + 1
    OBVIOUS
  <2>2. lines[k + 1] = r[k + 1] /\ r[1 + k] = q[k] /\ q[k] = pieces[k] /\ pieces[k] = HeaderPiece(list[k])
    BY <1>7, <1>14, <1>15, <1>16, <2>1, Zenon
  <2> QED
    BY <2>1, <2>2, Zenon
<1>19. lines[n + 2] = <<CR>>
  <2>1. n + 1 \in 1 .. n + 1 /\ n + 2 \in 1 .. n + 2 /\ 1 + (n + 1) = n + 2
    OBVIOUS
  <2>2. lines[n + 2] = r[n + 2] /\ r[1 + (n + 1)] = q[n + 1]
    BY <1>14, <1>15, <2>1, Zenon
  <2> QED
    BY <1>16, <2>1, <2>2, Zenon
<1> QED
  BY <1>14, <1>17, <1>18, <1>19, Zenon DEF LaidOut, first, lines

\* The empty line is found.
LEMMA EmptyLineFound ==
  ASSUME NEW lines, NEW t \in Seq(Line), t # <<>>, NEW list \in Seq(Header), NEW n \in Nat, n = Len(list), NEW b,
         LaidOut(lines, t, list, n, b), NEW N, N = Len(lines)
  PROVE  (CHOOSE k \in 1 .. N : lines[k] = <<CR>> /\ \A j \in 1 .. k - 1 : lines[j] # <<CR>>) = n + 2
<1>1. N = n + 3
  <2>1. Len(lines) = n + 3
    BY ListIs, Zenon DEF LaidOut
  <2> QED
    BY <2>1
<1>2. Len(<<CR>>) = 1
  OBVIOUS
<1>3. lines[1] # <<CR>>
  <2>1. lines[1] = t \o <<CR>> /\ Len(t \o <<CR>>) = Len(t) + 1
    BY DividesLine, Zenon DEF LaidOut
  <2>2. Len(t) # 0 /\ Len(t) \in Nat
    BY LenProperties, EmptySeq
  <2> QED
    BY <1>2, <2>1, <2>2
<1>4. ASSUME NEW k \in 1 .. n PROVE lines[k + 1] # <<CR>>
  <2>1. list[k] \in Header
    BY ElementOfSeq
  <2>2. lines[k + 1] = HeaderPiece(list[k]) /\ Len(HeaderPiece(list[k])) = Len(list[k].value) + 3
    BY <2>1, HeaderIs, Zenon DEF LaidOut
  <2>3. Len(list[k].value) \in Nat
    BY <2>1, LenProperties DEF Header
  <2>4. Len(list[k].value) + 3 # 1
    BY <2>3
  <2> QED
    BY <1>2, <2>2, <2>4, Zenon
<1>5. ASSUME NEW j \in 1 .. n + 1 PROVE lines[j] # <<CR>>
  <2>1. CASE j = 1
    BY <1>3, <2>1
  <2>2. CASE j # 1
    <3>1. j - 1 \in 1 .. n /\ (j - 1) + 1 = j
      BY <2>2
    <3> QED
      BY <1>4, <3>1
  <2> QED
    BY <2>1, <2>2
<1> DEFINE Empty(k) == lines[k] = <<CR>> /\ \A j \in 1 .. k - 1 : lines[j] # <<CR>>
<1>6. lines[n + 2] = <<CR>>
  BY Zenon DEF LaidOut
<1>7. n + 2 \in 1 .. N /\ Empty(n + 2)
  BY <1>1, <1>5, <1>6
<1>8. ASSUME NEW k \in 1 .. N, Empty(k) PROVE k = n + 2
  <2>1. CASE k \in 1 .. n + 1
    BY <1>5, <1>8, <2>1
  <2>2. CASE k = n + 3
    <3>1. n + 2 \in 1 .. k - 1
      BY <2>2
    <3> QED
      BY <1>6, <1>8, <3>1
  <2> QED
    BY <1>1, <2>1, <2>2
<1> HIDE DEF Empty
<1>9. (CHOOSE k \in 1 .. N : Empty(k)) = n + 2
  BY <1>7, <1>8
<1> QED
  BY <1>9 DEF Empty

\* What the server reads of a request of these parts.
IsRead(read, m, x, g, list, b) ==
    /\ read.method = m /\ read.path = x /\ read.headers = list /\ read.body = b
    /\ \A q \in Seq(Word) : g = (IF q = <<>> THEN <<>> ELSE <<"?">> \o q) => read.params = Fields(q)

\* The method, the path and the query are read of the first line.
FirstRead(words, m, x, g) ==
    LET target == Split(words[2], "?")
    IN /\ words[1][1] = m /\ target[1] = x
       /\ \A q \in Seq(Word) : g = (IF q = <<>> THEN <<>> ELSE <<"?">> \o q) => FlattenSeq(Tail(target)) = q

\* What is in front of a mark begins as the whole does.
LEMMA AsksBefore ==
  ASSUME NEW y \in Seq(Line \ {Space}), NEW z \in Seq(Line), Asks(y \o <<Space>> \o z)
  PROVE  Asks(y)
<1>1. PICK n \in Nat : n = Len(y)
  BY LenProperties
<1> DEFINE sp == <<Space>>
           s == y \o sp
           g == s \o z
<1>2. IsList(y, n) /\ IsList(sp, 1) /\ sp[1] = Space /\ IsList(z, Len(z))
  BY <1>1, ListIs, ShortLists, Zenon
<1> HIDE DEF sp
<1>3. Behind(s, y, n, sp, 1)
  BY <1>2, ConcatBehind, Zenon
<1> HIDE DEF s
<1>4. IsList(s, n + 1)
  BY <1>3, Zenon DEF Behind
<1>5. Behind(g, s, n + 1, z, Len(z))
  BY <1>2, <1>4, ConcatBehind, Zenon
<1>6. 1 \in 1 .. n + 1 /\ 1 \in 1 .. 1
  BY <1>1
<1>7. g[1] = s[1] /\ Len(g) = n + 1 + Len(z)
  BY <1>5, <1>6, Zenon DEF Behind
<1>8. g # <<>>
  <2>1. Len(z) \in Nat
    BY LenProperties
  <2>2. Len(g) # 0
    BY <1>7, <2>1
  <2>3. Len(<<>>) = 0
    OBVIOUS
  <2> QED
    BY <2>2, <2>3, Zenon
<1>9. g[1] = "?"
  <2>1. PICK r \in Seq(Line) : g = <<"?">> \o r
    BY <1>8, Zenon DEF Asks, g, s, sp
  <2>2. IsList(<<"?">>, 1) /\ <<"?">>[1] = "?" /\ IsList(r, Len(r))
    BY ListIs, ShortLists, Zenon
  <2>3. Behind(<<"?">> \o r, <<"?">>, 1, r, Len(r))
    BY <2>2, ConcatBehind, Zenon
  <2>4. (<<"?">> \o r)[1] = <<"?">>[1]
    BY <1>6, <2>3, Zenon DEF Behind
  <2> QED
    BY <2>1, <2>2, <2>4, Zenon
<1> HIDE DEF g
<1>10. n # 0
  <2> SUFFICES ASSUME n = 0 PROVE FALSE
    OBVIOUS
  <2>1. s[n + 1] = Space
    BY <1>2, <1>3, <1>6, Zenon DEF Behind
  <2>2. n + 1 = 1
    OBVIOUS
  <2>3. Space # "?"
    BY WireIs, Zenon
  <2> QED
    BY <1>7, <1>9, <2>1, <2>2, <2>3, Zenon
<1>11. y[1] = "?"
  <2>1. 1 \in 1 .. n
    BY <1>10
  <2>2. s[1] = y[1]
    BY <1>3, <2>1, Zenon DEF Behind
  <2> QED
    BY <1>7, <1>9, <2>2, Zenon
<1>12. y \in Seq(Line)
  <2>1. Line \ {Space} \subseteq Line
    OBVIOUS
  <2> QED
    BY <2>1, SeqWider
<1>13. Tail(y) \in Seq(Line) /\ y = <<Head(y)>> \o Tail(y) /\ Head(y) = y[1]
  <2>1. y # <<>>
    BY <1>1, <1>10, EmptySeq
  <2> QED
    BY <1>12, <2>1, HeadTailProperties, ConcatProperties
<1> QED
  BY <1>11, <1>13, Zenon DEF Asks

\* A text of a line is a word, or begins with one and a space.
FirstWord(g) == g \in Seq(Line \ {Space}) \/ \E y \in Seq(Line \ {Space}), z \in Seq(Line) : g = y \o <<Space>> \o z

\* So does every one, as its first space, if it has any, is behind a word.
LEMMA LineHasFirstWord ==
  ASSUME NEW g \in Seq(Line)
  PROVE  FirstWord(g)
<1> DEFINE C == Line
           sep == Space
<1> HIDE DEF C, sep
<1>1. g \in Seq(C \ {sep}) \/ \E y \in Seq(C \ {sep}), z \in Seq(C) : g = y \o <<sep>> \o z
  <2>1. g \in Seq(C)
    BY DEF C
  <2> QED
    BY <2>1, FirstPiece
<1> QED
  BY <1>1, Zenon DEF FirstWord, C, sep

\* The words of the first line are those that were sent.
LEMMA FirstLineRead ==
  ASSUME NEW m \in Line \ {Space}, NEW x \in Seq(Word), NEW g \in Seq(Line), Asks(g)
  PROVE  FirstRead(Split(LineText(m, x, g), Space), m, x, g)
<1> DEFINE words == Split(LineText(m, x, g), Space)
           T == Seq(Line \ {Space})
<1>1. x \in T /\ Seq(Word) \subseteq T /\ Seq(Word) \subseteq Seq(Line)
  <2>1. Word \subseteq Line \ {Space}
    BY DEF Word
  <2> QED
    BY <2>1, WordIs, SeqWider
<1>2. /\ g \in T => Words(LineText(m, x, g), Space, <<m>>, x \o g)
      /\ \A y \in T, z \in Seq(Line) : g = y \o <<Space>> \o z => Words(LineText(m, x, g), Space, <<m>>, x \o y)
  BY <1>1, WordsOfLine, Zenon
<1>3. Split(x, "?") = <<x>> /\ \A y : Asks(y) => Split(x \o y, "?")[1] = x
  BY TargetSplits, Zenon
<1>4. words[1] = <<m>> /\ \E y : Asks(y) /\ words[2] = x \o y
  <2>1. CASE g \in T
    BY <1>2, <2>1, Zenon DEF Words
  <2>2. CASE \E y \in T, z \in Seq(Line) : g = y \o <<Space>> \o z
    <3>1. PICK y \in T, z \in Seq(Line) : g = y \o <<Space>> \o z
      BY <2>2, Zenon
    <3>2. words[1] = <<m>> /\ words[2] = x \o y
      BY <1>2, <3>1, Zenon DEF Words
    <3>3. Asks(y)
      BY <3>1, AsksBefore, Zenon
    <3> QED
      BY <3>2, <3>3, Zenon
  <2>3. g \in T \/ \E y \in T, z \in Seq(Line) : g = y \o <<Space>> \o z
    BY LineHasFirstWord, Zenon DEF FirstWord
  <2> QED
    BY <2>1, <2>2, <2>3, Zenon
<1>5. words[1][1] = m /\ Split(words[2], "?")[1] = x
  <2>1. \A p : <<p>>[1] = p
    OBVIOUS
  <2> QED
    BY <1>3, <1>4, <2>1, Zenon
<1>6. ASSUME NEW q \in Seq(Word), g = (IF q = <<>> THEN <<>> ELSE <<"?">> \o q)
      PROVE  FlattenSeq(Tail(Split(words[2], "?"))) = q
  <2>1. g \in T
    <3>1. \A S : <<>> \in Seq(S) /\ \A e \in S : <<e>> \in Seq(S)
      OBVIOUS
    <3>2. "?" \in Line \ {Space}
      BY WireIs, Zenon
    <3>3. <<"?">> \in T /\ <<>> \in T /\ q \in T
      BY <1>1, <3>1, <3>2, Zenon
    <3>4. \A a \in T, b \in T : a \o b \in T
      BY ConcatProperties
    <3> QED
      BY <1>6, <3>3, <3>4, Zenon
  <2>2. words[2] = x \o g
    BY <1>2, <2>1, Zenon DEF Words
  <2>3. CASE q = <<>>
    <3>1. x \o g = x
      <4>1. \A S : \A s \in Seq(S) : s \o <<>> = s
        BY ConcatEmptySeq
      <4> QED
        BY <1>6, <2>3, <4>1, Zenon
    <3>2. Split(words[2], "?") = <<x>>
      BY <1>3, <2>2, <3>1, Zenon
    <3>3. Tail(<<x>>) = <<>>
      BY ShortLists, Zenon
    <3>4. FlattenSeq(<<>>) = <<>>
      BY DEF FlattenSeq
    <3> QED
      BY <2>3, <3>2, <3>3, <3>4, Zenon
  <2>4. CASE q # <<>>
    <3>1. g = <<"?">> \o q /\ q \in Seq(Line)
      BY <1>1, <1>6, <2>4, Zenon
    <3>2. Split(words[2], "?") = <<x>> \o Split(q, "?") /\ Split(q, "?") = <<q>>
      <4>1. Split(x \o (<<"?">> \o q), "?") = <<x>> \o Split(q, "?") /\ Split(q, "?") = <<q>>
        BY <3>1, TargetSplits, Zenon
      <4> QED
        BY <2>2, <3>1, <4>1, Zenon
    <3>3. <<x>> \o <<q>> = <<x, q>> /\ Tail(<<x, q>>) = <<q>>
      BY ShortLists, Zenon
    <3>4. FlattenSeq(<<q>>) = q
      BY FlattenOne, Zenon
    <3> QED
      BY <3>2, <3>3, <3>4, Zenon
  <2> QED
    BY <2>3, <2>4
<1> HIDE DEF words
<1> QED
  BY <1>5, <1>6, Zenon DEF FirstRead, words

\* What the server reads of a request that is composed.
LEMMA RequestRead ==
  ASSUME NEW m \in Line \ {Space}, NEW x \in Seq(Word), NEW g \in Seq(Line), Asks(g),
         NEW list \in Seq(Header), NEW b \in Seq(Line)
  PROVE  IsRead(ReadRequest((LineText(m, x, g) \o LineEnd) \o HeaderLines(list) \o b), m, x, g, list, b)
<1> DEFINE t == LineText(m, x, g)
           text == (t \o LineEnd) \o HeaderLines(list) \o b
           lines == Split(text, LF)
           N == Len(lines)
           empty == CHOOSE k \in 1 .. N : lines[k] = <<CR>> /\ \A j \in 1 .. k - 1 : lines[j] # <<CR>>
           words == Split(Front(lines[1]), Space)
           target == Split(words[2], "?")
           hs == SubSeq(lines, 2, empty - 1)
           behind == SubSeq(lines, empty + 1, N)
           read == ReadRequest(text)
<1>1. read = [method |-> words[1][1], path |-> target[1], params |-> Fields(FlattenSeq(Tail(target))),
              headers |-> [k \in 1 .. Len(hs) |-> [name |-> hs[k][1], value |-> SubSeq(hs[k], 3, Len(hs[k]) - 1)]],
              body |-> FlattenSeq(behind)]
  BY Zenon DEF ReadRequest, Map, Space, CR, LF
<1>2. PICK n \in Nat : n = Len(list)
  BY LenProperties
<1>3. t \in Seq(Line) /\ t # <<>>
  <2>1. x \in Seq(Line \ {Space})
    <3>1. Word \subseteq Line \ {Space}
      BY DEF Word
    <3> QED
      BY <3>1, SeqWider
  <2>2. t \in Seq(Line)
    BY <2>1, WordsOfLine, Zenon
  <2>3. t # <<>>
    <3> DEFINE a == <<m, Space>> \o (x \o g)
               e == <<Space, "HTTP/1.1">>
    <3>1. a \in Seq(Line)
      <4>1. \A p \in Line, q \in Line : <<p, q>> \in Seq(Line)
        OBVIOUS
      <4>2. \A p \in Seq(Line), q \in Seq(Line) : p \o q \in Seq(Line)
        BY ConcatProperties
      <4>3. m \in Line /\ Space \in Line /\ x \in Seq(Line)
        BY WireIs, WordIs, SeqWider
      <4> QED
        BY <4>1, <4>2, <4>3, Zenon
    <3>2. IsList(a, Len(a)) /\ IsList(e, 2) /\ Len(a) \in Nat
      <4>1. IsList(e, 2)
        BY ShortLists, Zenon
      <4> HIDE DEF a, e
      <4> QED
        BY <3>1, <4>1, ListIs, LenProperties
    <3> HIDE DEF a, e
    <3>3. Len(a \o e) = Len(a) + 2
      <4>1. Behind(a \o e, a, Len(a), e, 2)
        BY <3>2, ConcatBehind, Zenon
      <4> QED
        BY <4>1, Zenon DEF Behind
    <3>4. Len(<<>>) = 0 /\ Len(a) + 2 # 0
      BY <3>2
    <3> QED
      BY <3>3, <3>4, Zenon DEF LineText, a, e
  <2> QED
    BY <2>2, <2>3, Zenon
<1>4. FirstRead(Split(t, Space), m, x, g)
  BY FirstLineRead, Zenon
<1> HIDE DEF t
<1>5. LaidOut(lines, t, list, n, b)
  BY <1>2, <1>3, RequestIsLaidOut, Zenon
<1> HIDE DEF text, lines
<1>6. empty = n + 2
  BY <1>2, <1>3, <1>5, EmptyLineFound
<1>7. N = n + 3 /\ IsList(lines, n + 3) /\ Front(lines[1]) = t
  <2>1. IsList(lines, n + 3) /\ lines[1] = t \o <<CR>>
    BY <1>5, Zenon DEF LaidOut
  <2>2. Len(lines) = n + 3
    BY <2>1, ListIs, Zenon
  <2>3. Front(t \o <<CR>>) = t
    BY <1>3, DividesLine, Zenon
  <2> QED
    BY <2>1, <2>2, <2>3, Zenon
<1> HIDE DEF empty, N
<1>8. hs = [k \in 1 .. n |-> lines[k + 1]]
  <2>1. 2 \in Nat /\ n + 1 \in Nat /\ 2 # 0 /\ n + 1 <= n + 3 /\ empty - 1 = n + 1
    BY <1>6
  <2>2. PartOf(SubSeq(lines, 2, n + 1), lines, 2, n + 1)
    BY <1>7, <2>1, PartIs, Zenon
  <2>3. SubSeq(lines, 2, n + 1) = [k \in 1 .. ((n + 1) + 1) - 2 |-> lines[(2 + k) - 1]]
    BY <2>2, Zenon DEF PartOf
  <2>4. ((n + 1) + 1) - 2 = n /\ \A k \in 1 .. n : (2 + k) - 1 = k + 1
    OBVIOUS
  <2>5. [k \in 1 .. ((n + 1) + 1) - 2 |-> lines[(2 + k) - 1]] = [k \in 1 .. n |-> lines[k + 1]]
    BY <2>4
  <2> QED
    BY <2>1, <2>3, <2>5, Zenon
<1>9. behind = <<b>>
  <2>1. n + 3 \in Nat /\ n + 3 # 0 /\ n + 3 <= n + 3 /\ empty + 1 = n + 3
    BY <1>6
  <2>2. PartOf(SubSeq(lines, n + 3, n + 3), lines, n + 3, n + 3)
    BY <1>7, <2>1, PartIs, Zenon
  <2>3. SubSeq(lines, n + 3, n + 3) = [k \in 1 .. ((n + 3) + 1) - (n + 3) |-> lines[((n + 3) + k) - 1]]
    BY <2>2, Zenon DEF PartOf
  <2>4. ((n + 3) + 1) - (n + 3) = 1 /\ \A k \in 1 .. 1 : ((n + 3) + k) - 1 = n + 3
    OBVIOUS
  <2>5. [k \in 1 .. ((n + 3) + 1) - (n + 3) |-> lines[((n + 3) + k) - 1]] = [k \in 1 .. 1 |-> lines[n + 3]]
    BY <2>4
  <2>6. lines[n + 3] = b
    BY <1>5, Zenon DEF LaidOut
  <2>7. [k \in 1 .. 1 |-> b] = <<b>>
    OBVIOUS
  <2> QED
    BY <1>7, <2>1, <2>3, <2>5, <2>6, <2>7, Zenon
<1>10. FlattenSeq(behind) = b
  BY <1>9, FlattenOne, Zenon
<1> DEFINE rh == [k \in 1 .. Len(hs) |-> [name |-> hs[k][1], value |-> SubSeq(hs[k], 3, Len(hs[k]) - 1)]]
<1>11. rh = list
  <2> HIDE DEF hs
  <2>1. Len(hs) = n /\ \A k \in 1 .. n : hs[k] = lines[k + 1]
    BY <1>8
  <2>2. ASSUME NEW k \in 1 .. n PROVE rh[k] = list[k]
    <3>1. list[k] \in Header
      BY <1>2, ElementOfSeq
    <3>2. hs[k] = HeaderPiece(list[k])
      BY <1>5, <2>1, Zenon DEF LaidOut
    <3>3. HeaderPiece(list[k])[1] = list[k].name /\ SubSeq(HeaderPiece(list[k]), 3, Len(HeaderPiece(list[k])) - 1) = list[k].value
      BY <3>1, HeaderIs, Zenon
    <3>4. rh[k] = [name |-> hs[k][1], value |-> SubSeq(hs[k], 3, Len(hs[k]) - 1)]
      BY <2>1
    <3>5. rh[k] = [name |-> list[k].name, value |-> list[k].value]
      BY <3>2, <3>3, <3>4, Zenon
    <3>6. list[k] = [name |-> list[k].name, value |-> list[k].value]
      BY <3>1 DEF Header
    <3> QED
      BY <3>5, <3>6, Zenon
  <2>3. IsList(rh, n)
    BY <2>1 DEF IsList
  <2>4. IsList(list, n)
    BY <1>2, ListIs, Zenon
  <2> HIDE DEF rh
  <2> QED
    BY <2>2, <2>3, <2>4, SameLists
<1>12. FirstRead(words, m, x, g)
  BY <1>4, <1>7, Zenon
<1> HIDE DEF words, hs, behind, rh
<1>13. /\ words[1][1] = m /\ target[1] = x
       /\ \A q \in Seq(Word) : g = (IF q = <<>> THEN <<>> ELSE <<"?">> \o q) => FlattenSeq(Tail(target)) = q
  BY <1>12, Zenon DEF FirstRead
<1> HIDE DEF target
<1>14. read = [method |-> words[1][1], path |-> target[1], params |-> Fields(FlattenSeq(Tail(target))), headers |-> rh, body |-> FlattenSeq(behind)]
  BY <1>1, Zenon DEF rh
<1> HIDE DEF read
<1>15. read.method = m /\ read.path = x /\ read.headers = list /\ read.body = b /\ read.params = Fields(FlattenSeq(Tail(target)))
  <2>1. /\ read.method = words[1][1] /\ read.path = target[1] /\ read.headers = rh /\ read.body = FlattenSeq(behind)
        /\ read.params = Fields(FlattenSeq(Tail(target)))
    BY <1>14
  <2> QED
    BY <1>10, <1>11, <1>13, <2>1, Zenon
<1>16. IsRead(read, m, x, g, list, b)
  BY <1>13, <1>15, Zenon DEF IsRead
<1> QED
  BY <1>16, Zenon DEF read, text, t

\* The parameters that the constructor reads of a query are those that a server does.
QueryParams(q) == IF q = <<>> THEN <<>> ELSE ParseParams(q)
Queried(q) ==
    /\ QueryParams(q) \in Parameters(Term) /\ IsList(Fields(q), Len(QueryParams(q)))
    /\ \A k \in 1 .. Len(QueryParams(q)) : Fields(q)[k] = Sent(QueryParams(q)[k])

\* They are, if no piece has two "=" and the last one is not empty.
LEMMA QueryIsRead ==
  ASSUME NEW q \in Seq(Word), q # <<>> => Last(Split(q, "&")) # <<>>,
         \A k \in 1 .. Len(Split(q, "&")) : Len(Split(Split(q, "&")[k], "=")) <= 2
  PROVE  Queried(q)
<1>1. CASE q = <<>>
  <2>1. QueryParams(q) = <<>> /\ Fields(q) = <<>>
    BY <1>1, Zenon DEF QueryParams, Fields
  <2>2. <<>> \in Parameters(Term) /\ Len(<<>>) = 0 /\ IsList(<<>>, 0) /\ 1 .. 0 = {}
    BY DEF Parameters, IsList
  <2> QED
    BY <2>1, <2>2, Zenon DEF Queried
<1>2. CASE q # <<>>
  <2> DEFINE pieces == Split(q, "&")
             ps == QueryParams(q)
             n == Len(pieces)
             Parameter(piece) == [name |-> Before(piece, "="), value |-> FlattenSeq(Tail(Split(piece, "=")))]
  <2>1. ps = [k \in 1 .. n |-> Parameter(pieces[k])]
    BY <1>2 DEF QueryParams, ParseParams, Map
  <2>2. ps \in Parameters(Term)
    <3>1. ParseParams(q) \in Parameters(Word \ {"&", "="})
      BY ParseParamsType
    <3>2. Word \ {"&", "="} = Term
      BY DEF Term
    <3> QED
      BY <1>2, <3>1, <3>2, Zenon DEF QueryParams
  <2>3. pieces \in Seq(Seq(Word \ {"&"}))
    BY SplitType DEF Pieces
  <2>4. \A k \in 1 .. n : pieces[k] \in Seq(Word \ {"&"}) /\ Len(Split(pieces[k], "=")) <= 2
    BY <2>3, ElementOfSeq
  <2>5. Fields(q) = [k \in 1 .. n |-> FieldOf(pieces[k])] /\ n \in Nat
    BY <1>2, <2>3, FieldsAre, LenProperties
  <2> HIDE DEF pieces, ps
  <2>6. \A k \in 1 .. n : FieldOf(pieces[k]) = [name |-> Before(pieces[k], "="), value |-> Decode(FlattenSeq(Tail(Split(pieces[k], "="))))]
    BY <2>4, FieldOfPiece
  <2>7. Len(ps) = n /\ \A k \in 1 .. n : ps[k] = Parameter(pieces[k])
    BY <2>1, <2>5
  <2>8. ASSUME NEW k \in 1 .. n PROVE Fields(q)[k] = Sent(ps[k])
    <3>1. Fields(q)[k] = FieldOf(pieces[k])
      BY <2>5
    <3>2. ps[k].name = Before(pieces[k], "=") /\ ps[k].value = FlattenSeq(Tail(Split(pieces[k], "=")))
      <4>1. ps[k] = [name |-> Before(pieces[k], "="), value |-> FlattenSeq(Tail(Split(pieces[k], "=")))]
        BY <2>7, Zenon
      <4> QED
        BY <4>1
    <3> QED
      BY <2>6, <3>1, <3>2, Zenon DEF Sent
  <2>9. IsList(Fields(q), n)
    BY <2>5 DEF IsList
  <2> QED
    BY <2>2, <2>7, <2>8, <2>9, Zenon DEF Queried, ps
<1> QED
  BY <1>1, <1>2

\* What may be added to a Url.
Added == [name : Seq(Term), value : Seq(Line \ Codes)]

\* All that is written and set is in a line, a word or a term.
LEMMA TravelIs ==
  /\ \A w \in Written : w.host \in Seq(Line) /\ w.path \in Seq(Word) /\ Queried(w.query)
  /\ Hosts \subseteq Seq(Line) /\ Paths \subseteq Seq(Word) \ {<<>>}
  /\ NewParams \subseteq Added /\ NewHeaders \subseteq Header /\ Bodies \subseteq Seq(Line)
<1>1. InLine = Seq(STRING \ {LF}) /\ InWord = Seq(STRING \ {Space, LF}) /\ InQuery = Seq(STRING \ {Space, LF, "?"})
      /\ InValue = Seq(STRING \ ({LF} \union Codes)) /\ HeaderNames = STRING \ {LF}
  BY Zenon DEF InLine, InWord, InQuery, InValue, HeaderNames, Without, Space, LF
<1>2. \A marks : STRING \ ({LF} \union marks) \subseteq Line \ marks
  BY WireIs, Zenon
<1>3. STRING \ {LF} \subseteq Line /\ STRING \ ({LF} \union Codes) \subseteq Line \ Codes
  <2>1. STRING \ ({LF} \union {}) \subseteq Line \ {}
    BY <1>2, Zenon
  <2> QED
    BY <1>2, <2>1
<1>4. InLine \subseteq Seq(Line) /\ InValue \subseteq Seq(Line \ Codes) /\ HeaderNames \subseteq Line
  <2>1. Seq(STRING \ {LF}) \subseteq Seq(Line) /\ Seq(STRING \ ({LF} \union Codes)) \subseteq Seq(Line \ Codes)
    BY <1>3, SeqWider
  <2> QED
    BY <1>1, <1>3, <2>1, Zenon
<1>5. \A text \in InWord : text \in Without({"?", "@"}) => text \in Seq(Word)
  <2> TAKE text \in InWord
  <2> HAVE text \in Without({"?", "@"})
  <2>1. text \in Seq(STRING \ {Space, LF}) /\ text \in Seq(STRING \ {"?", "@"})
    BY <1>1, Zenon DEF Without
  <2>2. STRING \ ({LF} \union {Space, "?"}) \subseteq Word
    BY <1>2, Zenon DEF Word
  <2>3. (STRING \ {Space, LF}) \cap (STRING \ {"?", "@"}) \subseteq Word
    BY <2>2, Zenon
  <2> QED
    BY <2>1, <2>3, InBoth, Zenon
<1>6. \A text \in InQuery : text \in Seq(Word) /\ (text \in Without({"=", "&", "#", "@"}) => text \in Seq(Term))
  <2> TAKE text \in InQuery
  <2>1. text \in Seq(STRING \ {Space, LF, "?"})
    BY <1>1, Zenon
  <2>2. STRING \ ({LF} \union {Space, "?"}) \subseteq Word
    BY <1>2, Zenon DEF Word
  <2>3. STRING \ {Space, LF, "?"} \subseteq Word
    BY <2>2, Zenon
  <2>4. text \in Seq(Word)
    BY <2>1, <2>3, SeqWider, Zenon
  <2>5. ASSUME text \in Without({"=", "&", "#", "@"}) PROVE text \in Seq(Term)
    <3>1. text \in Seq(STRING \ {"=", "&", "#", "@"})
      BY <2>5, Zenon DEF Without
    <3>2. Word \cap (STRING \ {"=", "&", "#", "@"}) \subseteq Term
      BY Zenon DEF Term
    <3> QED
      BY <2>4, <3>1, <3>2, InBoth, Zenon
  <2> QED
    BY <2>4, <2>5, Zenon
<1>7. ASSUME NEW w \in Written PROVE w.host \in Seq(Line) /\ w.path \in Seq(Word) /\ Queried(w.query)
  <2>1. w.host \in InLine /\ w.path \in InWord /\ IsQueryText(w.query)
    BY PartsTravel, Zenon
  <2>2. w.path \in Without({"?", "@"})
    BY UrlsAreWritten, Zenon
  <2>3. Queried(w.query)
    <3> DEFINE q == w.query
    <3>1. /\ q \in Seq(Word)
          /\ q # <<>> => Last(Split(q, "&")) # <<>>
          /\ \A k \in 1 .. Len(Split(q, "&")) : Len(Split(Split(q, "&")[k], "=")) <= 2
      BY <1>6, <2>1, Zenon DEF IsQueryText
    <3> HIDE DEF q
    <3>2. Queried(q)
      BY <3>1, QueryIsRead
    <3> QED
      BY <3>2 DEF q
  <2> QED
    BY <1>4, <1>5, <2>1, <2>2, <2>3, Zenon
<1>8. Hosts \subseteq Seq(Line) /\ Bodies \subseteq Seq(Line)
  BY <1>4, PartsTravel, Zenon
<1>9. Paths \subseteq Seq(Word) \ {<<>>}
  <2>1. Paths \subseteq InWord /\ Paths \subseteq Without({"?", "@"}) \ {<<>>}
    BY PartsTravel, PartsAreWritten, Zenon
  <2> QED
    BY <1>5, <2>1, Zenon
<1>10. NewParams \subseteq Added
  <2> SUFFICES ASSUME NEW p \in NewParams PROVE p \in Added
    OBVIOUS
  <2>1. p \in [name : InQuery, value : InValue] /\ p \in [name : Without({"=", "&", "#", "@"}), value : Seq(STRING)]
    BY PartsTravel, PartsAreWritten, Zenon
  <2> DEFINE W == Without({"=", "&", "#", "@"})
  <2> HIDE DEF W
  <2>2. p.name \in InQuery /\ p.name \in W /\ p.value \in InValue /\ p = [name |-> p.name, value |-> p.value]
    BY <2>1 DEF W
  <2>3. p.name \in Seq(Term) /\ p.value \in Seq(Line \ Codes)
    BY <1>4, <1>6, <2>2, Zenon DEF W
  <2> QED
    BY <2>2, <2>3 DEF Added
<1>11. NewHeaders \subseteq Header
  <2>1. \A h \in NewHeaders : h \in [name : HeaderNames, value : InLine]
    BY PartsTravel, Zenon
  <2>2. \A h \in [name : HeaderNames, value : InLine] : h \in [name : Line, value : Seq(Line)]
    BY <1>4
  <2> QED
    BY <2>1, <2>2, Zenon DEF Header
<1> QED
  BY <1>7, <1>8, <1>9, <1>10, <1>11, Zenon

\* The host, until the request is made, the path and the parameters of the Url are
\* those that are meant.
HasParts(u) == {"host", "path", "params"} \subseteq DOMAIN u
Keeps(u, v) == HasParts(u) /\ v.host = u.host /\ v.path = u.path /\ v.params = u.params
RootOf(x) == IF x = <<>> THEN <<"/">> ELSE x
UrlKept ==
    /\ HasParts(url) /\ {"host", "path", "query", "added"} \subseteq DOMAIN meant
    /\ (made \/ url.host = meant.host) /\ meant.host \in Seq(Line)
    /\ url.path = RootOf(meant.path) /\ meant.path \in Seq(Word)
    /\ url.params = QueryParams(meant.query) \o meant.added /\ Queried(meant.query) /\ meant.added \in Seq(Added)

\* The default port is nothing of these.
LEMMA DefaultPortKeeps ==
  ASSUME NEW u, HasParts(u)
  PROVE  HasParts(WithDefaultPort(u)) /\ Keeps(u, WithDefaultPort(u))
<1>1. \A p : HasParts([u EXCEPT !.port = p]) /\ Keeps(u, [u EXCEPT !.port = p])
  BY DEF HasParts, Keeps
<1>2. Keeps(u, u)
  BY DEF Keeps
<1> QED
  BY <1>1, <1>2, Zenon DEF WithDefaultPort

\* What is written is meant.
LEMMA InitKept ==
  ASSUME Init
  PROVE  UrlKept
<1>1. PICK w \in Written :
        /\ url = Url(UrlText(w))
        /\ meant = [scheme |-> w.scheme, user |-> w.user, password |-> w.password, host |-> w.host, port |-> w.port,
                    path |-> w.path, query |-> w.query, added |-> <<>>, portSet |-> FALSE]
  BY DEF Init
<1> DEFINE ps == QueryParams(w.query)
           x == RootOf(w.path)
<1>2. PICK port : ReadUrl(UrlText(w)) = UrlOf(w.scheme, w.user, w.password, w.host, port, w.path, ps)
  BY WrittenIsRead DEF QueryParams
<1> DEFINE u == UrlOf(w.scheme, w.user, w.password, w.host, port, x, ps)
<1>3. url = WithDefaultPort(u)
  BY <1>1, <1>2, ConstructedUrl DEF RootOf
<1>4. w.host \in Seq(Line) /\ w.path \in Seq(Word) /\ Queried(w.query)
  BY TravelIs, Zenon
<1>5. ps \o <<>> = ps
  <2>1. ps \in Seq([name : Seq(Term), value : Seq(Term)])
    BY <1>4 DEF Queried, Parameters
  <2>2. \A S : \A s \in Seq(S) : s \o <<>> = s
    BY ConcatEmptySeq
  <2> QED
    BY <2>1, <2>2, Zenon
<1>6. /\ {"host", "path", "query", "added"} \subseteq DOMAIN meant
      /\ meant.host = w.host /\ meant.path = w.path /\ meant.query = w.query /\ meant.added = <<>>
  BY <1>1
<1> HIDE DEF ps, x
<1>7. HasParts(u) /\ u.host = w.host /\ u.path = x /\ u.params = ps
  BY DEF UrlOf, HasParts
<1> HIDE DEF u
<1>8. HasParts(url) /\ url.host = w.host /\ url.path = x /\ url.params = ps
  BY <1>3, <1>7, DefaultPortKeeps, Zenon DEF Keeps
<1>9. <<>> \in Seq(Added)
  BY EmptySeq
<1>10. QueryParams(meant.query) \o meant.added = url.params /\ RootOf(meant.path) = url.path
  BY <1>5, <1>6, <1>8, Zenon DEF ps, x
<1> QED
  BY <1>4, <1>6, <1>8, <1>9, <1>10, Zenon DEF UrlKept

\* Each setter changes what is meant and what is kept alike.
LEMMA EditKept ==
  ASSUME UrlKept, EditUrl
  PROVE  UrlKept'
<1>1. /\ HasParts(url) /\ {"host", "path", "query", "added"} \subseteq DOMAIN meant
      /\ (made \/ url.host = meant.host) /\ meant.host \in Seq(Line)
      /\ url.path = RootOf(meant.path) /\ meant.path \in Seq(Word)
      /\ url.params = QueryParams(meant.query) \o meant.added /\ Queried(meant.query) /\ meant.added \in Seq(Added)
  BY Zenon DEF UrlKept
<1>0. made' = made
  <2>1. \A u, m : Edit(u, m) => made' = made
    BY DEF Edit, kind
  <2> QED
    BY <2>1, Zenon DEF EditUrl, SetUrlScheme, SetAuthority, SetPort, SetPath, AddUrlParam
<1>2. CASE SetUrlScheme
  <2>1. PICK s \in Schemes : url' = SetScheme(url, s) /\ meant' = [meant EXCEPT !.scheme = s, !.portSet = @ /\ ~Known(s)]
    BY <1>2 DEF SetUrlScheme, Edit
  <2> DEFINE u == [url EXCEPT !.scheme = s]
  <2>2. HasParts(u) /\ u.host = url.host /\ u.path = url.path /\ u.params = url.params
    BY <1>1 DEF HasParts
  <2>3. url' = WithDefaultPort(u)
    BY <2>1 DEF SetScheme
  <2> HIDE DEF u
  <2>4. HasParts(url') /\ url'.host = url.host /\ url'.path = url.path /\ url'.params = url.params
    BY <2>2, <2>3, DefaultPortKeeps, Zenon DEF Keeps
  <2>5. /\ {"host", "path", "query", "added"} \subseteq DOMAIN meant'
        /\ meant'.host = meant.host /\ meant'.path = meant.path /\ meant'.query = meant.query /\ meant'.added = meant.added
    BY <1>0, <1>1, <2>1
  <2> QED
    BY <1>0, <1>1, <2>4, <2>5 DEF UrlKept
<1>3. CASE SetAuthority
  <2>1. PICK h \in Hosts : url' = [url EXCEPT !.host = h, !.user = <<>>, !.password = <<>>]
                           /\ meant' = [meant EXCEPT !.host = h, !.user = <<>>, !.password = <<>>]
    BY <1>3 DEF SetAuthority, Edit
  <2>2. HasParts(url') /\ url'.host = h /\ url'.path = url.path /\ url'.params = url.params
    BY <1>0, <1>1, <2>1 DEF HasParts
  <2>3. /\ {"host", "path", "query", "added"} \subseteq DOMAIN meant'
        /\ meant'.host = h /\ meant'.path = meant.path /\ meant'.query = meant.query /\ meant'.added = meant.added
    BY <1>0, <1>1, <2>1
  <2>4. h \in Seq(Line)
    BY TravelIs, Zenon
  <2> QED
    BY <1>0, <1>1, <2>2, <2>3, <2>4 DEF UrlKept
<1>4. CASE SetPort
  <2>1. PICK p \in Ports : url' = [url EXCEPT !.port = p] /\ meant' = [meant EXCEPT !.portSet = TRUE]
    BY <1>4 DEF SetPort, Edit
  <2>2. HasParts(url') /\ url'.host = url.host /\ url'.path = url.path /\ url'.params = url.params
    BY <1>0, <1>1, <2>1 DEF HasParts
  <2>3. /\ {"host", "path", "query", "added"} \subseteq DOMAIN meant'
        /\ meant'.host = meant.host /\ meant'.path = meant.path /\ meant'.query = meant.query /\ meant'.added = meant.added
    BY <1>0, <1>1, <2>1
  <2> QED
    BY <1>0, <1>1, <2>2, <2>3 DEF UrlKept
<1>5. CASE SetPath
  <2>1. PICK x \in Paths : url' = [url EXCEPT !.path = x] /\ meant' = [meant EXCEPT !.path = x]
    BY <1>5 DEF SetPath, Edit
  <2>2. HasParts(url') /\ url'.host = url.host /\ url'.path = x /\ url'.params = url.params
    BY <1>0, <1>1, <2>1 DEF HasParts
  <2>3. /\ {"host", "path", "query", "added"} \subseteq DOMAIN meant'
        /\ meant'.host = meant.host /\ meant'.path = x /\ meant'.query = meant.query /\ meant'.added = meant.added
    BY <1>0, <1>1, <2>1
  <2>4. x \in Seq(Word) /\ RootOf(x) = x
    BY TravelIs, Zenon DEF RootOf
  <2> QED
    BY <1>0, <1>1, <2>2, <2>3, <2>4 DEF UrlKept
<1>6. CASE AddUrlParam
  <2>1. PICK p \in NewParams : url' = [url EXCEPT !.params = Append(@, p)] /\ meant' = [meant EXCEPT !.added = Append(@, p)]
    BY <1>6 DEF AddUrlParam, Edit
  <2>2. HasParts(url') /\ url'.host = url.host /\ url'.path = url.path /\ url'.params = Append(url.params, p)
    BY <1>0, <1>1, <2>1 DEF HasParts
  <2>3. /\ {"host", "path", "query", "added"} \subseteq DOMAIN meant'
        /\ meant'.host = meant.host /\ meant'.path = meant.path /\ meant'.query = meant.query /\ meant'.added = Append(meant.added, p)
    BY <1>0, <1>1, <2>1
  <2>4. p \in Added
    BY TravelIs, Zenon
  <2>5. Append(meant.added, p) \in Seq(Added)
    <3> HIDE DEF Added
    <3> QED
      BY <1>0, <1>1, <2>4, AppendProperties
  <2>6. Append(url.params, p) = QueryParams(meant.query) \o Append(meant.added, p)
    <3> DEFINE R == [name : Seq(Wire), value : Seq(Wire)]
               q == QueryParams(meant.query)
               a == meant.added
    <3>1. q \in Seq(R) /\ a \in Seq(R) /\ p \in R
      <4>1. Seq(Term) \subseteq Seq(Wire) /\ Seq(Line \ Codes) \subseteq Seq(Wire)
        BY WordIs, SeqWider
      <4>2. [name : Seq(Term), value : Seq(Term)] \subseteq R /\ Added \subseteq R
        BY <4>1 DEF Added
      <4>3. q \in Seq([name : Seq(Term), value : Seq(Term)])
        BY <1>1 DEF Queried, Parameters
      <4> HIDE DEF R
      <4>4. \A A, B, t : A \subseteq B /\ t \in Seq(A) => t \in Seq(B)
        BY SeqWider, Zenon
      <4>5. p \in R
        BY <2>4, <4>2, Zenon
      <4>6. q \in Seq(R)
        BY <4>2, <4>3, <4>4, Zenon
      <4> QED
        BY <1>1, <4>2, <4>4, <4>5, <4>6, Zenon
    <3> HIDE DEF R, q, a
    <3>2. Append(q \o a, p) = q \o Append(a, p)
      <4>1. AppendsBehind(R)
        BY AppendBehind
      <4> QED
        BY <3>1, <4>1 DEF AppendsBehind
    <3> QED
      BY <1>1, <3>2, Zenon DEF q, a
  <2> QED
    BY <1>0, <1>1, <2>2, <2>3, <2>5, <2>6, Zenon DEF UrlKept
<1> QED
  BY <1>2, <1>3, <1>4, <1>5, <1>6 DEF EditUrl

\* The target of a request is the path, behind a "/".
LEMMA RootedPathIs ==
  ASSUME UrlKept
  PROVE  RootedPath \in Seq(Word) /\ RootedPath[1] = "/" /\ (RootedPath = meant.path \/ Tail(RootedPath) = meant.path)
<1> DEFINE x == url.path
           root == <<"/">>
<1>1. meant.path \in Seq(Word) /\ x = RootOf(meant.path)
  BY Zenon DEF UrlKept
<1>2. root \in Seq(Word) /\ root[1] = "/" /\ root # <<>> /\ Tail(root) = <<>>
  <2>1. "/" \in Word
    BY WireIs, Zenon DEF Word
  <2>2. \A S : \A e \in S : <<e>> \in Seq(S) /\ <<e>>[1] = e /\ <<e>> # <<>> /\ Tail(<<e>>) = <<>>
    OBVIOUS
  <2> QED
    BY <2>1, <2>2, Zenon
<1>3. x \in Seq(Word) /\ x # <<>>
  BY <1>1, <1>2, Zenon DEF RootOf
<1>4. CASE x[1] = "/"
  <2>1. RootedPath = x
    BY <1>3, <1>4, Zenon DEF RootedPath
  <2>2. x = meant.path \/ (x = root /\ meant.path = <<>>)
    BY <1>1, Zenon DEF RootOf
  <2> QED
    BY <1>2, <1>3, <1>4, <2>1, <2>2, Zenon
<1>5. CASE x[1] # "/"
  <2>1. RootedPath = root \o x
    BY <1>5, Zenon DEF RootedPath
  <2>2. x = meant.path
    BY <1>1, <1>2, <1>5, Zenon DEF RootOf
  <2> HIDE DEF root, x
  <2>3. IsList(root, 1) /\ IsList(x, Len(x))
    <3>1. IsList(root, 1)
      BY ShortLists, Zenon DEF root
    <3> QED
      BY <1>3, <3>1, ListIs, Zenon
  <2>4. Behind(root \o x, root, 1, x, Len(x))
    BY <2>3, ConcatBehind, Zenon
  <2>5. (root \o x)[1] = "/"
    <3>1. 1 \in 1 .. 1
      OBVIOUS
    <3> QED
      BY <1>2, <2>4, <3>1, Zenon DEF Behind
  <2>6. root \o x \in Seq(Word)
    BY <1>2, <1>3, ConcatProperties
  <2>7. Tail(root \o x) = x
    BY <1>2, <1>3, TailBehind DEF root
  <2> QED
    BY <2>1, <2>2, <2>5, <2>6, <2>7, Zenon
<1> QED
  BY <1>4, <1>5

\* What the request is made of.
Methods == {"GET", "POST", "PUT"}
RequestType == method \in Methods /\ params \in Seq(Given) /\ headers \in Seq(Header) /\ body \in Seq(Line)
EncodedHeader(h) == [h EXCEPT !.value = EncodeUrl(@)]
EncodedHeaders == [k \in 1 .. Len(headers) |-> EncodedHeader(headers[k])]

\* A part that is encoded can be sent in a line.
LEMMA EncodedInLine ==
  ASSUME NEW v \in Seq(Line)
  PROVE  EncodeUrl(v) \in Seq(Line)
<1>1. PICK n \in Nat : n = Len(v)
  BY LenProperties
<1>2. \A k \in 1 .. n : v[k] \in Line
  BY <1>1, ElementOfSeq
<1> DEFINE e == EncodeUrl(v)
<1>3. e = [k \in 1 .. n |-> IF v[k] \in DOMAIN Code THEN Code[v[k]] ELSE v[k]]
  BY <1>1 DEF EncodeUrl, Map
<1>4. \A c \in DOMAIN Code : Code[c] \in Line
  <2>1. Codes \subseteq Wire
    BY DEF Wire
  <2> QED
    BY <2>1, CodesAre, Zenon DEF Line
<1>5. \A k \in 1 .. n : (IF v[k] \in DOMAIN Code THEN Code[v[k]] ELSE v[k]) \in Line
  BY <1>2, <1>4, Zenon
<1> HIDE DEF e
<1>6. e \in Seq(Line)
  BY <1>3, <1>5
<1> QED
  BY <1>6 DEF e

\* So can headers; and plain ones are sent as they are.
LEMMA EncodedHeadersAre ==
  ASSUME headers \in Seq(Header)
  PROVE  EncodedHeaders \in Seq(Header) /\ (AllPlain(headers) => EncodedHeaders = headers)
<1>1. PICK n \in Nat : n = Len(headers)
  BY LenProperties
<1>2. EncodedHeaders = [k \in 1 .. n |-> EncodedHeader(headers[k])]
  BY <1>1 DEF EncodedHeaders
<1>3. ASSUME NEW k \in 1 .. n PROVE EncodedHeader(headers[k]) \in Header /\ (Plain(headers[k].value) => EncodedHeader(headers[k]) = headers[k])
  <2> DEFINE h == headers[k]
             e == EncodeUrl(h.value)
  <2>1. h \in Header
    BY <1>1, ElementOfSeq
  <2> HIDE DEF h
  <2>2. h.name \in Line /\ h.value \in Seq(Line) /\ h = [name |-> h.name, value |-> h.value]
    BY <2>1 DEF Header
  <2>3. e \in Seq(Line) /\ (Plain(h.value) => e = h.value)
    BY <2>2, EncodedInLine, PlainIsItself
  <2> HIDE DEF e
  <2>4. EncodedHeader(h) = [name |-> h.name, value |-> e]
    <3>1. EncodedHeader(h) = [h EXCEPT !.value = e]
      BY DEF EncodedHeader, e
    <3> QED
      BY <2>2, <3>1
  <2>5. [name |-> h.name, value |-> e] \in Header
    BY <2>2, <2>3 DEF Header
  <2> QED
    BY <2>2, <2>3, <2>4, <2>5, Zenon DEF h
<1>4. EncodedHeaders \in Seq(Header)
  <2>1. \A k \in 1 .. n : EncodedHeader(headers[k]) \in Header
    BY <1>3, Zenon
  <2> HIDE DEF Header
  <2> QED
    BY <1>2, <2>1
<1>5. ASSUME AllPlain(headers) PROVE EncodedHeaders = headers
  <2>1. \A k \in 1 .. n : EncodedHeader(headers[k]) = headers[k]
    BY <1>1, <1>3, <1>5, Zenon DEF AllPlain
  <2>2. \A k \in 1 .. n : EncodedHeaders[k] = headers[k]
    BY <1>2, <2>1
  <2>3. IsList(EncodedHeaders, n) /\ IsList(headers, n)
    <3>1. IsList(headers, n)
      BY <1>1, ListIs, Zenon
    <3>2. IsList(EncodedHeaders, n)
      BY <1>2 DEF IsList
    <3> QED
      BY <3>1, <3>2
  <2> QED
    BY <2>2, <2>3, SameLists
<1> QED
  BY <1>4, <1>5

\* The first line of a request, with its end.
LEMMA RequestLineIs ==
  ASSUME NEW x, NEW g
  PROVE  RequestLine(x \o g) = LineText(method, x, g) \o LineEnd
BY Zenon DEF RequestLine, LineText, Space

\* Of which method the request is.
LEMMA MethodIs ==
  ASSUME method \in Methods
  PROVE  method \in Line \ {Space} /\ method \in Line
BY WireIs, Zenon DEF Methods

\* Nothing in front of a text, or behind it, makes no other one.
LEMMA NothingAround ==
  ASSUME NEW C, NEW a \in Seq(C), NEW b \in Seq(C)
  PROVE  (<<>> \o a) \o b = (a \o b) \o <<>> /\ (<<>> \o a) \o b = a \o b
<1> DEFINE s == a \o b
<1>1. s \in Seq(C)
  BY ConcatProperties
<1> HIDE DEF s
<1>2. s \o <<>> = s /\ <<>> \o a = a
  BY <1>1, ConcatEmptySeq
<1> QED
  BY <1>2, Zenon DEF s

\* A text that is laid out may be sent.
LEMMA PartsSent ==
  ASSUME NEW t \in Seq(Line), NEW list \in Seq(Header)
  PROVE  t \o LineEnd \in Seq(Wire) /\ HeaderLines(list) \in Seq(Wire)
BY DividesLine, HeaderLinesDivide, Zenon DEF Divides

\* The parameters of the Url are in a line.
LEMMA UrlParamsType ==
  ASSUME UrlKept
  PROVE  url.params \in Seq([name : Seq(Term), value : Seq(Line)])
<1> DEFINE R == [name : Seq(Term), value : Seq(Line)]
           q == QueryParams(meant.query)
           a == meant.added
<1>1. Seq(Term) \subseteq Seq(Line) /\ Seq(Line \ Codes) \subseteq Seq(Line)
  <2>1. Term \subseteq Line /\ Line \ Codes \subseteq Line
    BY WordIs, Zenon
  <2> QED
    BY <2>1, SeqWider
<1>2. [name : Seq(Term), value : Seq(Term)] \subseteq R /\ Added \subseteq R
  BY <1>1 DEF Added
<1>3. q \in Seq([name : Seq(Term), value : Seq(Term)]) /\ a \in Seq(Added) /\ url.params = q \o a
  BY DEF UrlKept, Queried, Parameters
<1> HIDE DEF R, q, a
<1>4. \A A, B, t : A \subseteq B /\ t \in Seq(A) => t \in Seq(B)
  BY SeqWider, Zenon
<1>5. q \in Seq(R) /\ a \in Seq(R)
  BY <1>2, <1>3, <1>4, Zenon
<1>6. q \o a \in Seq(R)
  BY <1>5, ConcatProperties
<1> QED
  BY <1>3, <1>6, Zenon DEF R

\* The query of a GET goes on in the line behind the path.
LEMMA GetQueryAsks ==
  ASSUME RequestType, UrlKept
  PROVE  GetQuery \in Seq(Line) /\ Asks(GetQuery)
<1> DEFINE g == GetQuery
<1>1. g \in Seq(Line) /\ (g = <<>> \/ (Len(g) > 0 /\ g[1] = "?"))
  BY UrlParamsType, GetQueryType DEF RequestType
<1> HIDE DEF g
<1>2. CASE g = <<>>
  BY <1>1, <1>2, Zenon DEF Asks, g
<1>3. CASE Len(g) > 0 /\ g[1] = "?"
  <2>1. g # <<>>
    BY <1>3, EmptySeq
  <2>2. Tail(g) \in Seq(Line) /\ g = <<Head(g)>> \o Tail(g) /\ Head(g) = g[1]
    BY <1>1, <2>1, HeadTailProperties, ConcatProperties
  <2> QED
    BY <1>1, <1>3, <2>2, Zenon DEF Asks, g
<1> QED
  BY <1>1, <1>2, <1>3

\* What the server reads of a GET.
LEMMA GetIsRead ==
  ASSUME RequestType, UrlKept, data = <<>>, ComposeGet
  PROVE  IsRead(ReadRequest(data'), method, RootedPath, GetQuery, EncodedHeaders, <<>>)
<1> DEFINE x == RootedPath
           g == GetQuery
           t == LineText(method, x, g)
           list == EncodedHeaders
<1>1. data' = (<<>> \o RequestLine(x \o g)) \o HeaderLines(list)
  BY DEF ComposeGet, Map, EncodedHeaders, EncodedHeader
<1>2. /\ method \in Line \ {Space} /\ x \in Seq(Word) /\ g \in Seq(Line) /\ Asks(g)
      /\ list \in Seq(Header)
  BY MethodIs, RootedPathIs, GetQueryAsks, EncodedHeadersAre DEF RequestType
<1>3. RequestLine(x \o g) = t \o LineEnd
  BY RequestLineIs
<1> HIDE DEF x, g, list
<1>4. t \in Seq(Line)
  <2>1. Word \subseteq Line \ {Space}
    BY DEF Word
  <2>2. x \in Seq(Line \ {Space})
    BY <1>2, <2>1, SeqWider
  <2> QED
    BY <1>2, <2>2, WordsOfLine, Zenon
<1>5. (<<>> \o (t \o LineEnd)) \o HeaderLines(list) = ((t \o LineEnd) \o HeaderLines(list)) \o <<>>
  BY <1>2, <1>4, PartsSent, NothingAround
<1>6. <<>> \in Seq(Line)
  BY EmptySeq
<1>7. IsRead(ReadRequest((t \o LineEnd) \o HeaderLines(list) \o <<>>), method, x, g, list, <<>>)
  BY <1>2, <1>6, RequestRead
<1> QED
  BY <1>1, <1>3, <1>5, <1>7, Zenon DEF x, g, list

\* What the server reads of a POST or PUT.
LEMMA FormIsRead ==
  ASSUME RequestType, UrlKept, data = <<>>, ComposeForm, headers' \in Seq(Header), body' \in Seq(Line)
  PROVE  IsRead(ReadRequest(data'), method, RootedPath, <<>>, headers', body')
<1> DEFINE x == RootedPath
           t == LineText(method, x, <<>>)
           list == headers'
           b == body'
<1>1. data' = (<<>> \o RequestLine(x)) \o HeaderLines(list) \o b
  BY DEF ComposeForm
<1>2. method \in Line \ {Space} /\ x \in Seq(Word) /\ <<>> \in Seq(Line) /\ Asks(<<>>)
  <2>1. <<>> \in Seq(Line) /\ Asks(<<>>)
    BY EmptySeq DEF Asks
  <2> QED
    BY <2>1, MethodIs, RootedPathIs DEF RequestType
<1>3. RequestLine(x) = t \o LineEnd
  <2>1. x \o <<>> = x
    BY <1>2, ConcatEmptySeq
  <2> QED
    BY <2>1, RequestLineIs
<1> HIDE DEF x, list, b
<1>4. t \in Seq(Line)
  <2>1. Word \subseteq Line \ {Space}
    BY DEF Word
  <2>2. x \in Seq(Line \ {Space})
    BY <1>2, <2>1, SeqWider
  <2> QED
    BY <1>2, <2>2, WordsOfLine, Zenon
<1>5. list \in Seq(Header) /\ b \in Seq(Line)
  BY DEF list, b
<1>6. (<<>> \o (t \o LineEnd)) \o HeaderLines(list) = (t \o LineEnd) \o HeaderLines(list)
  BY <1>4, <1>5, PartsSent, NothingAround
<1>7. IsRead(ReadRequest((t \o LineEnd) \o HeaderLines(list) \o b), method, x, <<>>, list, b)
  BY <1>2, <1>5, RequestRead
<1> QED
  BY <1>1, <1>3, <1>6, <1>7, Zenon DEF x, list, b

\* Fields that are the entries of a list are the same.
LEMMA SameFields ==
  ASSUME NEW f, NEW list, NEW n, IsList(f, n), IsList(list, n), \A k \in 1 .. n : f[k] = Entry(list[k])
  PROVE  Same(f, list)
<1>1. Len(list) = n /\ f = [k \in 1 .. n |-> f[k]]
  BY ListIs, Zenon DEF IsList
<1>2. [k \in 1 .. n |-> f[k]] = [k \in 1 .. n |-> Entry(list[k])]
  OBVIOUS
<1> QED
  BY <1>1, <1>2 DEF Same, Map, Entry

\* What a parameter without a code in it is sent as, is what was given.
LEMMA PlainIsSent ==
  ASSUME NEW list \in Seq(Added), AllPlain(list)
  PROVE  list \in Parameters(Term) /\ \A k \in 1 .. Len(list) : Sent(list[k]) = Entry(list[k])
<1>1. PICK n \in Nat : n = Len(list)
  BY LenProperties
<1>2. ASSUME NEW k \in 1 .. n
      PROVE  list[k] \in [name : Seq(Term), value : Seq(Term)] /\ Sent(list[k]) = Entry(list[k])
  <2> DEFINE p == list[k]
             v == p.value
  <2>1. p \in Added /\ Plain(v)
    BY <1>1, ElementOfSeq DEF AllPlain
  <2> HIDE DEF p
  <2>2. p.name \in Seq(Term) /\ v \in Seq(Line \ Codes) /\ p = [name |-> p.name, value |-> v]
    BY <2>1 DEF Added
  <2> HIDE DEF v
  <2>3. v \in Seq(Line)
    <3>1. Line \ Codes \subseteq Line
      BY Zenon
    <3> QED
      BY <2>2, <3>1, SeqWider, Zenon
  <2>4. EncodeUrl(v) = v /\ v \in Seq(Safe) /\ Decode(v) = v
    <3>1. EncodeUrl(v) = v /\ v \in Seq(Safe)
      BY <2>1, <2>3, PlainIsItself, Zenon
    <3>2. Decode(EncodeUrl(v)) = v
      BY <2>2, EncodedIsDecoded, Zenon
    <3> QED
      BY <3>1, <3>2, Zenon
  <2>5. v \in Seq(Term)
    BY <2>4, WordIs, SeqWider, Zenon
  <2>6. p \in [name : Seq(Term), value : Seq(Term)]
    BY <2>2, <2>5
  <2>7. Sent(p) = Entry(p)
    BY <2>4, Zenon DEF Sent, Entry, v
  <2> QED
    BY <2>6, <2>7, Zenon DEF p
<1>3. list \in Parameters(Term)
  <2> DEFINE R == [name : Seq(Term), value : Seq(Term)]
  <2>1. \A k \in 1 .. n : list[k] \in R
    BY <1>2, Zenon
  <2> HIDE DEF R
  <2>2. list \in Seq(R)
    BY <1>1, <2>1, LenProperties
  <2> QED
    BY <2>2 DEF Parameters, R
<1> QED
  BY <1>1, <1>2, <1>3

\* Three lists behind each other, each with an entry for each one of its own.
LEMMA ThreeSame ==
  ASSUME NEW f, NEW a, NEW b, NEW c, NEW ps, NEW qs, NEW m, NEW n, NEW l,
         IsList(a, m), IsList(b, n), IsList(c, l), Behind(ps, qs, n, c, l), IsList(f, m + (n + l)),
         \A k \in 1 .. m : f[k] = Entry(a[k]),
         \A k \in 1 .. n + l : f[m + k] = Sent(ps[k]),
         \A k \in 1 .. n : b[k] = Sent(qs[k]),
         \A k \in 1 .. l : Sent(c[k]) = Entry(c[k])
  PROVE  Same(f, a \o b \o c)
<1> DEFINE ab == a \o b
           s == ab \o c
<1>1. Behind(ab, a, m, b, n)
  BY ConcatBehind, Zenon
<1> HIDE DEF ab
<1>2. IsList(ab, m + n)
  BY <1>1, Zenon DEF Behind
<1>3. Behind(s, ab, m + n, c, l)
  BY <1>2, ConcatBehind, Zenon
<1> HIDE DEF s
<1>4. m \in Nat /\ n \in Nat /\ l \in Nat
  BY Zenon DEF IsList
<1>5. ASSUME NEW k \in 1 .. m PROVE f[k] = Entry(s[k])
  <2>1. k \in 1 .. m + n
    BY <1>4
  <2>2. s[k] = ab[k] /\ ab[k] = a[k]
    BY <1>1, <1>3, <2>1, Zenon DEF Behind
  <2> QED
    BY <2>2, Zenon
<1>6. \A p : Entry(Sent(p)) = Sent(p)
  BY DEF Entry, Sent
<1>7. ASSUME NEW k \in 1 .. n PROVE f[m + k] = Entry(s[m + k])
  <2>1. m + k \in 1 .. m + n /\ k \in 1 .. n + l
    BY <1>4
  <2>2. s[m + k] = ab[m + k] /\ ab[m + k] = b[k] /\ ps[k] = qs[k]
    BY <1>1, <1>3, <2>1, Zenon DEF Behind
  <2>3. f[m + k] = Sent(ps[k]) /\ b[k] = Sent(qs[k])
    BY <2>1
  <2> QED
    BY <1>6, <2>2, <2>3, Zenon
<1>8. ASSUME NEW k \in 1 .. l PROVE f[m + (n + k)] = Entry(s[m + (n + k)])
  <2>1. n + k \in 1 .. n + l /\ (m + n) + k = m + (n + k)
    BY <1>4
  <2>2. s[(m + n) + k] = c[k] /\ ps[n + k] = c[k]
    BY <1>3, Zenon DEF Behind
  <2>3. f[m + (n + k)] = Sent(ps[n + k]) /\ Sent(c[k]) = Entry(c[k])
    BY <2>1
  <2> QED
    BY <2>1, <2>2, <2>3, Zenon
<1>9. ASSUME NEW k \in 1 .. m + (n + l) PROVE f[k] = Entry(s[k])
  <2>1. CASE k <= m
    BY <1>4, <1>5, <2>1
  <2>2. CASE k > m /\ k <= m + n
    <3>1. k - m \in 1 .. n /\ m + (k - m) = k
      BY <1>4, <2>2
    <3>2. f[m + (k - m)] = Entry(s[m + (k - m)])
      BY <1>7, <3>1, Zenon
    <3> QED
      BY <3>1, <3>2, Zenon
  <2>3. CASE k > m + n
    <3>1. k - (m + n) \in 1 .. l /\ m + (n + (k - (m + n))) = k
      BY <1>4, <2>3
    <3>2. f[m + (n + (k - (m + n)))] = Entry(s[m + (n + (k - (m + n)))])
      BY <1>8, <3>1, Zenon
    <3> QED
      BY <3>1, <3>2, Zenon
  <2> QED
    BY <1>4, <2>1, <2>2, <2>3
<1>10. IsList(s, m + (n + l))
  <2>1. IsList(s, (m + n) + l)
    BY <1>3, Zenon DEF Behind
  <2>2. (m + n) + l = m + (n + l)
    BY <1>4
  <2> QED
    BY <2>1, <2>2, Zenon
<1>11. Same(f, s)
  BY <1>9, <1>10, SameFields
<1> QED
  BY <1>11 DEF s, ab

\* The parameters that the server reads of a GET.
LEMMA GetParamsRead ==
  ASSUME RequestType, UrlKept, AllPlain(meant.added),
         NEW r, \A q \in Seq(Word) : GetQuery = (IF q = <<>> THEN <<>> ELSE <<"?">> \o q) => r = Fields(q)
  PROVE  Same(r, params \o Fields(meant.query) \o meant.added)
<1> DEFINE qs == QueryParams(meant.query)
           b == Fields(meant.query)
           c == meant.added
           ps == url.params
<1>1. PICK m \in Nat : m = Len(params) /\ IsList(params, m)
  BY LenProperties, ListIs DEF RequestType
<1>2. qs \in Parameters(Term) /\ IsList(b, Len(qs)) /\ (\A k \in 1 .. Len(qs) : b[k] = Sent(qs[k])) /\ ps = qs \o c /\ c \in Seq(Added)
  BY Zenon DEF UrlKept, Queried
<1>3. c \in Parameters(Term) /\ \A k \in 1 .. Len(c) : Sent(c[k]) = Entry(c[k])
  BY <1>2, PlainIsSent
<1> HIDE DEF qs, b, c
<1>4. PICK n \in Nat, l \in Nat : n = Len(qs) /\ l = Len(c) /\ IsList(qs, n) /\ IsList(c, l)
  BY <1>2, <1>3, LenProperties, ListIs DEF Parameters
<1>5. Behind(ps, qs, n, c, l)
  BY <1>2, <1>4, ConcatBehind, Zenon
<1>6. ps \in Parameters(Term) /\ Len(ps) = n + l
  <2> DEFINE R == [name : Seq(Term), value : Seq(Term)]
  <2>1. qs \in Seq(R) /\ c \in Seq(R)
    BY <1>2, <1>3 DEF Parameters
  <2> HIDE DEF R
  <2>2. qs \o c \in Seq(R)
    BY <2>1, ConcatProperties
  <2>3. Len(ps) = n + l
    BY <1>5, Zenon DEF Behind
  <2> QED
    BY <1>2, <2>2, <2>3, Zenon DEF Parameters, R
<1>7. PICK q \in Seq(Word) : GetQuery = (IF q = <<>> THEN <<>> ELSE <<"?">> \o q) /\ QueryFields(q, params, ps)
  BY <1>6, GetQueryIs DEF RequestType
<1>8. r = Fields(q)
  BY <1>7, Zenon
<1>9. /\ IsList(r, m + (n + l))
      /\ \A k \in 1 .. m : r[k] = Entry(params[k])
      /\ \A k \in 1 .. n + l : r[m + k] = Sent(ps[k])
  BY <1>1, <1>6, <1>7, <1>8, Zenon DEF QueryFields
<1> HIDE DEF ps
<1>10. Same(r, params \o b \o c)
  BY <1>1, <1>2, <1>3, <1>4, <1>5, <1>9, ThreeSame, Zenon
<1> QED
  BY <1>10 DEF b, c

ContentType == HeaderValue(headers, "content-type")
FormPair(p) == p.name \o <<"=">> \o FormValue(p.value)
FormEntry(p) == [name |-> p.name, value |-> FormValue(p.value)]
FormPairs == [k \in 1 .. Len(params) |-> FormPair(params[k])]
FormEntries == [k \in 1 .. Len(params) |-> FormEntry(params[k])]

\* The value of a parameter is sent in one of three ways.
LEMMA FormValueIs ==
  ASSUME NEW v
  PROVE  /\ ContentType = <<"urlencoded">> => FormValue(v) = EncodeUrl(v)
         /\ ContentType # <<"urlencoded">> /\ ContentType = <<"multipart">> => FormValue(v) = <<>>
         /\ ContentType # <<"urlencoded">> /\ ContentType # <<"multipart">> => FormValue(v) = v
<1> DEFINE a == ContentType = <<"urlencoded">>
           b == ContentType = <<"multipart">>
<1>1. FormValue(v) = CASE a -> EncodeUrl(v) [] b -> <<>> [] OTHER -> v
  BY DEF FormValue, ContentType
<1>2. ~ (a /\ b)
  <2>1. \A x, y : <<x>> = <<y>> => x = y
    OBVIOUS
  <2>2. "urlencoded" # "multipart"
    BY Zenon
  <2> QED
    BY <2>1, <2>2, Zenon
<1> HIDE DEF a, b
<1>3. (a => FormValue(v) = EncodeUrl(v)) /\ (~a /\ b => FormValue(v) = <<>>) /\ (~a /\ ~b => FormValue(v) = v)
  BY <1>1, <1>2
<1> QED
  BY <1>3 DEF a, b

\* The form is joined of its pairs, and can be sent in a line.
LEMMA FormType ==
  ASSUME RequestType
  PROVE  Form = Join(FormPairs, "&") /\ Form \in Seq(Line)
<1>1. PICK n \in Nat : n = Len(params)
  BY LenProperties DEF RequestType
<1>2. Form = Join(FormPairs, "&")
  BY DEF Form, Map, FormPairs, FormPair
<1>3. <<"=">> \in Seq(Line) /\ "&" \in Line
  <2>1. \A S : \A e \in S : <<e>> \in Seq(S)
    OBVIOUS
  <2> QED
    BY <2>1, WireIs, Zenon
<1>4. ASSUME NEW k \in 1 .. n PROVE FormPair(params[k]) \in Seq(Line)
  <2> DEFINE p == params[k]
             w == FormValue(p.value)
  <2>1. p \in Given
    BY <1>1, ElementOfSeq DEF RequestType
  <2> HIDE DEF p
  <2>2. p.name \in Seq(Term) /\ p.value \in Seq(Line \ Codes)
    BY <2>1 DEF Given
  <2>3. p.name \in Seq(Line) /\ p.value \in Seq(Line)
    <3>1. Term \subseteq Line /\ Line \ Codes \subseteq Line
      BY WordIs, Zenon
    <3> QED
      BY <2>2, <3>1, SeqWider, Zenon
  <2>4. w \in Seq(Line)
    <3>1. EncodeUrl(p.value) \in Seq(Line)
      BY <2>3, EncodedInLine
    <3>2. <<>> \in Seq(Line)
      BY EmptySeq
    <3> QED
      BY <2>3, <3>1, <3>2, FormValueIs, Zenon
  <2> HIDE DEF w
  <2>5. p.name \o <<"=">> \o w \in Seq(Line)
    <3>1. p.name \o <<"=">> \in Seq(Line)
      BY <1>3, <2>3, ConcatProperties
    <3> QED
      BY <2>4, <3>1, ConcatProperties
  <2> QED
    BY <2>5, Zenon DEF FormPair, p, w
<1>5. FormPairs \in Seq(Seq(Line))
  <2>1. FormPairs = [k \in 1 .. n |-> FormPair(params[k])]
    BY <1>1 DEF FormPairs
  <2> QED
    BY <1>4, <2>1
<1> QED
  BY <1>2, <1>3, <1>5, JoinType

\* The header that says how long the body is.
LengthHeader(b) == [name |-> "content-length", value |-> LengthText(b)]

\* It is the last one, behind those that were given.
LEMMA LengthIsSent ==
  ASSUME NEW b \in Seq(Line), headers \in Seq(Header)
  PROVE  LET list == Append(headers, LengthHeader(b))
         IN list \in Seq(Header) /\ Front(list) = headers /\ Last(list) = LengthHeader(b)
<1> DEFINE h == LengthHeader(b)
<1>1. Len(b) \in Nat
  BY LenProperties
<1>2. LengthText(b) \in Seq(Line)
  <2> DEFINE powers == <<1000000000, 100000000, 10000000, 1000000, 100000, 10000, 1000, 100, 10, 1>>
  <2>1. powers \in Seq(Nat \ {0}) /\ powers # <<>>
    BY SMT
  <2>2. LengthText(b) = DecimalOf(Len(b), powers)
    BY SMT DEF LengthText
  <2> HIDE DEF powers
  <2>3. LengthText(b) \in Seq({Digits[j] : j \in 0 .. 9})
    BY <1>1, <2>1, <2>2, DecimalOfType DEF DigitText
  <2>4. {Digits[k] : k \in 0 .. 9} \subseteq Line
    BY WireIs, Zenon
  <2> QED
    BY <2>3, <2>4, SeqWider, Zenon
<1>3. "content-length" \in Line
  BY WireIs, Zenon
<1>4. h \in Header
  BY <1>2, <1>3 DEF LengthHeader, Header
<1> HIDE DEF h, Header
<1>5. Append(headers, h) = headers \o <<h>>
  BY <1>4, AppendIsConcat
<1>6. Front(headers \o <<h>>) = headers /\ Last(headers \o <<h>>) = h /\ headers \o <<h>> \in Seq(Header)
  BY <1>4, FrontIs
<1> QED
  BY <1>5, <1>6 DEF h

\* What is composed of a POST or PUT is read with all its headers.
LEMMA FormIsComposed ==
  ASSUME RequestType, UrlKept, data = <<>>, ComposeForm
  PROVE  /\ IsRead(ReadRequest(data'), method, RootedPath, <<>>, headers', body')
         /\ headers' \in Seq(Header) /\ body' \in Seq(Line)
         /\ Front(headers') = headers /\ Last(headers') = LengthHeader(body')
         /\ body' = IF body = <<>> THEN Form ELSE body
<1>1. body' = (IF body = <<>> THEN Form ELSE body) /\ headers' = Append(headers, LengthHeader(body'))
  BY DEF ComposeForm, LengthHeader
<1>2. body' \in Seq(Line)
  BY <1>1, FormType, Zenon DEF RequestType
<1>3. headers' \in Seq(Header) /\ Front(headers') = headers /\ Last(headers') = LengthHeader(body')
  <2> DEFINE b == body'
             list == Append(headers, LengthHeader(b))
  <2>1. b \in Seq(Line) /\ headers \in Seq(Header)
    BY <1>2 DEF RequestType
  <2> HIDE DEF b
  <2>2. list \in Seq(Header) /\ Front(list) = headers /\ Last(list) = LengthHeader(b)
    BY <2>1, LengthIsSent
  <2> QED
    BY <1>1, <2>2, Zenon DEF b
<1>4. IsRead(ReadRequest(data'), method, RootedPath, <<>>, headers', body')
  BY <1>2, <1>3, FormIsRead
<1> QED
  BY <1>1, <1>2, <1>3, <1>4

\* The fields of the form are the parameters, if the content type does not keep their
\* values out of it.
LEMMA FormFields ==
  ASSUME RequestType,
         ContentType = <<"urlencoded">> \/ (ContentType # <<"multipart">> /\ AllPlain(params))
  PROVE  Same(Fields(Form), params)
<1>1. PICK n \in Nat : n = Len(params) /\ IsList(params, n) /\ (n = 0 <=> params = <<>>)
  BY LenProperties, ListIs, EmptySeq DEF RequestType
<1>2. ASSUME NEW k \in 1 .. n
      PROVE  FormEntry(params[k]) \in [name : Seq(Term), value : Seq(Term)] /\ Sent(FormEntry(params[k])) = Entry(params[k])
  <2> DEFINE p == params[k]
             v == p.value
             w == FormValue(v)
  <2>1. p \in Given /\ (AllPlain(params) => Plain(v))
    BY <1>1, ElementOfSeq DEF RequestType, AllPlain
  <2> HIDE DEF p
  <2>2. p.name \in Seq(Term) /\ v \in Seq(Line \ Codes)
    BY <2>1 DEF Given
  <2> HIDE DEF v
  <2>3. w = EncodeUrl(v)
    <3>1. v \in Seq(Line)
      <4>1. Line \ Codes \subseteq Line
        BY Zenon
      <4> QED
        BY <2>2, <4>1, SeqWider, Zenon
    <3>2. Plain(v) => EncodeUrl(v) = v
      BY <3>1, PlainIsItself, Zenon
    <3>3. CASE ContentType = <<"urlencoded">>
      BY <3>3, FormValueIs, Zenon
    <3>4. CASE ContentType # <<"urlencoded">>
      BY <2>1, <3>2, <3>4, FormValueIs, Zenon
    <3> QED
      BY <3>3, <3>4
  <2>4. EncodeUrl(v) \in Seq(Safe) /\ Decode(EncodeUrl(v)) = v
    BY <2>2, EncodedIsDecoded, Zenon
  <2> HIDE DEF w
  <2>5. w \in Seq(Term) /\ Decode(w) = v
    BY <2>3, <2>4, WordIs, SeqWider, Zenon
  <2>6. FormEntry(p) = [name |-> p.name, value |-> w]
    BY DEF FormEntry, v, w
  <2>7. FormEntry(p) \in [name : Seq(Term), value : Seq(Term)] /\ FormEntry(p).name = p.name /\ FormEntry(p).value = w
    BY <2>2, <2>5, <2>6
  <2>8. Sent(FormEntry(p)) = Entry(p)
    BY <2>5, <2>7, Zenon DEF Sent, Entry, v
  <2> QED
    BY <2>7, <2>8, Zenon DEF p
<1>3. CASE n = 0
  <2>1. FormPairs = <<>> /\ params = <<>>
    BY <1>1, <1>3 DEF FormPairs
  <2>2. Join(<<>>, "&") = <<>>
    <3>1. <<>> \in Seq(Seq({})) /\ FlattenSeq(<<>>) = <<>> /\ Len(<<>>) <= 1
      BY EmptySeq DEF FlattenSeq
    <3>2. Join(<<>>, "&") = FlattenSeq(<<>>)
      BY <3>1, JoinShort
    <3> QED
      BY <3>1, <3>2
  <2>3. Fields(Form) = <<>>
    BY <2>1, <2>2, FormType, Zenon DEF Fields
  <2>4. IsList(<<>>, 0) /\ 1 .. 0 = {}
    BY DEF IsList
  <2>5. Same(<<>>, <<>>)
    BY <2>4, SameFields
  <2> QED
    BY <2>1, <2>3, <2>5, Zenon
<1>4. CASE n # 0
  <2> DEFINE list == FormEntries
             R == [name : Seq(Term), value : Seq(Term)]
  <2>1. list = [k \in 1 .. n |-> FormEntry(params[k])]
    BY <1>1 DEF FormEntries
  <2>2. \A k \in 1 .. n : FormEntry(params[k]) \in R
    BY <1>2, Zenon
  <2> HIDE DEF R, list
  <2>3. list \in Seq(R) /\ Len(list) = n /\ \A k \in 1 .. n : list[k] = FormEntry(params[k])
    BY <2>1, <2>2
  <2>4. list \in Parameters(Term) /\ list # <<>>
    <3>1. list # <<>>
      BY <1>4, <2>3, EmptySeq
    <3> QED
      BY <2>3, <3>1, Zenon DEF Parameters, R
  <2>5. Pairs(list) = FormPairs
    <3>1. \A p : Pair(FormEntry(p)) = FormPair(p)
      BY DEF Pair, FormEntry, FormPair
    <3>2. \A k \in 1 .. n : Pair(list[k]) = FormPair(params[k])
      BY <2>3, <3>1, Zenon
    <3>3. Pairs(list) = [k \in 1 .. n |-> Pair(list[k])] /\ FormPairs = [k \in 1 .. n |-> FormPair(params[k])]
      BY <1>1, <2>3, Zenon DEF Pairs, FormPairs
    <3> QED
      BY <3>2, <3>3
  <2>6. Writes(Form, Pairs(list))
    BY <2>4, <2>5, PairsWrite, FormType, Zenon
  <2>7. Len(Pairs(list)) = n /\ \A k \in 1 .. n : FieldOf(Pairs(list)[k]) = Sent(list[k])
    BY <2>3, <2>4, UrlPairs
  <2>8. IsList(Fields(Form), n) /\ \A k \in 1 .. n : Fields(Form)[k] = FieldOf(Pairs(list)[k])
    BY <2>6, <2>7, WritesFields
  <2>9. \A k \in 1 .. n : Fields(Form)[k] = Entry(params[k])
    BY <1>2, <2>3, <2>7, <2>8, Zenon
  <2> QED
    BY <1>1, <2>8, <2>9, SameFields
<1> QED
  BY <1>3, <1>4

\* The inductive invariant: nothing is composed before the request was made, the Url and
\* the request are made of what can travel, and the host is the first header up to then.
HostFirst == made /\ ~error => headers # <<>> /\ headers[1] = [name |-> "host", value |-> Bare(meant.host)]
TInv ==
    /\ UrlKept /\ RequestType
    /\ composed => made
    /\ ~composed => data = <<>> /\ HostFirst
    /\ ServerReadsGivenRequest

\* A text that is read as the request is one that was given.
LEMMA GivenIsRead ==
  ASSUME TInv, ~composed, made, Compose,
         given' = [params |-> params, headers |-> headers, body |-> body],
         UNCHANGED <<method, error, meant>>
  PROVE  ServerReadsGivenRequest'
<1> DEFINE read == ReadRequest(data')
           type == HeaderValue(given'.headers, "content-type")
<1>1. /\ UrlKept /\ RequestType /\ data = <<>> /\ HostFirst
      /\ given'.params = params /\ given'.headers = headers /\ given'.body = body
      /\ method' = method /\ error' = error /\ meant' = meant
  BY DEF TInv
<1>2. type = ContentType
  BY <1>1, Zenon DEF ContentType
<1>3. RootedPath[1] = "/" /\ (RootedPath = meant.path \/ Tail(RootedPath) = meant.path)
  BY <1>1, RootedPathIs
<1>4. SUFFICES /\ read.method = method
               /\ read.path[1] = "/" /\ (read.path = meant.path \/ Tail(read.path) = meant.path)
               /\ ~error => headers[1] = [name |-> "host", value |-> Bare(meant.host)]
               /\ method = "GET" =>
                    /\ AllPlain(meant.added) => Same(read.params, params \o Fields(meant.query) \o meant.added)
                    /\ AllPlain(headers) => read.headers = headers
                    /\ read.body = <<>>
               /\ method # "GET" =>
                    /\ Front(read.headers) = headers
                    /\ Last(read.headers) = [name |-> "content-length", value |-> LengthText(read.body)]
                    /\ body # <<>> => read.body = body
                    /\ body = <<>> /\ (type = <<"urlencoded">> \/ (type # <<"multipart">> /\ AllPlain(params))) =>
                          Same(Fields(read.body), params)
  BY <1>1 DEF ServerReadsGivenRequest
<1> HIDE DEF read, type
<1>5. ~error => headers[1] = [name |-> "host", value |-> Bare(meant.host)]
  BY <1>1 DEF HostFirst
<1>6. CASE method = "GET"
  <2>1. IsRead(read, method, RootedPath, GetQuery, EncodedHeaders, <<>>)
    <3>1. ComposeGet
      BY <1>6 DEF Compose
    <3> QED
      BY <1>1, <3>1, GetIsRead DEF read
  <2>2. /\ read.method = method /\ read.path = RootedPath /\ read.headers = EncodedHeaders /\ read.body = <<>>
        /\ \A q \in Seq(Word) : GetQuery = (IF q = <<>> THEN <<>> ELSE <<"?">> \o q) => read.params = Fields(q)
    BY <2>1, Zenon DEF IsRead
  <2>3. AllPlain(meant.added) => Same(read.params, params \o Fields(meant.query) \o meant.added)
    BY <1>1, <2>2, GetParamsRead
  <2>4. AllPlain(headers) => read.headers = headers
    BY <1>1, <2>2, EncodedHeadersAre DEF RequestType
  <2> QED
    BY <1>1, <1>3, <1>5, <1>6, <2>2, <2>3, <2>4, Zenon
<1>7. CASE method # "GET"
  <2>1. /\ IsRead(read, method, RootedPath, <<>>, headers', body')
        /\ Front(headers') = headers /\ Last(headers') = LengthHeader(body')
        /\ body' = IF body = <<>> THEN Form ELSE body
    <3>1. ComposeForm
      BY <1>7 DEF Compose
    <3> QED
      BY <1>1, <3>1, FormIsComposed DEF read
  <2>2. read.method = method /\ read.path = RootedPath /\ read.headers = headers' /\ read.body = body'
    BY <2>1, Zenon DEF IsRead
  <2>3. Front(read.headers) = headers /\ Last(read.headers) = [name |-> "content-length", value |-> LengthText(read.body)]
    BY <2>1, <2>2, Zenon DEF LengthHeader
  <2>4. body # <<>> => read.body = body
    BY <2>1, <2>2, Zenon
  <2>5. body = <<>> /\ (type = <<"urlencoded">> \/ (type # <<"multipart">> /\ AllPlain(params))) => Same(Fields(read.body), params)
    BY <1>1, <1>2, <2>1, <2>2, FormFields, Zenon
  <2> QED
    BY <1>1, <1>3, <1>5, <1>7, <2>2, <2>3, <2>4, <2>5, Zenon
<1> QED
  BY <1>6, <1>7

\* Before it is made, nothing was given.
LEMMA InitTInv ==
  ASSUME Init
  PROVE  TInv
<1>1. method \in {"GET", "POST", "PUT"} /\ ~made /\ ~composed /\ params = <<>> /\ headers = <<>> /\ body = <<>> /\ data = <<>>
  BY DEF Init
<1>2. RequestType
  BY <1>1, EmptySeq DEF RequestType, Methods
<1> QED
  BY <1>1, <1>2, InitKept DEF TInv, HostFirst, ServerReadsGivenRequest

\* What stays as it is.
LEMMA StaysRead ==
  ASSUME ServerReadsGivenRequest, UNCHANGED <<composed, data, given, method, error>>, composed => UNCHANGED meant
  PROVE  ServerReadsGivenRequest'
BY Zenon DEF ServerReadsGivenRequest

\* A name without its "www." is a name.
LEMMA BareIs ==
  ASSUME NEW S, NEW text \in Seq(S)
  PROVE  Bare(text) \in Seq(S)
<1>1. CASE Len(text) >= 4
  <2>1. SubSeq(text, 5, Len(text)) \in Seq(S)
    BY <1>1, SubSeqProperties
  <2> QED
    BY <2>1 DEF Bare
<1> QED
  BY <1>1 DEF Bare

\* Nothing that was given is changed once the request was composed, and no step but
\* the first processing composes it.
LEMMA NextTInv ==
  ASSUME TInv, [Next]_vars
  PROVE  TInv'
<1>1. UrlKept /\ RequestType /\ ServerReadsGivenRequest
  BY DEF TInv
<1>2. CASE EditUrl
  <2>1. ~made /\ UNCHANGED <<kind, request>>
    <3>1. \A u, m : Edit(u, m) => ~made /\ UNCHANGED <<kind, request>>
      BY DEF Edit
    <3> QED
      BY <1>2, <3>1, Zenon DEF EditUrl, SetUrlScheme, SetAuthority, SetPort, SetPath, AddUrlParam
  <2>2. UNCHANGED <<method, made, error, ssl, params, headers, body, composed, data, given>> /\ ~made'
    BY <2>1 DEF kind, request
  <2>3. UrlKept' /\ RequestType'
    BY <1>1, <1>2, <2>2, EditKept DEF RequestType
  <2>4. ~composed
    BY <2>1 DEF TInv
  <2>5. ServerReadsGivenRequest'
    BY <1>1, <2>2, <2>4, StaysRead
  <2> QED
    BY <2>2, <2>3, <2>4, <2>5 DEF TInv, HostFirst
<1>3. CASE MakeRequest
  <2>1. /\ ~made /\ made' = TRUE /\ error' = ~ForHttp
        /\ url' = [url EXCEPT !.host = Bare(@)]
        /\ headers' = (IF ForHttp THEN <<[name |-> "host", value |-> url'.host]>> ELSE <<>>)
        /\ UNCHANGED <<meant, method, params, body, composed, data, given>>
    BY <1>3 DEF MakeRequest
  <2>2. url'.host = Bare(meant.host) /\ UrlKept'
    <3>1. HasParts(url) /\ url.host = meant.host
      BY <1>1, <2>1 DEF UrlKept
    <3>2. HasParts(url') /\ url'.host = Bare(url.host) /\ url'.path = url.path /\ url'.params = url.params
      BY <2>1, <3>1 DEF HasParts
    <3> QED
      BY <1>1, <2>1, <3>1, <3>2, Zenon DEF UrlKept
  <2> DEFINE h == [name |-> "host", value |-> url'.host]
  <2>3. h \in Header
    <3>1. Bare(meant.host) \in Seq(Line)
      BY <1>1, BareIs DEF UrlKept
    <3>2. "host" \in Line
      BY WireIs, Zenon
    <3> QED
      BY <2>2, <3>1, <3>2 DEF Header
  <2>4. h = [name |-> "host", value |-> Bare(meant.host)]
    BY <2>2
  <2> HIDE DEF h, Header
  <2>5. <<h>> \in Seq(Header) /\ <<>> \in Seq(Header) /\ <<h>> # <<>> /\ <<h>>[1] = h
    BY <2>3
  <2>6. RequestType'
    BY <1>1, <2>1, <2>5, Zenon DEF RequestType, h
  <2>7. HostFirst'
    BY <2>1, <2>4, <2>5, Zenon DEF HostFirst, h
  <2>8. ~composed /\ ~composed' /\ data' = <<>>
    BY <2>1 DEF TInv
  <2> QED
    BY <2>1, <2>2, <2>6, <2>7, <2>8, Zenon DEF TInv, ServerReadsGivenRequest
<1>4. CASE Add
  <2>1. made /\ UNCHANGED <<url, meant, method, made, error, composed, data, given>>
    BY <1>4 DEF Add, setup, kind
  <2>2. UrlKept'
    BY <1>1, <2>1, Zenon DEF UrlKept
  <2>3. ServerReadsGivenRequest'
    BY <1>1, <2>1, StaysRead
  <2>4. \A S : \A s \in Seq(S), e \in S : Append(s, e) \in Seq(S) /\ (s # <<>> => Append(s, e) # <<>> /\ Append(s, e)[1] = s[1])
    BY AppendProperties, LenProperties, EmptySeq
  <2>5. RequestType' /\ (HostFirst => HostFirst')
    <3>1. CASE \E p \in NewParams : params' = (IF p.name = <<>> THEN params ELSE Append(params, p)) /\ UNCHANGED <<headers, body>>
      <4>1. PICK p \in NewParams : params' = (IF p.name = <<>> THEN params ELSE Append(params, p)) /\ UNCHANGED <<headers, body>>
        BY <3>1
      <4>2. p.name # <<>> => p \in Given
        <5>1. p \in Added
          BY TravelIs, Zenon
        <5> QED
          BY <5>1 DEF Added, Given
      <4>3. params' \in Seq(Given)
        BY <1>1, <2>4, <4>1, <4>2, Zenon DEF RequestType
      <4> QED
        BY <1>1, <2>1, <4>1, <4>3, Zenon DEF RequestType, HostFirst
    <3>2. CASE \E h \in NewHeaders : headers' = (IF h.name = "" THEN headers ELSE Append(headers, h)) /\ UNCHANGED <<params, body>>
      <4>1. PICK h \in NewHeaders : headers' = (IF h.name = "" THEN headers ELSE Append(headers, h)) /\ UNCHANGED <<params, body>>
        BY <3>2
      <4>2. h \in Header
        BY TravelIs, Zenon
      <4>3. headers' \in Seq(Header) /\ (headers # <<>> => headers' # <<>> /\ headers'[1] = headers[1])
        BY <1>1, <2>4, <4>1, <4>2, Zenon DEF RequestType
      <4> QED
        BY <1>1, <2>1, <4>1, <4>3, Zenon DEF RequestType, HostFirst
    <3>3. CASE method # "GET" /\ body' \in Bodies /\ UNCHANGED <<params, headers>>
      <4>1. body' \in Seq(Line)
        BY <3>3, TravelIs, Zenon
      <4> QED
        BY <1>1, <2>1, <3>3, <4>1, Zenon DEF RequestType, HostFirst
    <3> QED
      BY <1>4, <3>1, <3>2, <3>3 DEF Add
  <2> QED
    BY <2>1, <2>2, <2>3, <2>5, Zenon DEF TInv
<1>5. CASE Send
  <2>1. made /\ UNCHANGED <<url, meant, method, made, error>> /\ PrepareRequest
    BY <1>5 DEF Send, setup, kind
  <2>2. UrlKept'
    BY <1>1, <2>1, Zenon DEF UrlKept
  <2>3. CASE composed
    <3>1. UNCHANGED <<params, headers, body, composed, data, given>>
      BY <2>1, <2>3 DEF PrepareRequest, request
    <3>2. ServerReadsGivenRequest'
      BY <1>1, <2>1, <3>1, StaysRead
    <3> QED
      BY <1>1, <2>1, <2>2, <2>3, <3>1, <3>2, Zenon DEF TInv, RequestType
  <2>4. CASE ~composed
    <3>1. /\ Compose /\ given' = [params |-> params, headers |-> headers, body |-> body]
          /\ composed' = TRUE /\ UNCHANGED params
      BY <2>1, <2>4 DEF PrepareRequest
    <3>2. ServerReadsGivenRequest'
      BY <2>1, <2>4, <3>1, GivenIsRead
    <3>3. headers' \in Seq(Header) /\ body' \in Seq(Line)
      <4>1. CASE method = "GET"
        <5>1. UNCHANGED <<headers, body>>
          BY <3>1, <4>1 DEF Compose, ComposeGet
        <5> QED
          BY <1>1, <5>1 DEF RequestType
      <4>2. CASE method # "GET"
        <5>1. ComposeForm /\ data = <<>>
          BY <2>4, <3>1, <4>2 DEF Compose, TInv
        <5> QED
          BY <1>1, <5>1, FormIsComposed
      <4> QED
        BY <4>1, <4>2
    <3> QED
      BY <1>1, <2>1, <2>2, <3>1, <3>2, <3>3, Zenon DEF TInv, RequestType
  <2> QED
    BY <2>3, <2>4
<1>6. CASE Receive \/ UNCHANGED vars
  <2>1. UNCHANGED <<url, meant, method, made, error, params, headers, body, composed, data, given>>
    BY <1>6 DEF Receive, vars, setup, kind, request
  <2>2. ServerReadsGivenRequest'
    BY <1>1, <2>1, StaysRead
  <2> QED
    BY <1>1, <2>1, <2>2, Zenon DEF TInv, UrlKept, RequestType, HostFirst
<1> QED
  BY <1>2, <1>3, <1>4, <1>5, <1>6 DEF Next, Over

\* What the server reads is what the user had given when the request was first processed:
\* of a GET, POST or PUT the method, the path and the headers with the host first, from
\* which its "www." is cut, the parameters of the request, of the query as it was written
\* and those added to the Url, or the body with its length, or the form in its place.
THEOREM ServerReadsWhatIsGiven == Spec => []ServerReadsGivenRequest
<1>1. Init => TInv
  BY InitTInv
<1>2. TInv /\ [Next]_vars => TInv'
  BY NextTInv
<1>3. TInv => ServerReadsGivenRequest
  BY DEF TInv
<1> QED
  BY <1>1, <1>2, <1>3, PTL DEF Spec
==============================================================================
