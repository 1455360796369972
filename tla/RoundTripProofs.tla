--------------------------- MODULE RoundTripProofs ---------------------------
(***************************************************************************)
(* Assembling what the disassembler prints gives the image back, for every *)
(* image the language can express.  The printed text is a path of lines    *)
(* from the first byte of the image to its last (Printed); the parser has  *)
(* no choice on that path (OnPath, AsmFollows) and what it has placed so   *)
(* far is the image up to where it stands (Tracked); at the end of the     *)
(* path pass two writes the image itself (ImageReturns).                   *)
(***************************************************************************)
EXTENDS ProgramProofs

-----------------------------------------------------------------------------
\* Images and tokens.

\* An image is its ten fields.
IsRecord(img) == img = [f \in ImageFields |-> img[f]]

LEMMA SameImage ==
  ASSUME NEW i, NEW j, IsRecord(i), IsRecord(j),
         i.size = j.size, i.magic = j.magic, i.version = j.version,
         i.reserved = j.reserved, i.entry_point = j.entry_point,
         i.code_size = j.code_size, i.code_addr = j.code_addr,
         i.data_size = j.data_size, i.data_addr = j.data_addr,
         i.body = j.body
  PROVE  i = j
<1>1. \A f \in ImageFields : i[f] = j[f]
  BY DEF ImageFields
<1>2. i = [f \in ImageFields |-> i[f]] /\ j = [f \in ImageFields |-> j[f]]
  BY DEF IsRecord
<1>3. [f \in ImageFields |-> i[f]] = [f \in ImageFields |-> j[f]]
  BY <1>1
<1> QED
  BY <1>2, <1>3, Zenon

LEMMA RecordOf ==
  ASSUME NEW a, NEW b, NEW c, NEW d, NEW e, NEW f, NEW g, NEW h, NEW j, NEW k
  PROVE  IsRecord([size |-> a, magic |-> b, version |-> c, reserved |-> d,
                   entry_point |-> e, code_size |-> f, code_addr |-> g,
                   data_size |-> h, data_addr |-> j, body |-> k])
  BY DEF IsRecord, ImageFields

LEMMA NoImageRecord == IsRecord(NoImage)
  BY RecordOf DEF NoImage

LEMMA MadeRecord ==
  ASSUME NEW b
  PROVE  IsRecord(make_image(b))
  BY RecordOf DEF make_image

-----------------------------------------------------------------------------
\* The printed text as a path from configuration to configuration: a place
\* in the text, the active section and its counter.

region_start(img, s) == IF s = "code" THEN img.code_addr ELSE img.data_addr
region_end(img, s) == IF s = "code" THEN code_end(img) ELSE data_end(img)

ByteAt(img, s, a) ==
  IF s = "code" THEN img.body[(a - img.code_addr) + 1]
  ELSE img.body[img.code_size + (a - img.data_addr) + 1]

Config == (Nat \ {0}) \X Section \X Nat

\* The lines dis prints and where each takes the counter: l is printed for
\* the image img with code memory m in section s at c, and leads to s2, c2.
NewlineLine(l, s, c, s2, c2) == l = <<NEWLINE>> /\ s2 = s /\ c2 = c
OrgLine(img, l, s, c, s2, c2) ==
  l = org_line(c2) /\ s2 = s /\ c <= c2 /\ c2 = region_start(img, s)
DataLine(img, l, s, c, s2, c2) ==
  /\ l = <<Directive("data"), NEWLINE>> /\ s = "code" /\ s2 = "data"
  /\ c2 = c /\ c = code_end(img) /\ img.data_size # 0
ByteLine(img, l, s, c, s2, c2) ==
  /\ l = byte_line(ByteAt(img, s, c)) /\ s2 = s /\ c2 = c + 1
  /\ region_start(img, s) <= c /\ c < region_end(img, s)
InstructionLine(img, m, l, s, c, s2, c2) ==
  /\ l = Append(format_instruction(instruction_decode(m, c)), NEWLINE)
  /\ s = "code" /\ s2 = s /\ c2 = instruction_decode(m, c).next
  /\ instruction_decode(m, c).result = "VM_OK"
  /\ img.code_addr <= c /\ c < c2 /\ c2 <= code_end(img)

Line(img, m, l, s, c, s2, c2) ==
  \/ NewlineLine(l, s, c, s2, c2)
  \/ OrgLine(img, l, s, c, s2, c2)
  \/ DataLine(img, l, s, c, s2, c2)
  \/ ByteLine(img, l, s, c, s2, c2)
  \/ InstructionLine(img, m, l, s, c, s2, c2)

\* The line l stands at p.
Reads(t, p, l) ==
  /\ p + Len(l) <= Len(t) + 1
  /\ \A i \in 1 .. Len(l) : t[p + (i - 1)] = l[i]

\* A line of t leads from g to h.
Leads(t, img, m, g, h) ==
  \E l \in Seq(TokenSet) :
    /\ Len(l) > 0 /\ Reads(t, g[1], l) /\ h[1] = g[1] + Len(l)
    /\ Line(img, m, l, g[2], g[3], h[2], h[3])

\* From the beginning of t, lines lead to e through the configurations G.
Path(t, img, m, G, e) ==
  /\ G \subseteq Config
  /\ <<1, "code", 0>> \in G /\ e \in G
  /\ \A g \in G : g # e => \E h \in G : Leads(t, img, m, g, h)

LEMMA LeadsBy ==
  ASSUME NEW t, NEW img, NEW m, NEW g, NEW h, NEW l \in Seq(TokenSet),
         Len(l) > 0, Reads(t, g[1], l) /\ h[1] = g[1] + Len(l),
         Line(img, m, l, g[2], g[3], h[2], h[3])
  PROVE  Leads(t, img, m, g, h)
  BY Zenon DEF Leads

LEMMA ReadsLonger ==
  ASSUME NEW t \in Seq(TokenSet), NEW u \in Seq(TokenSet), NEW p \in Nat, p >= 1,
         NEW l \in Seq(TokenSet), Reads(t, p, l)
  PROVE  Reads(t \o u, p, l)
<1>1. /\ Len(t \o u) = Len(t) + Len(u) /\ Len(t) \in Nat /\ Len(u) \in Nat
      /\ \A k \in 1 .. Len(t) : (t \o u)[k] = t[k]
  BY TwoParts
<1>2. ASSUME NEW i \in 1 .. Len(l) PROVE (t \o u)[p + (i - 1)] = l[i]
  <2>1. p + (i - 1) \in 1 .. Len(t) /\ t[p + (i - 1)] = l[i]
    BY DEF Reads
  <2> QED
    BY <1>1, <2>1
<1> QED
  BY <1>1, <1>2 DEF Reads

LEMMA LeadsLonger ==
  ASSUME NEW t \in Seq(TokenSet), NEW u \in Seq(TokenSet), NEW img, NEW m,
         NEW g \in Config, NEW h \in Config, Leads(t, img, m, g, h)
  PROVE  Leads(t \o u, img, m, g, h)
<1>1. g[1] \in Nat /\ g[1] >= 1
  BY DEF Config
<1> QED
  BY <1>1, ReadsLonger DEF Leads

LEMMA PathLonger ==
  ASSUME NEW t \in Seq(TokenSet), NEW u \in Seq(TokenSet), NEW img, NEW m,
         NEW G, NEW e, Path(t, img, m, G, e)
  PROVE  Path(t \o u, img, m, G, e)
<1>1. ASSUME NEW g \in G, g # e
      PROVE  \E h \in G : Leads(t \o u, img, m, g, h)
  <2>1. PICK h \in G : Leads(t, img, m, g, h)
    BY <1>1 DEF Path
  <2>2. g \in Config /\ h \in Config
    BY DEF Path
  <2>3. Leads(t \o u, img, m, g, h)
    BY <2>1, <2>2, LeadsLonger
  <2> QED
    BY <2>3
<1> QED
  BY <1>1 DEF Path

\* One more line makes the path one step longer.
LEMMA PathExtends ==
  ASSUME NEW t \in Seq(TokenSet), NEW l \in Seq(TokenSet), Len(l) > 0,
         NEW img, NEW m, NEW G, NEW s, NEW c,
         NEW s2 \in Section, NEW c2 \in Nat,
         Path(t, img, m, G, <<Len(t) + 1, s, c>>),
         Line(img, m, l, s, c, s2, c2)
  PROVE  Path(t \o l, img, m, G \cup {<<Len(t \o l) + 1, s2, c2>>},
              <<Len(t \o l) + 1, s2, c2>>)
<1> DEFINE e == <<Len(t) + 1, s, c>>
           h == <<Len(t \o l) + 1, s2, c2>>
           H == G \cup {h}
<1>1. /\ Len(t) \in Nat /\ Len(l) \in Nat /\ Len(t \o l) = Len(t) + Len(l)
      /\ \A k \in 1 .. Len(l) : (t \o l)[Len(t) + k] = l[k]
  BY TwoParts
<1>2. h \in Config /\ H \subseteq Config /\ <<1, "code", 0>> \in H /\ h \in H
  BY <1>1 DEF Path, Config
<1>3. Leads(t \o l, img, m, e, h)
  <2>1. Reads(t \o l, Len(t) + 1, l)
    BY <1>1 DEF Reads
  <2>2. /\ e[1] = Len(t) + 1 /\ e[2] = s /\ e[3] = c
        /\ h[1] = Len(t \o l) + 1 /\ h[2] = s2 /\ h[3] = c2
    OBVIOUS
  <2>3. h[1] = e[1] + Len(l)
    BY <1>1, <2>2
  <2> HIDE DEF e, h
  <2> QED
    BY <2>1, <2>2, <2>3 DEF Leads
<1>4. Path(t \o l, img, m, G, e)
  BY PathLonger
<1> HIDE DEF e, h
<1>5. ASSUME NEW g \in H, g # h
      PROVE  \E k \in H : Leads(t \o l, img, m, g, k)
  <2>1. CASE g = e
    BY <1>2, <1>3, <2>1
  <2>2. CASE g # e
    BY <1>4, <1>5, <2>2 DEF Path
  <2> QED
    BY <2>1, <2>2
<1>6. Path(t \o l, img, m, H, h)
  BY <1>2, <1>5 DEF Path
<1> QED
  BY <1>6 DEF h

Joins(t, l) ==
  /\ Len(t) \in Nat /\ Len(l) \in Nat /\ t \o l \in Seq(TokenSet)
  /\ Len(t \o l) = Len(t) + Len(l)
  /\ \A k \in 1 .. Len(t) : (t \o l)[k] = t[k]
  /\ \A k \in 1 .. Len(l) : (t \o l)[Len(t) + k] = l[k]

LEMMA TokensJoin ==
  ASSUME NEW t \in Seq(TokenSet), NEW l \in Seq(TokenSet)
  PROVE  Joins(t, l)
  BY TwoParts DEF Joins

\* A block of byte lines of one section.
IsBlock(bl, img, s, a, n) ==
  /\ bl \in Seq(TokenSet) /\ Len(bl) = 3 * n
  /\ \A k \in 0 .. n - 1 : \A i \in 1 .. 3 :
       bl[3 * k + i] = byte_line(ByteAt(img, s, a + k))[i]

HasBytes(img, s, a, n) ==
  \A k \in 0 .. n - 1 : ByteAt(img, s, a + k) \in Byte

LEMMA PathBlock ==
  ASSUME NEW t \in Seq(TokenSet), NEW bl, NEW img, NEW m, NEW G,
         NEW s \in Section, NEW a \in Nat, NEW n \in Nat,
         IsBlock(bl, img, s, a, n),
         region_start(img, s) \in Nat, region_end(img, s) \in Nat,
         region_start(img, s) <= a, a + n <= region_end(img, s),
         HasBytes(img, s, a, n),
         Path(t, img, m, G, <<Len(t) + 1, s, a>>)
  PROVE  Path(t \o bl, img, m,
              G \cup {<<(Len(t) + 1) + 3 * k, s, a + k>> : k \in 0 .. n},
              <<Len(t \o bl) + 1, s, a + n>>)
<1> DEFINE u    == t \o bl
           f(k) == <<(Len(t) + 1) + 3 * k, s, a + k>>
           H    == G \cup {f(k) : k \in 0 .. n}
           e    == <<Len(t) + 1, s, a>>
           h    == <<Len(u) + 1, s, a + n>>
<1>a. bl \in Seq(TokenSet) /\ Len(bl) = 3 * n
  BY DEF IsBlock
<1>b. Joins(t, bl)
  BY <1>a, TokensJoin
<1>c. /\ Len(t) \in Nat /\ u \in Seq(TokenSet) /\ Len(u) = Len(t) + Len(bl)
      /\ \A k \in 1 .. Len(bl) : u[Len(t) + k] = bl[k]
  BY <1>b DEF Joins
<1>1. /\ Len(t) \in Nat /\ bl \in Seq(TokenSet) /\ Len(bl) = 3 * n
      /\ u \in Seq(TokenSet) /\ Len(u) = Len(t) + 3 * n
      /\ \A k \in 1 .. Len(bl) : u[Len(t) + k] = bl[k]
  BY <1>a, <1>c
<1>2. e = f(0) /\ h = f(n)
  BY <1>1
<1>3. \A k \in 0 .. n : f(k) \in Config /\ f(k) \in H
  BY <1>1 DEF Config
<1> DEFINE N == Len(t)
<1> HIDE DEF u, N
<1>d. N \in Nat /\ Len(bl) = 3 * n /\ Len(u) = N + 3 * n
  BY <1>1 DEF N
<1>4. Path(u, img, m, G, e)
  <2>1. Path(t \o bl, img, m, G, e)
    BY <1>1, PathLonger
  <2> QED
    BY <2>1 DEF u
<1>5. ASSUME NEW k \in 0 .. n - 1
      PROVE  Leads(u, img, m, f(k), f(k + 1))
  <2> DEFINE l == byte_line(ByteAt(img, s, a + k))
             p == (N + 1) + 3 * k
  <2>1. l \in Seq(TokenSet) /\ Len(l) = 3
    <3>1. ByteAt(img, s, a + k) \in Byte
      BY DEF HasBytes
    <3> DEFINE b == ByteAt(img, s, a + k)
    <3>2. b \in Int
      BY <3>1 DEF Byte
    <3> HIDE DEF b
    <3>3. byte_line(b) \in Seq(TokenSet)
      BY <3>2, LineType
    <3>4. Len(byte_line(b)) = 3
      BY DEF byte_line
    <3> QED
      BY <3>3, <3>4 DEF b
  <2>2. ASSUME NEW i \in 1 .. 3 PROVE u[p + (i - 1)] = l[i]
    <3>1. 3 * k + i \in 1 .. Len(bl) /\ p + (i - 1) = N + (3 * k + i)
      BY <1>d
    <3>2. bl[3 * k + i] = l[i]
      BY DEF IsBlock
    <3> HIDE DEF u, l, p
    <3> DEFINE j == 3 * k + i
    <3>3. j \in 1 .. Len(bl) /\ p + (i - 1) = Len(t) + j /\ bl[j] = l[i]
      BY <3>1, <3>2 DEF N
    <3> HIDE DEF j
    <3> QED
      BY <1>1, <3>3
  <2> HIDE DEF l
  <2>3. Reads(u, p, l)
    <3>1. p + 3 <= Len(u) + 1
      BY <1>d
    <3> HIDE DEF p
    <3> QED
      BY <2>1, <2>2, <3>1 DEF Reads
  <2>4. Line(img, m, l, s, a + k, s, a + (k + 1))
    <3>1. a + (k + 1) = (a + k) + 1 /\ region_start(img, s) <= a + k
          /\ a + k < region_end(img, s)
      OBVIOUS
    <3> QED
      BY <3>1, Zenon DEF Line, ByteLine, l
  <2>5. f(k)[1] = p /\ f(k)[2] = s /\ f(k)[3] = a + k
    BY DEF N
  <2>6. f(k + 1)[2] = s /\ f(k + 1)[3] = a + (k + 1)
    OBVIOUS
  <2>7. f(k + 1)[1] = p + Len(l)
    <3>1. f(k + 1)[1] = (N + 1) + 3 * (k + 1)
      BY DEF N
    <3>2. (N + 1) + 3 * (k + 1) = p + 3
      BY <1>d
    <3> HIDE DEF f, p
    <3> QED
      BY <2>1, <3>1, <3>2
  <2> DEFINE x == f(k)
             y == f(k + 1)
  <2> HIDE DEF f, p
  <2>8. Line(img, m, l, x[2], x[3], y[2], y[3])
    BY <2>4, <2>5, <2>6
  <2>9. Reads(u, x[1], l) /\ y[1] = x[1] + Len(l)
    BY <2>3, <2>5, <2>7
  <2> HIDE DEF x, y
  <2>10. Leads(u, img, m, x, y)
    <3>1. l \in Seq(TokenSet) /\ Len(l) > 0
      BY <2>1
    <3> QED
      BY <2>8, <2>9, <3>1, LeadsBy, Zenon
  <2> QED
    BY <2>10 DEF x, y
<1> HIDE DEF e, h, f
<1>6. H \subseteq Config /\ <<1, "code", 0>> \in H /\ h \in H
  <2>1. G \subseteq Config /\ <<1, "code", 0>> \in G
    BY <1>4 DEF Path
  <2>2. n \in 0 .. n
    OBVIOUS
  <2> QED
    BY <1>2, <1>3, <2>1, <2>2
<1>7. ASSUME NEW g \in H, g # h
      PROVE  \E j \in H : Leads(u, img, m, g, j)
  <2>1. CASE \E k \in 0 .. n : g = f(k)
    <3>1. PICK k \in 0 .. n : g = f(k)
      BY <2>1
    <3>2. k \in 0 .. n - 1 /\ k + 1 \in 0 .. n
      BY <1>2, <1>7, <3>1
    <3> QED
      BY <1>3, <1>5, <3>1, <3>2
  <2>2. CASE g \in G /\ g # e
    BY <1>4, <2>2 DEF Path
  <2>3. CASE g = e
    BY <1>2, <2>1, <2>3
  <2> QED
    BY <1>7, <2>1, <2>2, <2>3
<1>8. Path(u, img, m, H, h)
  BY <1>6, <1>7 DEF Path
<1> QED
  BY <1>8 DEF u, h, f

\* A path through t to its end, in section s with its counter at c.
HasPath(t, img, m, s, c) ==
  \E G : Path(t, img, m, G, <<Len(t) + 1, s, c>>)

LEMMA HasPathExtends ==
  ASSUME NEW t \in Seq(TokenSet), NEW l \in Seq(TokenSet), Len(l) > 0,
         NEW img, NEW m, NEW s, NEW c, NEW s2 \in Section, NEW c2 \in Nat,
         HasPath(t, img, m, s, c), Line(img, m, l, s, c, s2, c2)
  PROVE  t \o l \in Seq(TokenSet) /\ HasPath(t \o l, img, m, s2, c2)
<1>1. PICK G : Path(t, img, m, G, <<Len(t) + 1, s, c>>)
  BY DEF HasPath
<1>2. Path(t \o l, img, m, G \cup {<<Len(t \o l) + 1, s2, c2>>},
           <<Len(t \o l) + 1, s2, c2>>)
  BY <1>1, PathExtends
<1>3. t \o l \in Seq(TokenSet)
  BY TwoParts
<1> QED
  BY <1>2, <1>3 DEF HasPath

LEMMA PathStarts ==
  ASSUME NEW img, NEW m
  PROVE  HasPath(<<>>, img, m, "code", 0)
<1> DEFINE e == <<1, "code", 0>>
<1>1. e \in Config
  BY DEF Config, Section
<1>2. e = <<1, "code", 0>> /\ <<Len(<<>>) + 1, "code", 0>> = e
  OBVIOUS
<1> HIDE DEF e
<1>3. Path(<<>>, img, m, {e}, e)
  BY <1>1, <1>2 DEF Path
<1> QED
  BY <1>2, <1>3 DEF HasPath

LEMMA NewlineType ==
  /\ <<NEWLINE>> \in Seq(TokenSet) /\ Len(<<NEWLINE>>) = 1
  /\ <<Directive("data"), NEWLINE>> \in Seq(TokenSet)
  /\ Len(<<Directive("data"), NEWLINE>>) = 2
<1>1. "data" \in Words
  BY DEF Words
<1> DEFINE d == Directive("data")
<1>2. d \in TokenSet /\ NEWLINE \in TokenSet
  BY <1>1, TokenType
<1> HIDE DEF d
<1>3. <<d, NEWLINE>> \in Seq(TokenSet) /\ Len(<<d, NEWLINE>>) = 2
      /\ <<NEWLINE>> \in Seq(TokenSet)
  BY <1>2
<1> QED
  BY <1>3 DEF d

LEMMA NewlineExtends ==
  ASSUME NEW t \in Seq(TokenSet), NEW img, NEW m, NEW s \in Section, NEW c \in Nat,
         HasPath(t, img, m, s, c)
  PROVE  t \o <<NEWLINE>> \in Seq(TokenSet)
         /\ HasPath(t \o <<NEWLINE>>, img, m, s, c)
<1>1. Line(img, m, <<NEWLINE>>, s, c, s, c)
  BY Zenon DEF Line, NewlineLine
<1>2. <<NEWLINE>> \in Seq(TokenSet) /\ Len(<<NEWLINE>>) > 0
  BY NewlineType
<1> DEFINE l == <<NEWLINE>>
<1> HIDE DEF l
<1>3. l \in Seq(TokenSet) /\ Len(l) > 0 /\ Line(img, m, l, s, c, s, c)
  BY <1>1, <1>2 DEF l
<1>4. t \o l \in Seq(TokenSet) /\ HasPath(t \o l, img, m, s, c)
  BY <1>3, HasPathExtends
<1> QED
  BY <1>4 DEF l

LEMMA OrgExtends ==
  ASSUME NEW t \in Seq(TokenSet), NEW img, NEW m, NEW s \in Section, NEW c \in Nat,
         NEW a \in Nat, a = region_start(img, s), c <= a,
         HasPath(t, img, m, s, c)
  PROVE  t \o org_line(a) \in Seq(TokenSet)
         /\ HasPath(t \o org_line(a), img, m, s, a)
<1> DEFINE l == org_line(a)
<1>1. Line(img, m, l, s, c, s, a)
  BY Zenon DEF Line, OrgLine
<1>2. l \in Seq(TokenSet)
  BY LineType
<1>3. Len(l) = 3
  BY DEF org_line
<1> HIDE DEF l
<1>4. t \o l \in Seq(TokenSet) /\ HasPath(t \o l, img, m, s, a)
  BY <1>1, <1>2, <1>3, HasPathExtends
<1> QED
  BY <1>4 DEF l

LEMMA ConcatAssociates ==
  ASSUME NEW S, NEW a \in Seq(S), NEW b \in Seq(S), NEW c \in Seq(S)
  PROVE  (a \o b) \o c = a \o (b \o c)
  OBVIOUS

\* The preamble.
LEMMA PreamblePath ==
  ASSUME NEW img, NEW m, img.code_addr \in Nat
  PROVE  LET t == <<NEWLINE, NEWLINE, NEWLINE>>
                    \o (IF img.code_addr # 0 THEN org_line(img.code_addr) ELSE <<>>)
         IN  t \in Seq(TokenSet) /\ HasPath(t, img, m, "code", img.code_addr)
<1> DEFINE n == <<NEWLINE, NEWLINE, NEWLINE>>
           a == img.code_addr
<1>1. "code" \in Section /\ 0 \in Nat
  BY DEF Section
<1>2. <<>> \in Seq(TokenSet) /\ HasPath(<<>>, img, m, "code", 0)
  BY PathStarts
<1> DEFINE t1 == <<>> \o <<NEWLINE>>
           t2 == t1 \o <<NEWLINE>>
           t3 == t2 \o <<NEWLINE>>
<1>3. t1 \in Seq(TokenSet) /\ HasPath(t1, img, m, "code", 0)
  BY <1>1, <1>2, NewlineExtends
<1>4. n = t3
  OBVIOUS
<1> HIDE DEF t1
<1>5. t2 \in Seq(TokenSet) /\ HasPath(t2, img, m, "code", 0)
  BY <1>1, <1>3, NewlineExtends
<1> HIDE DEF t2
<1>6. t3 \in Seq(TokenSet) /\ HasPath(t3, img, m, "code", 0)
  BY <1>1, <1>5, NewlineExtends
<1>7. n \in Seq(TokenSet) /\ HasPath(n, img, m, "code", 0)
  BY <1>4, <1>6
<1> HIDE DEF n
<1>8. CASE a # 0
  <2>1. a = region_start(img, "code") /\ 0 <= a
    BY DEF region_start
  <2>2. n \o org_line(a) \in Seq(TokenSet)
        /\ HasPath(n \o org_line(a), img, m, "code", a)
    BY <1>1, <1>7, <2>1, OrgExtends
  <2> QED
    BY <1>8, <2>2 DEF n
<1>9. CASE a = 0
  <2>1. n \o <<>> = n
    BY <1>7
  <2> QED
    BY <1>7, <1>9, <2>1 DEF n
<1> QED
  BY <1>8, <1>9

-----------------------------------------------------------------------------
\* What disassemble() prints of an image the language can express.

LEMMA ReproducibleShape ==
  ASSUME NEW img, IsImage(img), Reproducible(img)
  PROVE  /\ header_ok(img) /\ img.body \in Seq(Byte)
         /\ Len(img.body) = img.code_size + img.data_size
         /\ img.code_addr \in Nat /\ img.code_size \in Nat /\ img.code_size > 0
         /\ code_end(img) = img.code_addr + img.code_size
         /\ code_end(img) \in Nat /\ code_end(img) < 65536
         /\ img.data_addr \in Nat /\ img.data_size \in Nat
         /\ data_end(img) = img.data_addr + img.data_size
         /\ data_end(img) \in Nat /\ data_end(img) <= 65536
         /\ img.data_size = 0 => img.data_addr = 0
         /\ img.data_size > 0 => code_end(img) <= img.data_addr
<1> DEFINE ca == img.code_addr
           cs == img.code_size
           da == img.data_addr
           ds == img.data_size
           sz == img.size
<1>1. /\ ca \in Nat /\ cs \in Nat /\ da \in Nat /\ ds \in Nat /\ sz \in Nat
      /\ img.body \in Seq(Byte)
      /\ sz >= BVM_HEADER_SIZE => Len(img.body) = sz - BVM_HEADER_SIZE
  <2>1. \A x \in Word : x \in Nat
    BY DEF Word
  <2> QED
    BY <2>1, Zenon DEF IsImage
<1>2. /\ img.magic /\ img.version = 1 /\ img.reserved = 0
      /\ sz = BVM_HEADER_SIZE + cs + ds
      /\ img.entry_point = ca
      /\ cs > 0 /\ code_end(img) < 65536
      /\ IF ds = 0 THEN da = 0
         ELSE da >= code_end(img) /\ data_end(img) <= 65536
  BY DEF Reproducible
<1>3. code_end(img) = ca + cs /\ data_end(img) = da + ds
  BY DEF code_end, data_end
<1> HIDE DEF ca, cs, da, ds, sz
<1> DEFINE ce == code_end(img)
           de == data_end(img)
<1>4. /\ ce < 65536 /\ ce = ca + cs /\ de = da + ds
      /\ IF ds = 0 THEN da = 0 ELSE da >= ce /\ de <= 65536
  BY <1>2, <1>3
<1> HIDE DEF ce, de
<1>5. /\ ce \in Nat /\ de \in Nat /\ de <= 65536
      /\ ds = 0 => da = 0
      /\ ds > 0 => ce <= da
      /\ ca >= ca /\ ca < ce
      /\ ~(ca < de /\ da < ce)
      /\ sz >= BVM_HEADER_SIZE /\ sz - BVM_HEADER_SIZE = cs + ds
      /\ sz >= BVM_HEADER_SIZE + cs + ds /\ ce <= 65536
  BY <1>1, <1>2, <1>4 DEF BVM_HEADER_SIZE
<1>6. header_ok(img)
  <2>1. /\ img.size >= BVM_HEADER_SIZE + img.code_size + img.data_size
        /\ img.size >= BVM_HEADER_SIZE
    BY <1>5 DEF sz, cs, ds
  <2>2. code_end(img) <= 65536 /\ data_end(img) <= 65536
    BY <1>5 DEF ce, de
  <2>3. img.entry_point >= img.code_addr /\ img.entry_point < code_end(img)
    BY <1>2, <1>5 DEF ce, ca
  <2>4. ~(img.code_addr < data_end(img) /\ img.data_addr < code_end(img))
    BY <1>5 DEF ce, de, ca, da
  <2>5. img.magic /\ img.version = 1 /\ img.reserved = 0
    BY <1>2
  <2> QED
    BY <2>1, <2>2, <2>3, <2>4, <2>5, SMT DEF header_ok
<1>7. Len(img.body) = cs + ds
  BY <1>1, <1>5
<1> QED
  BY <1>1, <1>2, <1>4, <1>5, <1>6, <1>7 DEF ce, de, ca, cs, da, ds

end_section(img) == IF img.data_size = 0 THEN "code" ELSE "data"

\* The text so far is a path to the sweep's place; the whole text is one to
\* the end of the image.
Printed ==
  Reproducible(given) =>
    /\ dstage = "code" => HasPath(text, given, dmem, "code", dpc)
    /\ dstage = "ok" =>
         \E G : Path(text, given, dmem, G,
                     <<Len(text), end_section(given),
                       region_end(given, end_section(given))>>)

LEMMA SameCodeMemory ==
  ASSUME given' = given
  PROVE  dmem' = dmem
  BY DEF dmem

LEMMA CheckPrinted ==
  ASSUME DisShape, check_image
  PROVE  Printed'
<1> SUFFICES ASSUME Reproducible(given)', dstage' = "code" \/ dstage' = "ok"
             PROVE  dstage' = "code" /\ HasPath(text, given, dmem, "code", dpc)'
  BY DEF Printed
<1>1. /\ given' = given /\ dpc' = given.code_addr /\ dstage' = "code"
      /\ text' = <<NEWLINE, NEWLINE, NEWLINE>>
                   \o (IF given.code_addr # 0
                       THEN org_line(given.code_addr) ELSE <<>>)
  BY DEF check_image
<1>2. given.code_addr \in Nat
  <2>1. given.code_addr \in Word
    BY DEF DisShape, IsImage
  <2> QED
    BY <2>1 DEF Word
<1>3. HasPath(text', given, dmem', "code", given.code_addr)
  BY <1>1, <1>2, PreamblePath
<1> QED
  BY <1>1, <1>3

LEMMA SweepPlace ==
  ASSUME NEW x \in Nat, NEW y \in Nat, NEW a \in Nat, NEW n \in Nat,
         a <= x, x < y, y <= a + n, a + n < 65536
  PROVE  /\ x < a + n /\ (x + 1) % 65536 = x + 1
         /\ x - a \in 0 .. n - 1 /\ (a + (x - a)) % 65536 = x
  OBVIOUS

\* A sweep step of an image that does not reach the top of memory prints a
\* line.
LEMMA SweepPrinted ==
  ASSUME DisShape, Printed, sweep_instruction \/ sweep_byte
  PROVE  Printed'
<1> SUFFICES ASSUME Reproducible(given)'
             PROVE  dstage' = "code" /\ HasPath(text, given, dmem, "code", dpc)'
  BY DEF Printed
<1>1. given' = given /\ dmem' = dmem /\ dstage = "code" /\ dstage' = "code"
      /\ Reproducible(given)
  <2>1. given' = given /\ dstage = "code" /\ dstage' = "code"
    BY DEF sweep_instruction, sweep_byte
  <2> QED
    BY <2>1, SameCodeMemory
<1>2. HasPath(text, given, dmem, "code", dpc)
  BY <1>1 DEF Printed
<1>3. IsImage(given) /\ accepts_image /\ text \in Seq(TokenSet) /\ dpc \in Word
  BY <1>1 DEF DisShape
<1>4. /\ dpc \in Nat /\ dpc' \in Nat /\ dpc < dpc' /\ dpc' <= code_end(given)
      /\ dend = code_end(given)
      /\ given.code_addr \in Nat /\ given.code_addr <= dpc
  BY SweepMoves DEF Word
<1>5. /\ code_end(given) = given.code_addr + given.code_size
      /\ code_end(given) \in Nat /\ code_end(given) < 65536
      /\ given.code_size \in Nat
  BY <1>1, <1>3, ReproducibleShape
<1>6. "code" \in Section
  BY DEF Section
<1>7. CASE sweep_instruction
  <2> DEFINE f == format_instruction(instruction_decode(dmem, dpc))
             l == Append(f, NEWLINE)
  <2>1. /\ text' = text \o l /\ dpc' = instruction_decode(dmem, dpc).next
        /\ instruction_decode(dmem, dpc).result = "VM_OK"
    BY <1>7 DEF sweep_instruction, decodes_here
  <2>2. f \in Seq(TokenSet) /\ NEWLINE \in TokenSet
    BY <1>3, <2>1, SweptMemory, FormatInstructionType, TokenType
  <2>3. InstructionLine(given, dmem, l, "code", dpc, "code", dpc')
    BY <1>4, <2>1, Zenon DEF InstructionLine
  <2>4. Line(given, dmem, l, "code", dpc, "code", dpc')
    BY <2>3, Zenon DEF Line
  <2> HIDE DEF f
  <2>5. l \in Seq(TokenSet) /\ Len(l) > 0
    BY <2>2
  <2> HIDE DEF l
  <2>6. HasPath(text \o l, given, dmem, "code", dpc')
    BY <1>2, <1>3, <1>4, <1>6, <2>4, <2>5, HasPathExtends
  <2> QED
    BY <1>1, <2>1, <2>6
<1>8. CASE sweep_byte
  <2> DEFINE b == mem_read8(dmem, dpc)
             l == byte_line(b)
  <2>1. text' = text \o l /\ dpc' = (dpc + 1) % 65536
    BY <1>8 DEF sweep_byte
  <2> DEFINE ca == given.code_addr
             cs == given.code_size
             i  == dpc - ca
  <2>a. /\ ca \in Nat /\ cs \in Nat /\ ca <= dpc /\ dpc \in Nat /\ dpc' \in Nat
        /\ dpc < dpc' /\ dpc' <= ca + cs /\ ca + cs < 65536
    BY <1>4, <1>5
  <2> HIDE DEF ca, cs
  <2>b. /\ dpc < ca + cs /\ (dpc + 1) % 65536 = dpc + 1
        /\ i \in 0 .. cs - 1 /\ (ca + i) % 65536 = dpc
    BY <2>a, SweepPlace
  <2>2. dpc < code_end(given)
    BY <1>5, <2>b DEF ca, cs
  <2>3. dpc' = dpc + 1
    BY <2>1, <2>b
  <2> HIDE DEF i
  <2>4. i \in 0 .. given.code_size - 1 /\ (given.code_addr + i) % 65536 = dpc
    BY <2>b DEF ca, cs
  <2>5. b = given.body[i + 1] /\ b \in Byte
    BY <1>3, <2>4, SweptMemory
  <2>6. b = ByteAt(given, "code", dpc)
    BY <2>5 DEF ByteAt, i, ca
  <2> HIDE DEF b
  <2>c. b \in Int
    BY <2>5 DEF Byte
  <2>7. l \in Seq(TokenSet)
    BY <2>c, LineType
  <2>8. Len(l) > 0
    BY DEF byte_line
  <2>9. region_start(given, "code") <= dpc /\ dpc < region_end(given, "code")
    BY <1>4, <2>2 DEF region_start, region_end
  <2>10. Line(given, dmem, l, "code", dpc, "code", dpc')
    BY <2>3, <2>6, <2>9, Zenon DEF Line, ByteLine
  <2> HIDE DEF l
  <2>11. HasPath(text \o l, given, dmem, "code", dpc')
    BY <1>2, <1>3, <1>4, <1>6, <2>7, <2>8, <2>10, HasPathExtends
  <2> QED
    BY <1>1, <2>1, <2>11
<1> QED
  BY <1>7, <1>8

\* The data region's lines.
data_lines(img) ==
  LET bytes == data_bytes(img)
      line(i) == byte_line(bytes[(i + 2) \div 3])[((i - 1) % 3) + 1]
  IN  [i \in 1 .. 3 * Len(bytes) |-> line(i)]

LEMMA ThreeToALine ==
  ASSUME NEW n \in Nat, NEW k \in 0 .. n - 1, NEW i \in 1 .. 3
  PROVE  /\ 3 * k + i \in 1 .. 3 * n
         /\ ((3 * k + i) + 2) \div 3 = k + 1
         /\ (((3 * k + i) - 1) % 3) + 1 = i
<1>1. i = 1 \/ i = 2 \/ i = 3
  OBVIOUS
<1>2. CASE i = 1
  BY <1>2
<1>3. CASE i = 2
  BY <1>3
<1>4. CASE i = 3
  BY <1>4
<1> QED
  BY <1>1, <1>2, <1>3, <1>4

LEMMA LineOfThree ==
  ASSUME NEW n \in Nat, NEW j \in 1 .. 3 * n
  PROVE  (j + 2) \div 3 \in 1 .. n /\ ((j - 1) % 3) + 1 \in 1 .. 3
  OBVIOUS

LEMMA DataBlock ==
  ASSUME NEW img, IsImage(img), Reproducible(img)
  PROVE  /\ IsBlock(data_lines(img), img, "data", img.data_addr, img.data_size)
         /\ HasBytes(img, "data", img.data_addr, img.data_size)
<1> DEFINE n == img.data_size
           a == img.data_addr
           bytes == data_bytes(img)
           bl == data_lines(img)
<1>1. n \in Nat /\ a \in Nat
  BY ReproducibleShape
<1>2. header_ok(img)
  BY ReproducibleShape
<1>3. /\ bytes \in Seq(Byte) /\ Len(bytes) = n
      /\ \A k \in 1 .. n : bytes[k] = img.body[img.code_size + k]
  BY <1>2, AcceptedShape
<1>4. bl = [i \in 1 .. 3 * n |->
              byte_line(bytes[(i + 2) \div 3])[((i - 1) % 3) + 1]]
  BY <1>3 DEF data_lines
<1>5. img.code_size \in Nat
  BY ReproducibleShape
<1> HIDE DEF n, a, bytes, bl
<1>6. ASSUME NEW k \in 0 .. n - 1
      PROVE  ByteAt(img, "data", a + k) = bytes[k + 1] /\ bytes[k + 1] \in Byte
  <2>1. k + 1 \in 1 .. n
    BY <1>1
  <2>2. (a + k) - a = k /\ (img.code_size + k) + 1 = img.code_size + (k + 1)
    BY <1>1, <1>5
  <2>3. ByteAt(img, "data", a + k) = img.body[(img.code_size + ((a + k) - a)) + 1]
    BY DEF ByteAt, a
  <2> QED
    BY <1>3, <2>1, <2>2, <2>3
<1>7. HasBytes(img, "data", a, n)
  BY <1>6 DEF HasBytes
<1>8. bl \in Seq(TokenSet)
  <2>1. ASSUME NEW j \in 1 .. 3 * n
        PROVE  byte_line(bytes[(j + 2) \div 3])[((j - 1) % 3) + 1] \in TokenSet
    <3> DEFINE q == (j + 2) \div 3
               r == ((j - 1) % 3) + 1
    <3>1. q \in 1 .. n /\ r \in 1 .. 3
      BY <1>1, LineOfThree
    <3> HIDE DEF q, r
    <3>2. bytes[q] \in Byte
      BY <1>3, <3>1
    <3>3. bytes[q] \in Int
      BY <3>2 DEF Byte
    <3>4. byte_line(bytes[q])[r] \in TokenSet
      BY <3>1, <3>3, LineType
    <3> QED
      BY <3>4 DEF q, r
  <2>2. 3 * n \in Nat
    BY <1>1
  <2> QED
    BY <1>4, <2>1, <2>2
<1>9. Len(bl) = 3 * n
  BY <1>1, <1>4
<1>10. ASSUME NEW k \in 0 .. n - 1, NEW i \in 1 .. 3
       PROVE  bl[3 * k + i] = byte_line(ByteAt(img, "data", a + k))[i]
  <2> DEFINE j == 3 * k + i
  <2>1. j \in 1 .. 3 * n /\ (j + 2) \div 3 = k + 1 /\ ((j - 1) % 3) + 1 = i
    BY <1>1, ThreeToALine
  <2> HIDE DEF j
  <2>2. bl[j] = byte_line(bytes[(j + 2) \div 3])[((j - 1) % 3) + 1]
    BY <1>4, <2>1
  <2>3. bl[j] = byte_line(bytes[k + 1])[i]
    BY <2>1, <2>2
  <2> QED
    BY <1>6, <2>3 DEF j
<1>11. IsBlock(bl, img, "data", a, n)
  BY <1>8, <1>9, <1>10 DEF IsBlock
<1> QED
  BY <1>7, <1>11 DEF bl, a, n

LEMMA OrgType ==
  ASSUME NEW a \in Nat
  PROVE  org_line(a) \in Seq(TokenSet)
  BY LineType

\* The section header, the .org line and the data end the path.
LEMMA DataPath ==
  ASSUME NEW t \in Seq(TokenSet), NEW img, IsImage(img), Reproducible(img), NEW m,
         HasPath(t, img, m, "code", code_end(img)), img.data_size # 0
  PROVE  LET u == t \o (<<NEWLINE, Directive("data"), NEWLINE>>
                          \o (IF img.data_addr # code_end(img)
                              THEN org_line(img.data_addr) ELSE <<>>)
                          \o data_lines(img))
         IN  u \in Seq(TokenSet) /\ HasPath(u, img, m, "data", data_end(img))
<1> DEFINE ce == code_end(img)
           da == img.data_addr
           nl == <<NEWLINE>>
           d  == <<Directive("data"), NEWLINE>>
           h  == <<NEWLINE, Directive("data"), NEWLINE>>
           o  == IF da # ce THEN org_line(da) ELSE <<>>
           bl == data_lines(img)
<1>1. /\ ce \in Nat /\ da \in Nat /\ ce <= da /\ img.data_size \in Nat
      /\ data_end(img) = da + img.data_size /\ data_end(img) \in Nat
  BY ReproducibleShape
<1>2. "code" \in Section /\ "data" \in Section
  BY DEF Section
<1>3. /\ region_start(img, "data") = da
      /\ region_end(img, "data") = data_end(img)
  BY DEF region_start, region_end
<1>4. nl \in Seq(TokenSet) /\ d \in Seq(TokenSet) /\ Len(d) = 2
  BY NewlineType
<1>5. h = nl \o d
  OBVIOUS
<1>6. bl \in Seq(TokenSet)
  BY DataBlock DEF IsBlock
<1>7. o \in Seq(TokenSet)
  <2>1. org_line(da) \in Seq(TokenSet)
    BY <1>1, OrgType
  <2> HIDE DEF da, ce
  <2> QED
    BY <2>1
<1> DEFINE t1 == t \o nl
           t2 == t1 \o d
           t3 == t2 \o o
           t4 == t3 \o bl
<1>8. t1 \in Seq(TokenSet) /\ HasPath(t1, img, m, "code", ce)
  BY <1>1, <1>2, NewlineExtends
<1>9. Line(img, m, d, "code", ce, "data", ce)
  BY Zenon DEF Line, DataLine
<1> HIDE DEF nl, d, t1, h, bl
<1>10. t2 \in Seq(TokenSet) /\ HasPath(t2, img, m, "data", ce)
  <2>1. Len(d) > 0
    BY <1>4
  <2> HIDE DEF ce
  <2> QED
    BY <1>1, <1>2, <1>4, <1>8, <1>9, <2>1, HasPathExtends
<1> HIDE DEF t2
<1>11. t3 \in Seq(TokenSet) /\ HasPath(t3, img, m, "data", da)
  <2>1. CASE da # ce
    <3>1. t2 \o org_line(da) \in Seq(TokenSet)
          /\ HasPath(t2 \o org_line(da), img, m, "data", da)
      BY <1>1, <1>2, <1>3, <1>10, OrgExtends
    <3> QED
      BY <2>1, <3>1
  <2>2. CASE da = ce
    <3>1. t3 = t2 \o <<>>
      BY <2>2
    <3>2. t2 \o <<>> = t2
      BY <1>10
    <3> QED
      BY <1>10, <2>2, <3>1, <3>2
  <2> QED
    BY <2>1, <2>2
<1> HIDE DEF t3, o
<1>12. t4 \in Seq(TokenSet) /\ HasPath(t4, img, m, "data", data_end(img))
  <2>1. PICK G : Path(t3, img, m, G, <<Len(t3) + 1, "data", da>>)
    BY <1>11 DEF HasPath
  <2> DEFINE n == img.data_size
  <2>2. IsBlock(bl, img, "data", da, n) /\ HasBytes(img, "data", da, n)
    BY DataBlock DEF bl
  <2>3. /\ region_start(img, "data") \in Nat /\ region_end(img, "data") \in Nat
        /\ region_start(img, "data") <= da /\ da + n <= region_end(img, "data")
        /\ da + n = data_end(img) /\ n \in Nat
    BY <1>1, <1>3
  <2> HIDE DEF n, da
  <2>4. da \in Nat
    BY <1>1 DEF da
  <2>5. HasPath(t3 \o bl, img, m, "data", da + n)
    BY <1>2, <1>11, <2>1, <2>2, <2>3, <2>4, PathBlock DEF HasPath
  <2>6. t4 \in Seq(TokenSet)
    BY <1>6, <1>11, TwoParts
  <2> QED
    BY <2>3, <2>5, <2>6
<1>13. t4 = t \o ((h \o o) \o bl)
  <2>1. h \in Seq(TokenSet) /\ h \o o \in Seq(TokenSet)
    BY <1>4, <1>5, <1>7, TwoParts
  <2>2. t2 = t \o h
    BY <1>4, <1>5, ConcatAssociates DEF t1, t2
  <2>3. t3 = t \o (h \o o)
    BY <1>7, <2>1, <2>2, ConcatAssociates DEF t3
  <2> DEFINE ho == h \o o
  <2>4. ho \in Seq(TokenSet) /\ t3 = t \o ho
    BY <2>1, <2>3
  <2> HIDE DEF ho
  <2>5. (t \o ho) \o bl = t \o (ho \o bl)
    BY <1>6, <2>4, ConcatAssociates
  <2> QED
    BY <2>4, <2>5 DEF ho
<1> QED
  BY <1>12, <1>13 DEF h, o, bl, ce, da

LEMMA DataPrinted ==
  ASSUME DisShape, Printed, print_data
  PROVE  Printed'
<1> SUFFICES ASSUME Reproducible(given)'
             PROVE  dstage' = "ok"
                    /\ (\E G : Path(text, given, dmem, G,
                            <<Len(text), end_section(given),
                              region_end(given, end_section(given))>>))'
  BY DEF Printed
<1>1. given' = given /\ dmem' = dmem /\ dstage = "code" /\ dstage' = "ok"
      /\ Reproducible(given) /\ dpc >= dend
  <2>1. given' = given /\ dstage = "code" /\ dstage' = "ok" /\ dpc >= dend
    BY DEF print_data
  <2> QED
    BY <2>1, SameCodeMemory
<1> DEFINE s == end_section(given)
           c == region_end(given, s)
           h == <<NEWLINE, Directive("data"), NEWLINE>>
           o == IF given.data_addr # code_end(given)
                THEN org_line(given.data_addr) ELSE <<>>
           x == IF given.data_size = 0 THEN <<>>
                ELSE h \o o \o data_lines(given)
           u == text \o x
<1>2. IsImage(given) /\ text \in Seq(TokenSet) /\ dpc \in Word
      /\ SweepStaysInCode
  BY <1>1 DEF DisShape
<1>3. /\ code_end(given) = given.code_addr + given.code_size
      /\ code_end(given) \in Nat /\ code_end(given) < 65536
      /\ given.code_size \in Nat /\ given.code_size > 0 /\ given.code_addr \in Nat
  BY <1>1, <1>2, ReproducibleShape
<1>4. dend = code_end(given)
  <2>1. \/ code_end(given) < 65536 /\ dend = code_end(given)
        \/ code_end(given) >= 65536
    BY <1>2, SweepEnd
  <2> QED
    BY <1>3, <2>1
<1>5. dpc = code_end(given)
  <2> DEFINE ce == code_end(given)
             ca == given.code_addr
             cs == given.code_size
  <2>1. dpc >= ce /\ ce = ca + cs /\ cs > 0 /\ ca \in Nat /\ cs \in Nat
    BY <1>1, <1>3, <1>4
  <2>2. dpc = ca \/ dpc \in ca + 1 .. ce
    BY <1>1, <1>2 DEF SweepStaysInCode
  <2> HIDE DEF ce, ca, cs
  <2>3. dpc = ce
    BY <2>1, <2>2
  <2> QED
    BY <2>3 DEF ce
<1>6. HasPath(text, given, dmem, "code", code_end(given))
  BY <1>1, <1>5 DEF Printed
<1>7. text' = u \o <<EOF>>
  <2>1. text' = text \o (IF given.data_size = 0 THEN <<>>
                         ELSE h \o (IF given.data_addr # dend
                                    THEN org_line(given.data_addr) ELSE <<>>)
                                \o data_lines(given))
                     \o <<EOF>>
    BY DEF print_data, data_lines
  <2> QED
    BY <1>4, <2>1
<1>8. u \in Seq(TokenSet) /\ HasPath(u, given, dmem, s, c)
  <2>1. CASE given.data_size = 0
    <3>1. s = "code" /\ c = code_end(given) /\ x = <<>>
      BY <2>1 DEF end_section, region_end
    <3>2. text \o <<>> = text
      BY <1>2
    <3> QED
      BY <1>2, <1>6, <3>1, <3>2
  <2>2. CASE given.data_size # 0
    <3>1. s = "data" /\ c = data_end(given) /\ x = h \o o \o data_lines(given)
      BY <2>2 DEF end_section, region_end
    <3>2. text \o (h \o o \o data_lines(given)) \in Seq(TokenSet)
          /\ HasPath(text \o (h \o o \o data_lines(given)), given, dmem,
                     "data", data_end(given))
      BY <1>1, <1>2, <1>6, <2>2, DataPath
    <3> HIDE DEF s, c, x, h, o
    <3> QED
      BY <3>1, <3>2
  <2> QED
    BY <2>1, <2>2
<1> HIDE DEF u, s, c
<1>9. PICK G : Path(u, given, dmem, G, <<Len(u) + 1, s, c>>)
  BY <1>8 DEF HasPath
<1>10. <<EOF>> \in Seq(TokenSet) /\ Len(<<EOF>>) = 1
  <2> DEFINE e == EOF
  <2>1. e \in TokenSet
    BY TokenType
  <2> HIDE DEF e
  <2>2. <<e>> \in Seq(TokenSet) /\ Len(<<e>>) = 1
    BY <2>1
  <2> QED
    BY <2>2 DEF e
<1> DEFINE f == <<EOF>>
<1> HIDE DEF f
<1>11. Joins(u, f) /\ Path(u \o f, given, dmem, G, <<Len(u) + 1, s, c>>)
  BY <1>8, <1>9, <1>10, TokensJoin, PathLonger DEF f
<1>12. Len(u \o f) = Len(u) + 1
  BY <1>10, <1>11 DEF Joins, f
<1>13. Path(text', given', dmem', G, <<Len(text'), s', c'>>)
  <2>1. text' = u \o f
    BY <1>7 DEF f
  <2>2. s' = s /\ c' = c
    BY <1>1 DEF s, c
  <2> QED
    BY <1>1, <1>11, <1>12, <2>1, <2>2
<1> QED
  BY <1>1, <1>13 DEF s, c

LEMMA PrintedStep ==
  ASSUME DisShape, Printed, DisNext
  PROVE  Printed'
  BY CheckPrinted, SweepPrinted, DataPrinted DEF DisNext

LEMMA PrintedSame ==
  ASSUME Printed, UNCHANGED disVars
  PROVE  Printed'
<1>1. given' = given /\ dstage' = dstage /\ dpc' = dpc /\ text' = text
  BY DEF disVars
<1>2. dmem' = dmem
  BY <1>1, SameCodeMemory
<1> QED
  BY <1>1, <1>2 DEF Printed

-----------------------------------------------------------------------------
\* The parser reads a printed operand back.

\* What the token t stands for as an operand of opcode c, bare or in brackets.
Stands(t, c, mem, kind, v) ==
  \/ /\ t.type = "TOK_IDENT" /\ t.text \in DOMAIN REGISTERS
     /\ kind = "REG" /\ v = REGISTERS[t.text]
  \/ /\ t.type = "TOK_IDENT" /\ t.text \notin DOMAIN REGISTERS
     /\ ~mem /\ c = OP_SYS /\ t.text \in DOMAIN SYSCALLS
     /\ kind = "NUMBER" /\ v = SYSCALLS[t.text]
  \/ t.type = "TOK_NUMBER" /\ kind = "NUMBER" /\ v = t.num_value

LEMMA IsAnOperand ==
  ASSUME NEW kind, kind \in {"REG", "NUMBER"}, NEW mem, NEW v
  PROVE  /\ ParsedOperand(kind, mem, v, NoText) # OPKIND_NONE
         /\ ParsedOperand(kind, mem, v, NoText).kind = kind
         /\ ParsedOperand(kind, mem, v, NoText).mem = mem
         /\ ParsedOperand(kind, mem, v, NoText).value = v
<1>1. ParsedOperand(kind, mem, v, NoText).kind = kind
  BY DEF ParsedOperand
<1>2. OPKIND_NONE.kind = "NONE"
  BY DEF OPKIND_NONE, ParsedOperand
<1>3. kind # "NONE"
  OBVIOUS
<1>4. ParsedOperand(kind, mem, v, NoText) # OPKIND_NONE
  BY <1>1, <1>2, <1>3, Zenon
<1> QED
  BY <1>1, <1>4 DEF ParsedOperand

\* The CASE of parse_operand.
OperandOf(t, c, mem) ==
  CASE t.type = "TOK_IDENT" /\ t.text \in DOMAIN REGISTERS ->
         ParsedOperand("REG", mem, REGISTERS[t.text], NoText)
    [] /\ t.type = "TOK_IDENT" /\ t.text \notin DOMAIN REGISTERS
       /\ ~mem /\ c = OP_SYS
       /\ t.text \in DOMAIN SYSCALLS ->
         ParsedOperand("NUMBER", mem, SYSCALLS[t.text], NoText)
    [] t.type = "TOK_NUMBER" ->
         ParsedOperand("NUMBER", mem, t.num_value, NoText)
    [] OTHER ->
         IF t.type = "TOK_IDENT" THEN ParsedOperand("LABEL", mem, 0, t.text)
         ELSE OPKIND_NONE

LEMMA OperandOfToken ==
  ASSUME NEW t, NEW c, NEW mem, NEW kind, NEW v, Stands(t, c, mem, kind, v)
  PROVE  /\ OperandOf(t, c, mem) = ParsedOperand(kind, mem, v, NoText)
         /\ kind \in {"REG", "NUMBER"}
<1>1. CASE /\ t.type = "TOK_IDENT" /\ t.text \in DOMAIN REGISTERS
           /\ kind = "REG" /\ v = REGISTERS[t.text]
  <2>1. t.type # "TOK_NUMBER"
    BY <1>1
  <2> QED
    BY <1>1, <2>1, Zenon DEF OperandOf
<1>2. CASE /\ t.type = "TOK_IDENT" /\ t.text \notin DOMAIN REGISTERS
           /\ ~mem /\ c = OP_SYS /\ t.text \in DOMAIN SYSCALLS
           /\ kind = "NUMBER" /\ v = SYSCALLS[t.text]
  <2>1. t.type # "TOK_NUMBER"
    BY <1>2
  <2> QED
    BY <1>2, <2>1, Zenon DEF OperandOf
<1>3. CASE t.type = "TOK_NUMBER" /\ kind = "NUMBER" /\ v = t.num_value
  <2>1. t.type # "TOK_IDENT"
    BY <1>3
  <2> QED
    BY <1>3, <2>1, Zenon DEF OperandOf
<1> QED
  BY <1>1, <1>2, <1>3 DEF Stands

LEMMA ParseOperandParts ==
  ASSUME NEW p, NEW c
  PROVE  LET mem   == tokens[p].type = "TOK_LBRACKET"
             q     == IF mem THEN advance(p) ELSE p
             after == advance(q)
             a     == parse_operand(p, c)
         IN  /\ a.operand = OperandOf(tokens[q], c, mem)
             /\ a.next = IF mem THEN advance(after) ELSE after
             /\ /\ OperandOf(tokens[q], c, mem) # OPKIND_NONE
                /\ mem => tokens[after].type = "TOK_RBRACKET"
                => a.ok
<1> DEFINE mem   == tokens[p].type = "TOK_LBRACKET"
           q     == IF mem THEN advance(p) ELSE p
           after == advance(q)
           t     == tokens[q]
<1>1. parse_operand(p, c) =
        [ok      |-> /\ OperandOf(t, c, mem) # OPKIND_NONE
                     /\ mem => tokens[after].type = "TOK_RBRACKET",
         operand |-> OperandOf(t, c, mem),
         next    |-> IF mem THEN advance(after) ELSE after]
  BY DEF parse_operand, OperandOf
<1> QED
  BY <1>1

LEMMA BareOperand ==
  ASSUME IsTokenList(tokens), NEW p \in DOMAIN tokens, NEW c, NEW kind, NEW v,
         Stands(tokens[p], c, FALSE, kind, v)
  PROVE  LET a == parse_operand(p, c) IN
         /\ a.ok /\ a.next = p + 1
         /\ a.operand = ParsedOperand(kind, FALSE, v, NoText)
<1>1. tokens[p].type # "TOK_LBRACKET" /\ tokens[p].type # "TOK_EOF"
  BY DEF Stands
<1>2. advance(p) = p + 1
  BY <1>1, AdvanceType
<1>3. (tokens[p].type = "TOK_LBRACKET") = FALSE
  BY <1>1
<1>4. /\ OperandOf(tokens[p], c, FALSE) = ParsedOperand(kind, FALSE, v, NoText)
      /\ kind \in {"REG", "NUMBER"}
  BY OperandOfToken
<1>5. ParsedOperand(kind, FALSE, v, NoText) # OPKIND_NONE
  <2>1. ParsedOperand(kind, FALSE, v, NoText).kind = kind
    BY DEF ParsedOperand
  <2>2. OPKIND_NONE.kind = "NONE"
    BY DEF OPKIND_NONE, ParsedOperand
  <2>3. kind # "NONE"
    BY <1>4
  <2> QED
    BY <2>1, <2>2, <2>3, Zenon
<1>6. /\ parse_operand(p, c).operand = OperandOf(tokens[p], c, FALSE)
      /\ parse_operand(p, c).next = advance(p)
      /\ OperandOf(tokens[p], c, FALSE) # OPKIND_NONE => parse_operand(p, c).ok
  BY <1>3, ParseOperandParts
<1> QED
  BY <1>2, <1>4, <1>5, <1>6

LEMMA BracketOperand ==
  ASSUME IsTokenList(tokens), NEW p \in DOMAIN tokens, p + 1 \in DOMAIN tokens,
         p + 2 \in DOMAIN tokens, NEW c, NEW kind, NEW v,
         tokens[p].type = "TOK_LBRACKET", Stands(tokens[p + 1], c, TRUE, kind, v),
         tokens[p + 2].type = "TOK_RBRACKET"
  PROVE  LET a == parse_operand(p, c) IN
         /\ a.ok /\ a.next = p + 3
         /\ a.operand = ParsedOperand(kind, TRUE, v, NoText)
<1>0. tokens[p].type # "TOK_EOF" /\ tokens[p + 2].type # "TOK_EOF"
  OBVIOUS
<1>1. advance(p) = p + 1
  BY <1>0, AdvanceType
<1>2. tokens[p + 1].type # "TOK_EOF"
  BY DEF Stands
<1>3. advance(p + 1) = p + 2 /\ advance(p + 2) = p + 3
  <2>1. advance(p + 1) = (p + 1) + 1 /\ advance(p + 2) = (p + 2) + 1 /\ p \in Nat
    BY <1>0, <1>2, AdvanceType
  <2> QED
    BY <2>1
<1>4. (tokens[p].type = "TOK_LBRACKET") = TRUE
  OBVIOUS
<1>5. /\ OperandOf(tokens[p + 1], c, TRUE) = ParsedOperand(kind, TRUE, v, NoText)
      /\ kind \in {"REG", "NUMBER"}
  BY OperandOfToken
<1>6. ParsedOperand(kind, TRUE, v, NoText) # OPKIND_NONE
  <2>1. ParsedOperand(kind, TRUE, v, NoText).kind = kind
    BY DEF ParsedOperand
  <2>2. OPKIND_NONE.kind = "NONE"
    BY DEF OPKIND_NONE, ParsedOperand
  <2>3. kind # "NONE"
    BY <1>5
  <2> QED
    BY <2>1, <2>2, <2>3, Zenon
<1>7. /\ parse_operand(p, c).operand = OperandOf(tokens[p + 1], c, TRUE)
      /\ parse_operand(p, c).next = advance(p + 2)
      /\ /\ OperandOf(tokens[p + 1], c, TRUE) # OPKIND_NONE
         /\ tokens[p + 2].type = "TOK_RBRACKET"
         => parse_operand(p, c).ok
  BY <1>1, <1>3, ParseOperandParts, Zenon
<1> QED
  BY <1>3, <1>5, <1>6, <1>7

-----------------------------------------------------------------------------
\* What dis prints of an operand is read back as that operand.

LEMMA WordsReadBack ==
  /\ \A n \in 0 .. 7 : /\ register_name(n) \in DOMAIN REGISTERS
                       /\ REGISTERS[register_name(n)] = n
  /\ \A n \in DOMAIN SyscallNames : /\ SyscallNames[n] \in DOMAIN SYSCALLS
                                    /\ SyscallNames[n] \notin DOMAIN REGISTERS
                                    /\ SYSCALLS[SyscallNames[n]] = n
<1>1. ASSUME NEW n \in 0 .. 7
      PROVE  /\ register_name(n) \in DOMAIN REGISTERS
             /\ REGISTERS[register_name(n)] = n
  BY DEF register_name, REGISTERS
<1>2. ASSUME NEW n \in DOMAIN SyscallNames
      PROVE  /\ SyscallNames[n] \in DOMAIN SYSCALLS
             /\ SyscallNames[n] \notin DOMAIN REGISTERS
             /\ SYSCALLS[SyscallNames[n]] = n
  <2>1. n \in {1, 2, 3, 4}
    BY DEF SyscallNames
  <2>2. CASE n = 1
    BY <2>2 DEF SyscallNames, SYSCALLS, REGISTERS
  <2>3. CASE n = 2
    BY <2>3 DEF SyscallNames, SYSCALLS, REGISTERS
  <2>4. CASE n = 3
    BY <2>4 DEF SyscallNames, SYSCALLS, REGISTERS
  <2>5. CASE n = 4
    BY <2>5 DEF SyscallNames, SYSCALLS, REGISTERS
  <2> QED
    BY <2>1, <2>2, <2>3, <2>4, <2>5
<1> QED
  BY <1>1, <1>2

LEMMA MnemonicReadBack ==
  ASSUME NEW op \in Opcode
  PROVE  /\ mnemonic_for(op) \in DOMAIN MNEMONICS
         /\ MNEMONICS[mnemonic_for(op)] = op
<1>1. op \in 0 .. 31 \/ op = 255
  BY DEF Opcode, OP_NOP, OP_SYS, OP_HALT
<1>2. CASE op = 255
  BY <1>2 DEF mnemonic_for, MNEMONICS, OP_HALT
<1>3. CASE op \in 0 .. 31
  BY <1>3 DEF mnemonic_for, MNEMONICS, OP_NOP, OP_MOV, OP_ADD, OP_SUB, OP_MUL, OP_DIV, OP_MOD, OP_AND, OP_OR, OP_XOR, OP_NOT, OP_SHL, OP_SHR, OP_LOAD, OP_STORE, OP_PUSH, OP_POP, OP_CMP, OP_JMP, OP_JZ, OP_JNZ, OP_JG, OP_JGE, OP_JL, OP_JLE, OP_JB, OP_JAE, OP_JA, OP_JBE, OP_CALL, OP_RET, OP_SYS, OP_HALT
<1> QED
  BY <1>1, <1>2, <1>3

kind_of(op) ==
  IF op.mode \in {MODE_REG, MODE_REG_INDIRECT} THEN "REG" ELSE "NUMBER"
in_brackets(op, legal) ==
  \/ op.mode = MODE_REG_INDIRECT
  \/ op.mode = MODE_MEM_DIRECT /\ MODE_REG_INDIRECT \in legal

\* A printed operand is one token that stands for it, perhaps in brackets.
LEMMA OperandPrinted ==
  ASSUME NEW opcode, NEW op, IsOperand(op), NEW legal, op.mode # MODE_NONE
  PROVE  \E w :
           /\ format_operand(opcode, op, legal)
                = IF in_brackets(op, legal) THEN <<LBRACKET, w, RBRACKET>> ELSE <<w>>
           /\ Stands(w, opcode, in_brackets(op, legal), kind_of(op), op.value)
<1> DEFINE f == format_operand(opcode, op, legal)
           v == op.value
           reg == Ident(register_name(v))
           sys == Ident(SyscallNames[v])
           num == Number(v)
           R(w, mem) == Stands(w, opcode, mem, kind_of(op), v)
<1>0. op.mode \in 0 .. 5
      /\ (op.mode \in {MODE_REG, MODE_REG_INDIRECT} => v \in 0 .. 7)
  BY DEF IsOperand
<1> USE DEF MODE_NONE, MODE_REG, MODE_IMM16, MODE_MEM_DIRECT,
            MODE_REG_INDIRECT, MODE_IMM8
<1>1. reg.type = "TOK_IDENT" /\ reg.text = register_name(v)
      /\ sys.type = "TOK_IDENT" /\ sys.text = SyscallNames[v]
      /\ num.type = "TOK_NUMBER" /\ num.num_value = v
  BY DEF Ident, Number, Token
<1> HIDE DEF reg, sys, num
<1>2. CASE op.mode = MODE_REG
  <2>1. f = <<reg>> /\ ~in_brackets(op, legal) /\ kind_of(op) = "REG"
    BY <1>2 DEF format_operand, reg, in_brackets, kind_of
  <2>2. Stands(reg, opcode, in_brackets(op, legal), kind_of(op), v)
    BY <1>0, <1>1, <1>2, <2>1, WordsReadBack DEF Stands
  <2> QED
    BY <2>1, <2>2
<1>3. CASE op.mode = MODE_REG_INDIRECT
  <2>1. f = <<LBRACKET, reg, RBRACKET>> /\ in_brackets(op, legal) /\ kind_of(op) = "REG"
    BY <1>3 DEF format_operand, reg, in_brackets, kind_of
  <2>2. Stands(reg, opcode, in_brackets(op, legal), kind_of(op), v)
    BY <1>0, <1>1, <1>3, <2>1, WordsReadBack DEF Stands
  <2> QED
    BY <2>1, <2>2
<1>4. CASE op.mode = MODE_IMM8 /\ opcode = OP_SYS /\ v \in DOMAIN SyscallNames
  <2>1. f = <<sys>> /\ ~in_brackets(op, legal) /\ kind_of(op) = "NUMBER"
    BY <1>4 DEF format_operand, sys, in_brackets, kind_of
  <2>2. Stands(sys, opcode, in_brackets(op, legal), kind_of(op), v)
    BY <1>1, <1>4, <2>1, WordsReadBack DEF Stands
  <2> QED
    BY <2>1, <2>2
<1>5. CASE op.mode = MODE_MEM_DIRECT /\ MODE_REG_INDIRECT \in legal
  <2>1. f = <<LBRACKET, num, RBRACKET>> /\ in_brackets(op, legal) /\ kind_of(op) = "NUMBER"
    BY <1>5 DEF format_operand, num, in_brackets, kind_of
  <2>2. Stands(num, opcode, in_brackets(op, legal), kind_of(op), v)
    BY <1>1, <2>1 DEF Stands
  <2> QED
    BY <2>1, <2>2
<1>6. CASE /\ op.mode \notin {MODE_REG, MODE_REG_INDIRECT}
           /\ ~(op.mode = MODE_IMM8 /\ opcode = OP_SYS /\ v \in DOMAIN SyscallNames)
           /\ ~(op.mode = MODE_MEM_DIRECT /\ MODE_REG_INDIRECT \in legal)
  <2>1. f = <<num>> /\ ~in_brackets(op, legal) /\ kind_of(op) = "NUMBER"
    BY <1>6 DEF format_operand, num, in_brackets, kind_of
  <2>2. Stands(num, opcode, in_brackets(op, legal), kind_of(op), v)
    BY <1>1, <2>1 DEF Stands
  <2> QED
    BY <2>1, <2>2
<1> QED
  BY <1>2, <1>3, <1>4, <1>5, <1>6

\* The brackets tell the parser the mode.
LEMMA ResolveBy ==
  ASSUME NEW r, NEW legal
  PROVE  LET mode == resolve_operand_mode(r, legal) IN
         /\ r.kind = "REG" /\ ~r.mem /\ r.value \in 0 .. 7 /\ MODE_REG \in legal
            => mode = MODE_REG
         /\ r.kind = "REG" /\ r.mem /\ r.value \in 0 .. 7
            /\ MODE_REG_INDIRECT \in legal => mode = MODE_REG_INDIRECT
         /\ r.kind # "REG" /\ r.mem /\ MODE_MEM_DIRECT \in legal
            => mode = MODE_MEM_DIRECT
         /\ r.kind # "REG" /\ ~r.mem /\ legal # MODES_MEM /\ MODE_IMM16 \in legal
            => mode = MODE_IMM16
         /\ r.kind # "REG" /\ ~r.mem /\ legal # MODES_MEM /\ MODE_IMM16 \notin legal
            /\ MODE_MEM_DIRECT \in legal => mode = MODE_MEM_DIRECT
         /\ r.kind # "REG" /\ ~r.mem /\ legal # MODES_MEM /\ MODE_IMM16 \notin legal
            /\ MODE_MEM_DIRECT \notin legal /\ MODE_IMM8 \in legal => mode = MODE_IMM8
<1> HIDE DEF MODE_NONE, MODE_REG, MODE_IMM16, MODE_MEM_DIRECT,
             MODE_REG_INDIRECT, MODE_IMM8
<1>1. ASSUME r.kind = "REG", ~r.mem, r.value \in 0 .. 7, MODE_REG \in legal
      PROVE  resolve_operand_mode(r, legal) = MODE_REG
  BY <1>1 DEF resolve_operand_mode
<1>2. ASSUME r.kind = "REG", r.mem, r.value \in 0 .. 7, MODE_REG_INDIRECT \in legal
      PROVE  resolve_operand_mode(r, legal) = MODE_REG_INDIRECT
  BY <1>2 DEF resolve_operand_mode
<1>3. ASSUME r.kind # "REG", r.mem, MODE_MEM_DIRECT \in legal
      PROVE  resolve_operand_mode(r, legal) = MODE_MEM_DIRECT
  BY <1>3 DEF resolve_operand_mode
<1>4. ASSUME r.kind # "REG", ~r.mem, legal # MODES_MEM, MODE_IMM16 \in legal
      PROVE  resolve_operand_mode(r, legal) = MODE_IMM16
  BY <1>4 DEF resolve_operand_mode
<1>5. ASSUME r.kind # "REG", ~r.mem, legal # MODES_MEM, MODE_IMM16 \notin legal,
             MODE_MEM_DIRECT \in legal
      PROVE  resolve_operand_mode(r, legal) = MODE_MEM_DIRECT
  BY <1>5 DEF resolve_operand_mode
<1>6. ASSUME r.kind # "REG", ~r.mem, legal # MODES_MEM, MODE_IMM16 \notin legal,
             MODE_MEM_DIRECT \notin legal, MODE_IMM8 \in legal
      PROVE  resolve_operand_mode(r, legal) = MODE_IMM8
  BY <1>6 DEF resolve_operand_mode
<1> QED
  BY <1>1, <1>2, <1>3, <1>4, <1>5, <1>6

LEMMA ModeReadBack ==
  ASSUME NEW op, IsOperand(op), op.mode # MODE_NONE, NEW label,
         NEW legal \in {MODES_MEM, MODES_REG_IMM16, {MODE_MEM_DIRECT},
                        {MODE_IMM8}, {MODE_REG}}, op.mode \in legal
  PROVE  resolve_operand_mode(ParsedOperand(kind_of(op), in_brackets(op, legal),
                                            op.value, label), legal) = op.mode
<1> DEFINE k == kind_of(op)
           b == in_brackets(op, legal)
           r == ParsedOperand(k, b, op.value, label)
<1> SUFFICES resolve_operand_mode(r, legal) = op.mode
  OBVIOUS
<1>1. r.kind = k /\ r.mem = b /\ r.value = op.value
  BY DEF ParsedOperand
<1>2. op.mode \in {MODE_REG, MODE_REG_INDIRECT} => op.value \in 0 .. 7
  BY DEF IsOperand
<1> HIDE DEF r
<1> USE DEF MODE_NONE, MODE_REG, MODE_IMM16, MODE_MEM_DIRECT,
            MODE_REG_INDIRECT, MODE_IMM8, MODES_MEM, MODES_REG_IMM16, NoMode
<1>3. CASE op.mode = MODE_REG
  <2>1. r.kind = "REG" /\ ~r.mem
    BY <1>1, <1>3 DEF kind_of, in_brackets
  <2> QED
    BY <1>1, <1>2, <1>3, <2>1, ResolveBy
<1>4. CASE op.mode = MODE_REG_INDIRECT
  <2>1. r.kind = "REG" /\ r.mem
    BY <1>1, <1>4 DEF kind_of, in_brackets
  <2> QED
    BY <1>1, <1>2, <1>4, <2>1, ResolveBy
<1>5. CASE op.mode = MODE_MEM_DIRECT /\ legal = MODES_MEM
  <2>1. r.kind = "NUMBER" /\ r.mem
    BY <1>1, <1>5 DEF kind_of, in_brackets
  <2> QED
    BY <1>1, <1>5, <2>1, ResolveBy
<1>6. CASE op.mode \in {MODE_MEM_DIRECT, MODE_IMM16, MODE_IMM8} /\ legal # MODES_MEM
  <2>1. r.kind = "NUMBER" /\ ~r.mem
    BY <1>1, <1>6 DEF kind_of, in_brackets
  <2> QED
    BY <1>1, <1>6, <2>1, ResolveBy
<1>7. op.mode \in {MODE_REG, MODE_REG_INDIRECT, MODE_MEM_DIRECT, MODE_IMM16, MODE_IMM8}
      /\ (legal = MODES_MEM => op.mode \in {MODE_REG_INDIRECT, MODE_MEM_DIRECT})
  OBVIOUS
<1> QED
  BY <1>3, <1>4, <1>5, <1>6, <1>7

LEMMA OperandReadBack ==
  ASSUME IsTokenList(tokens), NEW p \in Nat, p >= 1, NEW opcode,
         NEW op, IsOperand(op), op.mode # MODE_NONE, NEW legal,
         Reads(tokens, p, format_operand(opcode, op, legal))
  PROVE  LET a == parse_operand(p, opcode) IN
         /\ a.ok /\ a.next = p + Len(format_operand(opcode, op, legal))
         /\ a.operand = ParsedOperand(kind_of(op), in_brackets(op, legal),
                                      op.value, NoText)
         /\ p \in DOMAIN tokens /\ tokens[p].type \notin EndOfLine /\ tokens[p].type # "TOK_COLON"
<1> DEFINE f == format_operand(opcode, op, legal)
           b == in_brackets(op, legal)
           k == kind_of(op)
           v == op.value
           a == parse_operand(p, opcode)
<1>1. PICK w : /\ f = IF b THEN <<LBRACKET, w, RBRACKET>> ELSE <<w>>
               /\ Stands(w, opcode, b, k, v)
  BY OperandPrinted
<1>2. /\ Len(tokens) \in Nat /\ DOMAIN tokens = 1 .. Len(tokens)
      /\ p + Len(f) <= Len(tokens) + 1
      /\ \A i \in 1 .. Len(f) : tokens[p + (i - 1)] = f[i]
  BY TokenListType DEF Reads
<1> HIDE DEF f, k, v, a
<1>3. CASE b
  <2>1. f = <<LBRACKET, w, RBRACKET>> /\ Stands(w, opcode, TRUE, k, v)
    BY <1>1, <1>3
  <2>2. Len(f) = 3 /\ f[1] = LBRACKET /\ f[2] = w /\ f[3] = RBRACKET
    BY <2>1
  <2>3. /\ p \in DOMAIN tokens /\ p + 1 \in DOMAIN tokens /\ p + 2 \in DOMAIN tokens
    BY <1>2, <2>2
  <2>4. tokens[p] = LBRACKET /\ tokens[p + 1] = w /\ tokens[p + 2] = RBRACKET
    <3>1. tokens[p + (1 - 1)] = LBRACKET /\ tokens[p + (2 - 1)] = w
          /\ tokens[p + (3 - 1)] = RBRACKET
      BY <1>2, <2>2
    <3> QED
      BY <3>1
  <2>5. tokens[p].type = "TOK_LBRACKET" /\ tokens[p + 2].type = "TOK_RBRACKET"
    BY <2>4 DEF LBRACKET, RBRACKET, Simple, Token
  <2>6. Stands(tokens[p + 1], opcode, TRUE, k, v)
    BY <2>1, <2>4
  <2>7. a.ok /\ a.next = p + 3 /\ a.operand = ParsedOperand(k, TRUE, v, NoText)
    BY <2>3, <2>5, <2>6, BracketOperand DEF a
  <2>8. b = TRUE
    BY <1>3
  <2>9. tokens[p].type \notin EndOfLine /\ tokens[p].type # "TOK_COLON"
    BY <2>5 DEF EndOfLine
  <2> QED
    BY <2>2, <2>3, <2>7, <2>8, <2>9 DEF a, f, k, v
<1>4. CASE ~b
  <2>8. b = FALSE
    BY <1>4 DEF in_brackets
  <2>1. f = <<w>> /\ Stands(w, opcode, FALSE, k, v)
    BY <1>1, <1>4, <2>8
  <2>2. Len(f) = 1 /\ f[1] = w
    BY <2>1
  <2>3. p \in DOMAIN tokens
    BY <1>2, <2>2
  <2>4. tokens[p] = w
    <3>1. tokens[p + (1 - 1)] = w
      BY <1>2, <2>2
    <3> QED
      BY <3>1
  <2>6. Stands(tokens[p], opcode, FALSE, k, v)
    BY <2>1, <2>4
  <2>7. a.ok /\ a.next = p + 1 /\ a.operand = ParsedOperand(k, FALSE, v, NoText)
    BY <2>3, <2>6, BareOperand DEF a
  <2>9. tokens[p].type \notin EndOfLine /\ tokens[p].type # "TOK_COLON"
    BY <2>6 DEF EndOfLine, Stands
  <2> QED
    BY <2>2, <2>3, <2>7, <2>8, <2>9 DEF a, f, k, v
<1> QED
  BY <1>3, <1>4

-----------------------------------------------------------------------------
\* A printed instruction is read back as that instruction.

LEMMA ReadsParts ==
  ASSUME NEW t, NEW p \in Nat, NEW a \in Seq(TokenSet), NEW b \in Seq(TokenSet),
         Len(t) \in Nat, Reads(t, p, a \o b)
  PROVE  Reads(t, p, a) /\ Reads(t, p + Len(a), b)
<1> DEFINE u == a \o b
<1>1. Joins(a, b)
  BY TokensJoin
<1>2. /\ Len(a) \in Nat /\ Len(b) \in Nat /\ Len(u) = Len(a) + Len(b)
      /\ \A k \in 1 .. Len(a) : u[k] = a[k]
      /\ \A k \in 1 .. Len(b) : u[Len(a) + k] = b[k]
      /\ p + Len(u) <= Len(t) + 1
      /\ \A i \in 1 .. Len(u) : t[p + (i - 1)] = u[i]
  BY <1>1 DEF Joins, Reads
<1> HIDE DEF u
<1>3. ASSUME NEW i \in 1 .. Len(a) PROVE t[p + (i - 1)] = a[i]
  <2>1. i \in 1 .. Len(u)
    BY <1>2
  <2> QED
    BY <1>2, <2>1
<1>4. ASSUME NEW i \in 1 .. Len(b) PROVE t[(p + Len(a)) + (i - 1)] = b[i]
  <2> DEFINE j == Len(a) + i
  <2>1. j \in 1 .. Len(u) /\ p + (j - 1) = (p + Len(a)) + (i - 1)
    BY <1>2
  <2>2. u[j] = b[i]
    BY <1>2
  <2> HIDE DEF j
  <2>3. t[p + (j - 1)] = u[j]
    BY <1>2, <2>1
  <2> QED
    BY <2>1, <2>2, <2>3
<1>5. p + Len(a) <= Len(t) + 1 /\ (p + Len(a)) + Len(b) <= Len(t) + 1
  BY <1>2
<1> QED
  BY <1>3, <1>4, <1>5 DEF Reads

LEMMA ReadsOne ==
  ASSUME NEW t, NEW p \in Nat, NEW x, Len(t) \in Nat, Reads(t, p, <<x>>)
  PROVE  t[p] = x /\ p <= Len(t)
<1>1. Len(<<x>>) = 1 /\ <<x>>[1] = x
  OBVIOUS
<1>2. t[p + (1 - 1)] = x /\ p + 1 <= Len(t) + 1
  BY <1>1 DEF Reads
<1> QED
  BY <1>2

\* What an accepted instruction is.
IsParsed(i, opcode, o1, m1, o2, m2, n) ==
  /\ i.ok /\ i.next = n
  /\ i.stmt.kind = "STMT_INSTRUCTION" /\ i.stmt.opcode = opcode
  /\ i.stmt.op1 = o1 /\ i.stmt.op1_mode = m1
  /\ i.stmt.op2 = o2 /\ i.stmt.op2_mode = m2

LEMMA ParseNone ==
  ASSUME NEW opcode, NEW p, tokens[p].type \in EndOfLine,
         op1_modes(opcode) = {MODE_NONE}
  PROVE  IsParsed(parse_instruction(opcode, p), opcode,
                  OPKIND_NONE, MODE_NONE, OPKIND_NONE, MODE_NONE, p)
<1> DEFINE i == parse_instruction(opcode, p)
           size == 2 + mode_byte_size(MODE_NONE) + mode_byte_size(MODE_NONE)
           st == [Statement("STMT_INSTRUCTION", size) EXCEPT
                     !.opcode = opcode, !.op1_mode = MODE_NONE,
                     !.op2_mode = MODE_NONE,
                     !.op1 = OPKIND_NONE, !.op2 = OPKIND_NONE]
<1>0. MODE_NONE # NoMode
  BY DEF MODE_NONE, NoMode
<1>1. i.stmt = st /\ i.next = p /\ i.ok
  <2> HIDE DEF MODE_NONE
  <2> QED
    BY <1>0 DEF parse_instruction
<1> HIDE DEF i, size
<1>2. /\ st.kind = "STMT_INSTRUCTION" /\ st.opcode = opcode
      /\ st.op1 = OPKIND_NONE /\ st.op1_mode = MODE_NONE
      /\ st.op2 = OPKIND_NONE /\ st.op2_mode = MODE_NONE
  <2> HIDE DEF MODE_NONE
  <2> QED
    BY DEF Statement
<1> HIDE DEF st
<1> QED
  BY <1>1, <1>2 DEF IsParsed, i

LEMMA ParseOne ==
  ASSUME NEW opcode, NEW p, tokens[p].type \notin EndOfLine,
         parse_operand(p, opcode).ok,
         tokens[parse_operand(p, opcode).next].type # "TOK_COMMA",
         op1_modes(opcode) # {MODE_NONE}, op2_modes(opcode) = {MODE_NONE},
         NEW m1, m1 # NoMode,
         m1 = resolve_operand_mode(parse_operand(p, opcode).operand,
                                   op1_modes(opcode))
  PROVE  LET a == parse_operand(p, opcode) IN
         IsParsed(parse_instruction(opcode, p), opcode,
                  a.operand, m1, OPKIND_NONE, MODE_NONE, a.next)
<1> DEFINE i == parse_instruction(opcode, p)
           a == parse_operand(p, opcode)
           size == 2 + mode_byte_size(m1) + mode_byte_size(MODE_NONE)
           st == [Statement("STMT_INSTRUCTION", size) EXCEPT
                     !.opcode = opcode, !.op1_mode = m1,
                     !.op2_mode = MODE_NONE,
                     !.op1 = a.operand, !.op2 = OPKIND_NONE]
<1>0. MODE_NONE # NoMode
  BY DEF MODE_NONE, NoMode
<1>1. i.stmt = st /\ i.next = a.next /\ i.ok
  <2> HIDE DEF MODE_NONE
  <2> QED
    BY <1>0 DEF parse_instruction
<1> HIDE DEF i, size, a
<1>2. /\ st.kind = "STMT_INSTRUCTION" /\ st.opcode = opcode
      /\ st.op1 = a.operand /\ st.op1_mode = m1
      /\ st.op2 = OPKIND_NONE /\ st.op2_mode = MODE_NONE
  <2> HIDE DEF MODE_NONE
  <2> QED
    BY DEF Statement
<1> HIDE DEF st
<1> QED
  BY <1>1, <1>2 DEF IsParsed, i, a

LEMMA ParseTwo ==
  ASSUME NEW opcode, NEW p, tokens[p].type \notin EndOfLine,
         parse_operand(p, opcode).ok,
         tokens[parse_operand(p, opcode).next].type = "TOK_COMMA",
         NEW b, b = parse_operand(advance(parse_operand(p, opcode).next), opcode),
         b.ok,
         op1_modes(opcode) # {MODE_NONE}, op2_modes(opcode) # {MODE_NONE},
         NEW m1, m1 # NoMode,
         m1 = resolve_operand_mode(parse_operand(p, opcode).operand,
                                   op1_modes(opcode)),
         NEW m2, m2 # NoMode,
         m2 = resolve_operand_mode(b.operand, op2_modes(opcode))
  PROVE  IsParsed(parse_instruction(opcode, p), opcode,
                  parse_operand(p, opcode).operand, m1, b.operand, m2, b.next)
<1> DEFINE i == parse_instruction(opcode, p)
           a == parse_operand(p, opcode)
           size == 2 + mode_byte_size(m1) + mode_byte_size(m2)
           st == [Statement("STMT_INSTRUCTION", size) EXCEPT
                     !.opcode = opcode, !.op1_mode = m1, !.op2_mode = m2,
                     !.op1 = a.operand, !.op2 = b.operand]
<1>1. i.stmt = st /\ i.next = b.next /\ i.ok
  <2> HIDE DEF MODE_NONE
  <2> DEFINE none  == tokens[p].type \in EndOfLine
             c     == parse_operand(advance(a.next), opcode)
             two   == ~none /\ a.ok /\ tokens[a.next].type = "TOK_COMMA"
             count == IF none THEN 0 ELSE IF two THEN 2 ELSE 1
             expected == IF op1_modes(opcode) = {MODE_NONE} THEN 0
                         ELSE IF op2_modes(opcode) = {MODE_NONE} THEN 1 ELSE 2
             n1 == IF expected >= 1 /\ a.ok
                   THEN resolve_operand_mode(a.operand, op1_modes(opcode))
                   ELSE MODE_NONE
             n2 == IF expected = 2 /\ two /\ c.ok
                   THEN resolve_operand_mode(c.operand, op2_modes(opcode))
                   ELSE MODE_NONE
             o1 == IF count >= 1 THEN a.operand ELSE OPKIND_NONE
             o2 == IF count = 2 THEN c.operand ELSE OPKIND_NONE
             sz == 2 + mode_byte_size(n1) + mode_byte_size(n2)
  <2>1. /\ i.stmt = [Statement("STMT_INSTRUCTION", sz) EXCEPT
                       !.opcode = opcode, !.op1_mode = n1, !.op2_mode = n2,
                       !.op1 = o1, !.op2 = o2]
        /\ i.next = IF none THEN p ELSE IF two THEN c.next ELSE a.next
        /\ i.ok <=> (/\ none \/ a.ok
                     /\ two => c.ok
                     /\ count = expected
                     /\ n1 # NoMode /\ n2 # NoMode)
    BY Zenon DEF parse_instruction
  <2>2. none = FALSE /\ two = TRUE /\ c = b /\ c.ok /\ a.ok
    OBVIOUS
  <2> HIDE DEF i, a, c
  <2>3. count = 2 /\ expected = 2
    BY <2>2
  <2>4. n1 = m1 /\ n2 = m2 /\ o1 = a.operand /\ o2 = b.operand
    BY <2>2, <2>3 DEF a
  <2>5. sz = size
    BY <2>4
  <2> HIDE DEF none, two, count, expected, n1, n2, o1, o2, sz
  <2> QED
    BY <2>1, <2>2, <2>3, <2>4, <2>5
<1> HIDE DEF i, size, a
<1>2. /\ st.kind = "STMT_INSTRUCTION" /\ st.opcode = opcode
      /\ st.op1 = a.operand /\ st.op1_mode = m1
      /\ st.op2 = b.operand /\ st.op2_mode = m2
  BY DEF Statement
<1> HIDE DEF st
<1> QED
  BY <1>1, <1>2 DEF IsParsed, i, a

IsDecoded(d) ==
  /\ d.opcode \in Opcode
  /\ IsOperand(d.op1) /\ d.op1.mode \in op1_modes(d.opcode)
  /\ IsOperand(d.op2) /\ d.op2.mode \in op2_modes(d.opcode)

LEMMA ModeSets ==
  ASSUME NEW op \in Opcode
  PROVE  /\ MODE_NONE \in op1_modes(op) =>
              op1_modes(op) = {MODE_NONE} /\ op2_modes(op) = {MODE_NONE}
         /\ MODE_NONE \notin op1_modes(op) =>
              /\ op1_modes(op) # {MODE_NONE}
              /\ op1_modes(op) \in {MODES_MEM, MODES_REG_IMM16, {MODE_MEM_DIRECT},
                                    {MODE_IMM8}, {MODE_REG}}
         /\ MODE_NONE \in op2_modes(op) => op2_modes(op) = {MODE_NONE}
         /\ MODE_NONE \notin op2_modes(op) =>
              /\ op2_modes(op) # {MODE_NONE}
              /\ op2_modes(op) \in {MODES_MEM, MODES_REG_IMM16, {MODE_REG}}
<1> USE DEF MODE_NONE, MODE_REG, MODE_IMM16, MODE_MEM_DIRECT,
            MODE_REG_INDIRECT, MODE_IMM8, MODES_MEM, MODES_REG_IMM16
<1>1. /\ op1_modes(op) \in {{MODE_NONE}, MODES_MEM, MODES_REG_IMM16,
                            {MODE_MEM_DIRECT}, {MODE_IMM8}, {MODE_REG}}
      /\ op2_modes(op) \in {MODES_MEM, {MODE_REG}, MODES_REG_IMM16, {MODE_NONE}}
  BY LegalSets
<1>2. op1_modes(op) = {MODE_NONE} => op2_modes(op) = {MODE_NONE}
  BY DEF op1_modes, op2_modes, OP_NOP, OP_RET, OP_HALT, OP_LOAD, OP_STORE,
         OP_MOV, OP_SHR, OP_NOT, OP_CMP
<1> QED
  BY <1>1, <1>2

ReadAs(op, legal) ==
  IF op.mode = MODE_NONE THEN OPKIND_NONE
  ELSE ParsedOperand(kind_of(op), in_brackets(op, legal), op.value, NoText)

LEMMA ReadAsMode ==
  ASSUME NEW op, IsOperand(op), op.mode # MODE_NONE,
         NEW legal \in {MODES_MEM, MODES_REG_IMM16, {MODE_MEM_DIRECT},
                        {MODE_IMM8}, {MODE_REG}}, op.mode \in legal
  PROVE  resolve_operand_mode(ReadAs(op, legal), legal) = op.mode
<1> DEFINE r == ParsedOperand(kind_of(op), in_brackets(op, legal), op.value, NoText)
<1>1. resolve_operand_mode(r, legal) = op.mode
  BY ModeReadBack, Zenon
<1>2. ReadAs(op, legal) = r
  BY DEF ReadAs
<1> HIDE DEF r
<1> QED
  BY <1>1, <1>2

LEMMA InstructionReadBack ==
  ASSUME IsTokenList(tokens), NEW p \in Nat, p >= 1, NEW d, IsDecoded(d),
         Reads(tokens, p, Append(format_instruction(d), NEWLINE))
  PROVE  LET q == p + Len(format_instruction(d)) IN
         /\ p \in DOMAIN tokens /\ tokens[p] = Ident(mnemonic_for(d.opcode))
         /\ p + 1 \in DOMAIN tokens /\ tokens[p + 1].type # "TOK_COLON"
         /\ q \in DOMAIN tokens /\ tokens[q] = NEWLINE
         /\ IsParsed(parse_instruction(d.opcode, p + 1), d.opcode,
                     ReadAs(d.op1, op1_modes(d.opcode)), d.op1.mode,
                     ReadAs(d.op2, op2_modes(d.opcode)), d.op2.mode, q)
<1> DEFINE c    == d.opcode
           l1   == op1_modes(c)
           l2   == op2_modes(c)
           name == Ident(mnemonic_for(c))
           f1   == format_operand(c, d.op1, l1)
           f2   == format_operand(c, d.op2, l2)
           two  == d.op1.mode # MODE_NONE /\ d.op2.mode # MODE_NONE
           tail == IF two THEN <<COMMA>> \o f2 ELSE <<>>
           h    == <<name>> \o f1
           F    == format_instruction(d)
           q    == p + Len(F)
           a    == parse_operand(p + 1, c)
           i    == parse_instruction(c, p + 1)
<1>1. c \in Opcode /\ IsOperand(d.op1) /\ IsOperand(d.op2)
      /\ d.op1.mode \in l1 /\ d.op2.mode \in l2
  BY DEF IsDecoded
<1>2. name \in TokenSet /\ COMMA \in TokenSet /\ NEWLINE \in TokenSet
  BY <1>1, MnemonicText, TokenType
<1>3. f1 \in Seq(TokenSet) /\ f2 \in Seq(TokenSet)
  BY <1>1, FormatOperandType
<1>4. F = h \o tail
  BY DEF format_instruction
<1>5. COMMA.type = "TOK_COMMA" /\ NEWLINE.type = "TOK_NEWLINE"
  BY DEF COMMA, NEWLINE, Simple, Token
<1> DEFINE nl == NEWLINE
           cm == COMMA
<1> HIDE DEF name, f1, f2, nl, cm
<1>6. <<name>> \in Seq(TokenSet) /\ Len(<<name>>) = 1 /\ <<nl>> \in Seq(TokenSet)
      /\ <<cm>> \in Seq(TokenSet) /\ Len(<<cm>>) = 1 /\ Len(<<nl>>) = 1
  BY <1>2 DEF nl, cm
<1>7. h \in Seq(TokenSet) /\ Len(h) = 1 + Len(f1) /\ Len(f1) \in Nat /\ Len(f2) \in Nat
  BY <1>3, <1>6, TwoParts
<1>8. /\ tail \in Seq(TokenSet) /\ Len(tail) \in Nat
      /\ Len(tail) = IF two THEN 1 + Len(f2) ELSE 0
  BY <1>3, <1>6, TwoParts DEF cm
<1> HIDE DEF h, tail, F
<1>9. F \in Seq(TokenSet) /\ Len(F) = Len(h) + Len(tail)
  BY <1>4, <1>7, <1>8, TwoParts
<1>10. Len(tokens) \in Nat /\ DOMAIN tokens = 1 .. Len(tokens)
  BY TokenListType
<1>11. Reads(tokens, p, F) /\ Reads(tokens, q, <<nl>>)
  <2>1. Append(F, nl) = F \o <<nl>>
    BY <1>2, <1>9 DEF nl
  <2>2. Reads(tokens, p, F \o <<nl>>)
    BY <2>1 DEF F, nl
  <2> QED
    BY <1>6, <1>9, <1>10, <2>2, ReadsParts
<1>12. q \in Nat /\ q >= p /\ q = p + 1 + Len(f1) + Len(tail)
  <2>1. Len(h) = 1 + Len(f1) /\ Len(f1) \in Nat /\ Len(tail) \in Nat
        /\ Len(F) = Len(h) + Len(tail)
    BY <1>7, <1>8, <1>9
  <2> HIDE DEF two
  <2> QED
    BY <2>1
<1> HIDE DEF q
<1>13. q \in DOMAIN tokens /\ tokens[q] = nl
  BY <1>10, <1>11, <1>12, ReadsOne
<1>14. Reads(tokens, p, h) /\ Reads(tokens, p + Len(h), tail)
  BY <1>4, <1>7, <1>8, <1>10, <1>11, ReadsParts
<1>15. Reads(tokens, p, <<name>>) /\ Reads(tokens, p + 1, f1)
  BY <1>3, <1>6, <1>10, <1>14, ReadsParts DEF h
<1>16. p \in DOMAIN tokens /\ tokens[p] = name
  BY <1>10, <1>15, ReadsOne
<1>17. p + 1 \in Nat /\ p + 1 >= 1 /\ p + 1 \in DOMAIN tokens
  <2>1. Len(f1) \in Nat /\ Len(tail) \in Nat
    BY <1>7, <1>8
  <2>2. p + 1 <= q /\ q <= Len(tokens) /\ q \in Nat
    BY <1>10, <1>12, <1>13, <2>1
  <2> QED
    BY <1>10, <2>2
<1>18. CASE d.op1.mode = MODE_NONE
  <2>1. l1 = {MODE_NONE} /\ l2 = {MODE_NONE}
    BY <1>1, <1>18, ModeSets
  <2>2. d.op2.mode = MODE_NONE
    BY <1>1, <2>1
  <2>3. f1 = <<>> /\ Len(f1) = 0 /\ Len(tail) = 0
    BY <1>8, <1>18 DEF f1, format_operand, MODE_NONE, MODE_REG,
       MODE_REG_INDIRECT, MODE_IMM8, MODE_MEM_DIRECT
  <2>4. q = p + 1
    BY <1>12, <2>3
  <2>5. tokens[p + 1].type = "TOK_NEWLINE"
    BY <1>5, <1>13, <2>4 DEF nl
  <2>6. IsParsed(i, c, OPKIND_NONE, MODE_NONE, OPKIND_NONE, MODE_NONE, p + 1)
    BY <2>1, <2>5, ParseNone DEF EndOfLine
  <2>7. ReadAs(d.op1, l1) = OPKIND_NONE /\ ReadAs(d.op2, l2) = OPKIND_NONE
    BY <1>18, <2>2 DEF ReadAs
  <2>8. IsParsed(i, c, ReadAs(d.op1, l1), d.op1.mode, ReadAs(d.op2, l2), d.op2.mode, q)
    BY <1>18, <2>2, <2>4, <2>6, <2>7
  <2> QED
    BY <1>13, <1>16, <1>17, <2>5, <2>8 DEF q, F, name, nl
<1>19. CASE d.op1.mode # MODE_NONE
  <2>1. MODE_NONE \notin l1
    BY <1>1, <1>19, ModeSets
  <2>2. l1 # {MODE_NONE}
        /\ l1 \in {MODES_MEM, MODES_REG_IMM16, {MODE_MEM_DIRECT}, {MODE_IMM8}, {MODE_REG}}
    BY <1>1, <2>1, ModeSets
  <2>3. /\ a.ok /\ a.next = p + 1 + Len(f1) /\ a.operand = ReadAs(d.op1, l1)
        /\ tokens[p + 1].type \notin EndOfLine /\ tokens[p + 1].type # "TOK_COLON"
    <3>1. Reads(tokens, p + 1, format_operand(c, d.op1, l1))
      BY <1>15 DEF f1
    <3> QED
      BY <1>1, <1>17, <1>19, <3>1, OperandReadBack DEF ReadAs, f1
  <2>4. d.op1.mode = resolve_operand_mode(a.operand, l1)
    BY <1>1, <1>19, <2>2, <2>3, ReadAsMode
  <2>5. d.op1.mode # NoMode /\ d.op2.mode # NoMode
    BY <1>1 DEF IsOperand, NoMode
  <2>6. CASE d.op2.mode = MODE_NONE
    <3>1. l2 = {MODE_NONE}
      BY <1>1, <2>6, ModeSets
    <3>2. a.next = q
      BY <1>8, <1>12, <2>3, <2>6
    <3>3. tokens[a.next].type # "TOK_COMMA"
      BY <1>5, <1>13, <3>2 DEF nl
    <3>4. IsParsed(i, c, a.operand, d.op1.mode, OPKIND_NONE, MODE_NONE, a.next)
      BY <2>2, <2>3, <2>4, <2>5, <3>1, <3>3, ParseOne
    <3>5. ReadAs(d.op2, l2) = OPKIND_NONE
      BY <2>6 DEF ReadAs
    <3>6. IsParsed(i, c, ReadAs(d.op1, l1), d.op1.mode, ReadAs(d.op2, l2), d.op2.mode, q)
      BY <2>3, <2>6, <3>2, <3>4, <3>5
    <3> QED
      BY <1>13, <1>16, <1>17, <2>3, <3>6 DEF q, F, name, nl
  <2>7. CASE d.op2.mode # MODE_NONE
    <3>1. l2 # {MODE_NONE} /\ l2 \in {MODES_MEM, MODES_REG_IMM16, {MODE_REG}}
      <4>1. MODE_NONE \notin l2
        BY <1>1, <2>7, ModeSets
      <4> QED
        BY <1>1, <4>1, ModeSets
    <3>2. two /\ tail = <<cm>> \o f2 /\ Len(tail) = 1 + Len(f2)
      BY <1>8, <1>19, <2>7 DEF tail, cm
    <3>3. a.next = p + Len(h) /\ a.next \in Nat /\ a.next >= 1
      BY <1>7, <2>3
    <3>4. Reads(tokens, a.next, <<cm>> \o f2)
      BY <1>14, <3>2, <3>3
    <3>5. Reads(tokens, a.next, <<cm>>) /\ Reads(tokens, a.next + 1, f2)
      BY <1>3, <1>6, <1>10, <3>3, <3>4, ReadsParts
    <3>6. tokens[a.next] = cm /\ a.next \in DOMAIN tokens
      BY <1>10, <3>3, <3>5, ReadsOne
    <3>7. tokens[a.next].type = "TOK_COMMA"
      BY <1>5, <3>6 DEF cm
    <3>8. advance(a.next) = a.next + 1
      BY <3>6, <3>7, AdvanceType
    <3> DEFINE b == parse_operand(a.next + 1, c)
    <3>9. b.ok /\ b.next = a.next + 1 + Len(f2) /\ b.operand = ReadAs(d.op2, l2)
      <4>1. Reads(tokens, a.next + 1, format_operand(c, d.op2, l2))
        BY <3>5 DEF f2
      <4>2. a.next + 1 \in Nat /\ a.next + 1 >= 1
        BY <3>3
      <4> QED
        BY <1>1, <2>7, <4>1, <4>2, OperandReadBack DEF ReadAs, f2
    <3>10. b.next = q
      BY <1>7, <1>12, <3>2, <3>3, <3>9
    <3>11. d.op2.mode = resolve_operand_mode(b.operand, l2)
      BY <1>1, <2>7, <3>1, <3>9, ReadAsMode
    <3>12. b = parse_operand(advance(a.next), c)
      BY <3>8
    <3> HIDE DEF b
    <3>13. IsParsed(i, c, a.operand, d.op1.mode, b.operand, d.op2.mode, b.next)
      BY <2>2, <2>3, <2>4, <2>5, <3>1, <3>7, <3>9, <3>11, <3>12, ParseTwo
    <3>14. IsParsed(i, c, ReadAs(d.op1, l1), d.op1.mode, ReadAs(d.op2, l2), d.op2.mode, q)
      BY <2>3, <3>9, <3>10, <3>13
    <3> QED
      BY <1>13, <1>16, <1>17, <2>3, <3>14 DEF q, F, name, nl
  <2> QED
    BY <2>6, <2>7
<1> QED
  BY <1>18, <1>19

-----------------------------------------------------------------------------
\* The bytes of an instruction read back are those it was decoded from.

LEMMA OperandWritten ==
  ASSUME NEW m, IsMemory(m), NEW a \in Word, NEW mode \in 0 .. 5, NEW op,
         a + mode_byte_size(mode) <= 65536,
         mode # MODE_NONE =>
           /\ op.kind # "LABEL"
           /\ op.value = decode_operand(m, a, mode).operand.value,
         decode_operand(m, a, mode).result = "VM_OK"
  PROVE  /\ Written(m, a, operand_bytes(mode, op))
         /\ range_check(mode, resolve_value(op))
<1> DEFINE v == resolve_value(op)
           d == decode_operand(m, a, mode)
           b == operand_bytes(mode, op)
<1> USE DEF MODE_NONE, MODE_REG, MODE_IMM16, MODE_MEM_DIRECT,
            MODE_REG_INDIRECT, MODE_IMM8
<1>0. a \in Nat /\ a + (1 - 1) = a
  BY DEF Word
<1>1. CASE mode = MODE_NONE
  <2>1. b = <<>>
    BY <1>1 DEF operand_bytes, mode_byte_size
  <2> QED
    BY <1>1, <2>1, EmptySeq DEF Written, range_check
<1>2. CASE mode \in {MODE_REG, MODE_REG_INDIRECT, MODE_IMM8}
  <2>1. v = d.operand.value
    BY <1>2 DEF resolve_value
  <2>2. mem_read8(m, a) \in Byte
    BY Read8Type
  <2>3. d.operand.value = mem_read8(m, a)
    BY <1>2 DEF decode_operand
  <2>4. mode_byte_size(mode) = 1
    BY <1>2 DEF mode_byte_size
  <2>5. b = <<v % 256>>
    BY <2>4 DEF operand_bytes
  <2> HIDE DEF v, d
  <2>6. v \in Byte /\ v % 256 = v
    BY <2>1, <2>2, <2>3 DEF Byte
  <2>7. b = <<v>> /\ mem_read8(m, a) = v
    BY <2>1, <2>3, <2>5, <2>6
  <2>8. Len(<<v>>) = 1 /\ <<v>>[1] = v
    OBVIOUS
  <2>9. Written(m, a, <<v>>)
    <3> SUFFICES ASSUME NEW k \in 1 .. Len(<<v>>)
                 PROVE  mem_read8(m, a + (k - 1)) = <<v>>[k]
      BY DEF Written
    <3>1. k = 1
      BY <2>8
    <3> QED
      BY <1>0, <2>7, <2>8, <3>1
  <2>10. range_check(mode, v)
    BY <1>2, <2>6 DEF range_check, Byte
  <2> QED
    BY <2>7, <2>9, <2>10 DEF v
<1>3. CASE mode \in {MODE_IMM16, MODE_MEM_DIRECT}
  <2>1. v = d.operand.value
    BY <1>3 DEF resolve_value
  <2>2. mode_byte_size(mode) = 2
    BY <1>3 DEF mode_byte_size
  <2>3. a + 1 \in Word /\ (a + 1) % 65536 = a + 1
    BY <2>2 DEF Word
  <2>4. mem_read8(m, a) \in Byte /\ mem_read8(m, a + 1) \in Byte
    BY <2>3, Read8Type
  <2>5. d.operand.value = mem_read16(m, a)
    BY <1>3 DEF decode_operand
  <2>6. b = word_bytes(v)
    BY <2>2 DEF operand_bytes
  <2> DEFINE lo == mem_read8(m, a)
             hi == mem_read8(m, a + 1)
  <2> HIDE DEF v, d
  <2>7. v = lo + 256 * hi
    BY <2>1, <2>3, <2>5 DEF mem_read16
  <2> HIDE DEF lo, hi
  <2>8. lo \in Nat /\ lo < 256 /\ hi \in Nat /\ hi < 256
    BY <2>4 DEF lo, hi, Byte
  <2>9. v % 256 = lo /\ (v \div 256) % 256 = hi /\ v \in Nat /\ v <= 65535
    BY <2>7, <2>8
  <2>10. /\ Len(word_bytes(v)) = 2 /\ word_bytes(v)[1] = lo
         /\ word_bytes(v)[2] = hi
    BY <2>9, WordBytes
  <2>11. Written(m, a, word_bytes(v))
    <3> SUFFICES ASSUME NEW k \in 1 .. Len(word_bytes(v))
                 PROVE  mem_read8(m, a + (k - 1)) = word_bytes(v)[k]
      BY DEF Written
    <3>1. k = 1 \/ k = 2
      BY <2>10
    <3>2. a + (2 - 1) = a + 1
      BY <1>0
    <3> QED
      BY <1>0, <2>10, <3>1, <3>2 DEF lo, hi
  <2>12. range_check(mode, v)
    BY <1>3, <2>9 DEF range_check
  <2> QED
    BY <2>6, <2>11, <2>12 DEF v
<1> QED
  BY <1>1, <1>2, <1>3

LEMMA WrittenParts ==
  ASSUME NEW m, NEW A \in Nat, NEW h \in Seq(Byte), NEW b1 \in Seq(Byte),
         NEW b2 \in Seq(Byte), Written(m, A, h), Written(m, A + Len(h), b1),
         Written(m, A + Len(h) + Len(b1), b2)
  PROVE  Written(m, A, h \o b1 \o b2)
<1> DEFINE e == h \o b1 \o b2
<1>0. h \in Seq(Byte) /\ b1 \in Seq(Byte) /\ b2 \in Seq(Byte)
  OBVIOUS
<1>1. /\ Len(e) = Len(h) + Len(b1) + Len(b2)
      /\ \A k \in 1 .. Len(h) : e[k] = h[k]
      /\ \A k \in 1 .. Len(b1) : e[Len(h) + k] = b1[k]
      /\ \A k \in 1 .. Len(b2) : e[Len(h) + Len(b1) + k] = b2[k]
  BY <1>0, ThreeParts, SMTT(60)
<1>n. Len(h) \in Nat /\ Len(b1) \in Nat /\ Len(b2) \in Nat
  OBVIOUS
<1> HIDE DEF e
<1> SUFFICES ASSUME NEW k \in 1 .. Len(e)
             PROVE  mem_read8(m, A + (k - 1)) = e[k]
  BY DEF Written, e
<1>2. CASE k <= Len(h)
  <2>1. k \in 1 .. Len(h)
    BY <1>1, <1>n, <1>2
  <2> QED
    BY <1>1, <2>1 DEF Written
<1>3. CASE k > Len(h) /\ k <= Len(h) + Len(b1)
  <2> DEFINE j == k - Len(h)
  <2>1. j \in 1 .. Len(b1) /\ k = Len(h) + j /\ A + Len(h) + (j - 1) = A + (k - 1)
    BY <1>1, <1>n, <1>3
  <2> HIDE DEF j
  <2>2. mem_read8(m, A + Len(h) + (j - 1)) = b1[j]
    BY <2>1 DEF Written
  <2>3. e[Len(h) + j] = b1[j]
    BY <1>1, <2>1
  <2> QED
    BY <2>1, <2>2, <2>3
<1>4. CASE k > Len(h) + Len(b1)
  <2> DEFINE j == k - Len(h) - Len(b1)
  <2>1. /\ j \in 1 .. Len(b2) /\ k = Len(h) + Len(b1) + j
        /\ A + Len(h) + Len(b1) + (j - 1) = A + (k - 1)
    BY <1>1, <1>n, <1>4
  <2> HIDE DEF j
  <2>2. mem_read8(m, A + Len(h) + Len(b1) + (j - 1)) = b2[j]
    BY <2>1 DEF Written
  <2>3. e[Len(h) + Len(b1) + j] = b2[j]
    BY <1>1, <2>1
  <2> QED
    BY <2>1, <2>2, <2>3
<1> QED
  BY <1>1, <1>n, <1>2, <1>3, <1>4

\* An instruction read back at x: what was decoded there.
IsReadBack(st, d, x) ==
  /\ st.kind = "STMT_INSTRUCTION" /\ st.address = x /\ st.opcode = d.opcode
  /\ st.op1 = ReadAs(d.op1, op1_modes(d.opcode)) /\ st.op1_mode = d.op1.mode
  /\ st.op2 = ReadAs(d.op2, op2_modes(d.opcode)) /\ st.op2_mode = d.op2.mode

LEMMA ReadAsValue ==
  ASSUME NEW op, NEW legal
  PROVE  /\ ReadAs(op, legal).kind # "LABEL"
         /\ op.mode # MODE_NONE => ReadAs(op, legal).value = op.value
<1>1. CASE op.mode = MODE_NONE
  <2>1. ReadAs(op, legal) = OPKIND_NONE
    BY <1>1 DEF ReadAs
  <2>2. OPKIND_NONE.kind = "NONE"
    BY DEF OPKIND_NONE, ParsedOperand
  <2> QED
    BY <1>1, <2>1, <2>2
<1>2. CASE op.mode # MODE_NONE
  <2> DEFINE k == kind_of(op)
             b == in_brackets(op, legal)
             r == ParsedOperand(k, b, op.value, NoText)
  <2>1. ReadAs(op, legal) = r
    BY <1>2 DEF ReadAs
  <2>2. k # "LABEL"
    BY DEF kind_of
  <2> HIDE DEF k, b
  <2>3. r.kind = k /\ r.value = op.value
    BY DEF ParsedOperand
  <2> HIDE DEF r
  <2> QED
    BY <2>1, <2>2, <2>3
<1> QED
  BY <1>1, <1>2

LEMMA InstructionWritten ==
  ASSUME NEW m, IsMemory(m), NEW x \in Word,
         instruction_decode(m, x).result = "VM_OK",
         instruction_decode(m, x).next > x,
         NEW st, IsBody(st), IsReadBack(st, instruction_decode(m, x), x)
  PROVE  /\ emits(st) /\ Written(m, x, Encoding(st))
         /\ x + st.encoded_size = instruction_decode(m, x).next
<1> DEFINE d  == instruction_decode(m, x)
           x1 == (x + 1) % 65536
           x2 == (x + 2) % 65536
           m1 == Mode1(m, x)
           m2 == Mode2(m, x)
           o1 == First(m, x)
           o2 == Second(m, x)
           s1 == mode_byte_size(m1)
           s2 == mode_byte_size(m2)
           op == mem_read8(m, x)
           md == mem_read8(m, (x + 1) % 65536)
<1>1. /\ op \in Opcode /\ m1 \in op1_modes(op) /\ m2 \in op2_modes(op)
      /\ o1.result = "VM_OK" /\ o2.result = "VM_OK"
      /\ d.opcode = op /\ d.op1 = o1.operand /\ d.op2 = o2.operand
      /\ d.next = o2.next
  BY DecodeParts DEF Decodable, Decoded
<1>2. m1 \in 0 .. 5 /\ m2 \in 0 .. 5
  BY <1>1, LegalModes
<1>3. x1 \in Word /\ x2 \in Word
  BY WrapIsWord DEF Word
<1>3a. md \in Byte /\ op \in Byte /\ m1 = md \div 16 /\ m2 = md % 16
  BY <1>3, Read8Type DEF Mode1, Mode2
<1>4. s1 \in {0, 1, 2} /\ s2 \in {0, 1, 2}
  BY ModeSize
<1> HIDE DEF op, m1, m2, s1, s2, md
<1>4a. 16 * m1 + m2 = md
  BY <1>3a DEF Byte
<1>5. o1.next = (x2 + s1) % 65536
  BY <1>2, <1>3, OperandNext DEF s1, First, m1
<1> DEFINE a2 == o1.next
<1>6. a2 \in Word
  BY <1>3, <1>4, <1>5, WrapIsWord DEF Word
<1>7. o2.next = (a2 + s2) % 65536
  BY <1>2, <1>6, OperandNext DEF s2, Second, m2
<1>8. d.next = o2.next
  BY <1>1
<1>8a. o1 = decode_operand(m, x2, m1) /\ o2 = decode_operand(m, a2, m2)
  BY DEF First, Second, m1, m2
<1> HIDE DEF o1, o2, d
<1>9. /\ x1 = x + 1 /\ x2 = x + 2 /\ a2 = x + 2 + s1
      /\ d.next = x + 2 + s1 + s2 /\ d.next <= 65535
  <2>1. x1 = (x + 1) % 65536 /\ x2 = (x + 2) % 65536
    OBVIOUS
  <2>2. a2 = (x2 + s1) % 65536 /\ d.next = (a2 + s2) % 65536 /\ d.next > x
    BY <1>5, <1>7, <1>8 DEF d
  <2> HIDE DEF x1, x2, a2
  <2> QED
    BY <1>4, <2>1, <2>2 DEF Word
<1>10. o1.operand.mode = m1 /\ o2.operand.mode = m2
  BY <1>2, <1>3, <1>6, <1>8a, DecodeOperandType
<1> DEFINE p1 == st.op1
           p2 == st.op2
<1>11. /\ st.kind = "STMT_INSTRUCTION" /\ st.address = x /\ st.opcode = op
       /\ st.op1_mode = m1 /\ st.op2_mode = m2
       /\ p1 = ReadAs(d.op1, op1_modes(op)) /\ p2 = ReadAs(d.op2, op2_modes(op))
  BY <1>1, <1>10 DEF IsReadBack, d
<1> HIDE DEF p1, p2
<1>12. /\ p1.kind # "LABEL" /\ (m1 # MODE_NONE => p1.value = o1.operand.value)
       /\ p2.kind # "LABEL" /\ (m2 # MODE_NONE => p2.value = o2.operand.value)
  BY <1>1, <1>10, <1>11, ReadAsValue
<1>13. x \in Nat
  BY DEF Word
<1>14. /\ Written(m, x2, operand_bytes(m1, p1))
       /\ range_check(m1, resolve_value(p1))
  <2>1. x2 + s1 <= 65536
    <3> HIDE DEF x2
    <3> QED
      BY <1>4, <1>9, <1>13
  <2> QED
    BY <1>1, <1>2, <1>3, <1>8a, <1>12, <2>1, OperandWritten DEF s1
<1>15. /\ Written(m, a2, operand_bytes(m2, p2))
       /\ range_check(m2, resolve_value(p2))
  <2>1. a2 + s2 <= 65536
    <3> HIDE DEF a2
    <3> QED
      BY <1>4, <1>9, <1>13
  <2> QED
    BY <1>1, <1>2, <1>6, <1>8a, <1>12, <2>1, OperandWritten DEF s2
<1>16. emits(st)
  BY <1>11, <1>12, <1>14, <1>15 DEF emits, resolves, p1, p2
<1> DEFINE h == head_bytes(st)
           b1 == operand_bytes(st.op1_mode, st.op1)
           b2 == operand_bytes(st.op2_mode, st.op2)
<1>17. h = <<op, md>>
  BY <1>4a, <1>11 DEF head_bytes
<1>18. h \in Seq(Byte) /\ Len(h) = 2 /\ Written(m, x, h)
  <2>1. /\ Len(<<op, md>>) = 2 /\ <<op, md>>[1] = op /\ <<op, md>>[2] = md
        /\ <<op, md>> \in Seq(Byte)
    BY <1>3a
  <2>2. Written(m, x, <<op, md>>)
    <3> SUFFICES ASSUME NEW k \in 1 .. Len(<<op, md>>)
                 PROVE  mem_read8(m, x + (k - 1)) = <<op, md>>[k]
      BY DEF Written
    <3>1. k = 1 \/ k = 2
      BY <2>1
    <3>2. x + (1 - 1) = x /\ x + (2 - 1) = x + 1
      BY <1>13
    <3>3. mem_read8(m, x) = op /\ mem_read8(m, x + 1) = md
      BY <1>9 DEF op, md
    <3> QED
      BY <2>1, <3>1, <3>2, <3>3
  <2> QED
    BY <1>17, <2>1, <2>2
<1>19. /\ b1 = operand_bytes(m1, p1) /\ b2 = operand_bytes(m2, p2)
  BY <1>11 DEF p1, p2
<1>20. resolve_value(p1) \in Int /\ resolve_value(p2) \in Int
  BY <1>11, <1>12 DEF IsBody, resolve_value, p1, p2
<1>21. b1 \in Seq(Byte) /\ Len(b1) = s1 /\ b2 \in Seq(Byte) /\ Len(b2) = s2
  BY <1>19, <1>20, OperandBytesType DEF s1, s2
<1> HIDE DEF h, b1, b2
<1>22. Written(m, x + Len(h), b1) /\ Written(m, x + Len(h) + Len(b1), b2)
  BY <1>9, <1>14, <1>15, <1>18, <1>19, <1>21
<1>23. Written(m, x, h \o b1 \o b2)
  BY <1>13, <1>18, <1>21, <1>22, WrittenParts
<1>24. st.encoded_size = 2 + s1 + s2
  BY <1>11 DEF IsBody, s1, s2
<1>25. x + st.encoded_size = d.next
  BY <1>4, <1>9, <1>13, <1>24
<1> QED
  BY <1>16, <1>23, <1>25 DEF Encoding, h, b1, b2, d

-----------------------------------------------------------------------------
\* The second assembly follows the path.

\* A statement's bytes are those of the image; all statements' are.
IsRight(st, code, img) ==
  \A k \in 1 .. st.encoded_size :
    code[k] = ByteAt(img, st.section, st.address + (k - 1))
AllRight(sts, code, passed, img) ==
  \A i \in 1 .. Len(sts) : i \in passed /\ IsRight(sts[i], code[i], img)

\* The statements fill section s up to e.
Covered(sts, img, s, e) ==
  \A a \in region_start(img, s) .. e - 1 :
    \E i \in 1 .. Len(sts) : sts[i].section = s /\ a \in Extent(sts[i])

Tracked ==
  /\ extent <= region_end(given, section)
  /\ \A s \in Section : started[s] => start_addr[s] = region_start(given, s)
  /\ extent > region_start(given, section) => started[section]
  /\ section = "data" => /\ given.data_size # 0 /\ started["code"]
                         /\ code_extent = code_end(given)
                         /\ Covered(stmts, given, "data", extent)
  /\ Covered(stmts, given, "code", code_extent)
  /\ AllRight(stmts, Code, Passed, given)

LEMMA AppendedCode ==
  ASSUME IsSeq(stmts), NEW t, stmts' = Append(stmts, t), symtab' = symtab
  PROVE  /\ \A i \in 1 .. Len(stmts) : Code'[i] = Code[i]
         /\ Code'[Len(stmts) + 1] = Encoding(t)
         /\ \A i \in Passed : i \in Passed'
         /\ emits(t) => Len(stmts) + 1 \in Passed'
<1>1. /\ Len(stmts) \in Nat /\ Len(stmts') = Len(stmts) + 1
      /\ \A i \in 1 .. Len(stmts) : stmts'[i] = stmts[i]
      /\ stmts'[Len(stmts) + 1] = t
  BY AppendSeq
<1>2. Code' = [i \in 1 .. Len(stmts') |-> Encoding(stmts'[i])]
  BY DEF Code, Encoding, head_bytes, operand_bytes, word_bytes, resolve_value
<1>3. Passed' = {i \in 1 .. Len(stmts') : emits(stmts'[i])}
  BY DEF Passed, emits, resolves, resolve_value, range_check
<1>4. /\ Code = [i \in 1 .. Len(stmts) |-> Encoding(stmts[i])]
      /\ Passed = {i \in 1 .. Len(stmts) : emits(stmts[i])}
  BY DEF Code, Passed
<1>5. /\ \A i \in 1 .. Len(stmts) : i \in 1 .. Len(stmts')
      /\ Len(stmts) + 1 \in 1 .. Len(stmts')
  BY <1>1
<1> QED
  BY <1>1, <1>2, <1>3, <1>4, <1>5

LEMMA RightNext ==
  ASSUME IsSeq(stmts), AllRight(stmts, Code, Passed, given),
         NEW t, stmts' = Append(stmts, t), symtab' = symtab, given' = given,
         emits(t), IsRight(t, Encoding(t), given)
  PROVE  AllRight(stmts', Code', Passed', given')
<1>1. /\ Len(stmts) \in Nat /\ Len(stmts') = Len(stmts) + 1
      /\ \A i \in 1 .. Len(stmts) : stmts'[i] = stmts[i]
      /\ stmts'[Len(stmts) + 1] = t
  BY AppendSeq
<1>2. /\ \A i \in 1 .. Len(stmts) : Code'[i] = Code[i]
      /\ Code'[Len(stmts) + 1] = Encoding(t)
      /\ \A i \in Passed : i \in Passed'
      /\ Len(stmts) + 1 \in Passed'
  BY AppendedCode
<1> SUFFICES ASSUME NEW i \in 1 .. Len(stmts')
             PROVE  i \in Passed' /\ IsRight(stmts'[i], Code'[i], given)
  BY DEF AllRight
<1>3. CASE i \in 1 .. Len(stmts)
  BY <1>1, <1>2, <1>3 DEF AllRight
<1>4. CASE i = Len(stmts) + 1
  BY <1>1, <1>2, <1>4
<1> QED
  BY <1>1, <1>3, <1>4

LEMMA CoveredNext ==
  ASSUME NEW sts, IsSeq(sts), NEW img, NEW s, NEW e \in Nat,
         region_start(img, s) \in Nat,
         Covered(sts, img, s, e), NEW t
  PROVE  /\ Covered(Append(sts, t), img, s, e)
         /\ t.section = s /\ t.address = e /\ t.encoded_size \in Nat =>
              Covered(Append(sts, t), img, s, e + t.encoded_size)
<1> DEFINE u == Append(sts, t)
<1>1. /\ Len(sts) \in Nat /\ Len(u) = Len(sts) + 1
      /\ \A i \in 1 .. Len(sts) : u[i] = sts[i]
      /\ u[Len(sts) + 1] = t
  BY AppendSeq
<1> HIDE DEF u
<1>2. ASSUME NEW a \in region_start(img, s) .. e - 1
      PROVE  \E i \in 1 .. Len(u) : u[i].section = s /\ a \in Extent(u[i])
  <2>1. PICK i \in 1 .. Len(sts) : sts[i].section = s /\ a \in Extent(sts[i])
    BY DEF Covered
  <2>2. i \in 1 .. Len(u) /\ u[i] = sts[i]
    BY <1>1
  <2> QED
    BY <2>1, <2>2
<1>3. ASSUME t.section = s, t.address = e, t.encoded_size \in Nat,
             NEW a \in region_start(img, s) .. (e + t.encoded_size) - 1
      PROVE  \E i \in 1 .. Len(u) : u[i].section = s /\ a \in Extent(u[i])
  <2>1. CASE a < e
    <3>1. a \in region_start(img, s) .. e - 1
      BY <1>3, <2>1
    <3> QED
      BY <1>2, <3>1
  <2>2. CASE a >= e
    <3>1. a \in Extent(t)
      BY <1>3, <2>2 DEF Extent
    <3>2. Len(sts) + 1 \in 1 .. Len(u)
      BY <1>1
    <3> QED
      BY <1>1, <1>3, <3>1, <3>2
  <2> QED
    BY <1>3, <2>1, <2>2
<1>4. Covered(u, img, s, e)
  BY <1>2 DEF Covered
<1>5. t.section = s /\ t.address = e /\ t.encoded_size \in Nat =>
        Covered(u, img, s, e + t.encoded_size)
  BY <1>3 DEF Covered
<1> QED
  BY <1>4, <1>5 DEF u

LEMMA Regions ==
  ASSUME IsImage(given), Reproducible(given), NEW s \in Section
  PROVE  /\ region_start(given, s) \in Nat /\ region_end(given, s) \in Nat
         /\ region_end(given, s) <= 65536
  BY ReproducibleShape DEF region_start, region_end, Section

LEMMA TrackedFits ==
  ASSUME AsmShape, Layout, Tracked, IsImage(given), Reproducible(given)
  PROVE  /\ Fits /\ Counters /\ extent \in Nat /\ extent <= 65536
         /\ section \in Section /\ code_extent \in Nat
         /\ cursor[section] = extent % 65536
         /\ section = "code" => ~started["data"]
<1>1. section \in Section /\ extent \in Nat
  BY DEF AsmShape
<1>2. extent <= 65536
  BY <1>1, Regions DEF Tracked
<1>3. Fits
  BY <1>1, <1>2 DEF Fits, Overrun
<1>4. Counters
  BY <1>3 DEF Layout
<1>5. code_extent \in Nat
  BY <1>1 DEF AsmShape, code_extent, Section, Word
<1> QED
  BY <1>1, <1>2, <1>3, <1>4, <1>5 DEF Counters

LEMMA PlaceTracked ==
  ASSUME AsmShape, Layout, Tracked, IsImage(given), Reproducible(given),
         given' = given, NEW st, NEW p, PlacesStatement(st, p),
         emits(Placed(st)), IsRight(Placed(st), Encoding(Placed(st)), given),
         region_start(given, section) <= extent,
         extent + st.encoded_size <= region_end(given, section)
  PROVE  Tracked' /\ extent' = extent + st.encoded_size
<1> DEFINE t == Placed(st)
           n == st.encoded_size
<1>1. /\ section \in Section /\ extent \in Nat /\ extent <= 65536
      /\ code_extent \in Nat /\ IsSeq(stmts)
      /\ started \in [Section -> BOOLEAN] /\ start_addr \in [Section -> Word]
  BY TrackedFits DEF AsmShape
<1>2. /\ region_start(given, section) \in Nat /\ region_end(given, section) \in Nat
      /\ region_end(given, section) <= 65536
  BY <1>1, Regions
<1>3. /\ stmts' = Append(stmts, t) /\ symtab' = symtab
      /\ extent' = grown(extent, n) /\ n \in Nat /\ n > 0 /\ IsBody(st)
  BY DEF PlacesStatement, place, Placed, IsBody
<1>4. extent' = extent + n
  BY <1>1, <1>2, <1>3 DEF grown
<1>5. Fits'
  BY <1>1, <1>2, <1>3, <1>4 DEF Fits, Overrun
<1>6. /\ cursor[section] = extent
      /\ section' = section
      /\ started' = [started EXCEPT ![section] = TRUE]
      /\ start_addr' = IF started[section] THEN start_addr
                       ELSE [start_addr EXCEPT ![section] = extent]
      /\ code_extent' = IF section = "code" THEN extent' ELSE code_extent
  BY <1>5, PlaceCounters
<1>7. /\ t.section = section /\ t.address = extent /\ t.encoded_size = n
  BY <1>1, <1>3, <1>6, PlacedType DEF AsmShape
<1>8. AllRight(stmts', Code', Passed', given')
  BY <1>1, <1>3, RightNext DEF Tracked
<1>9. ASSUME NEW s \in Section, started'[s]
      PROVE  start_addr'[s] = region_start(given, s)
  <2>1. CASE s = section
    <3>1. CASE started[section]
      BY <1>6, <2>1, <3>1 DEF Tracked
    <3>2. CASE ~started[section]
      <4>1. extent = region_start(given, section)
        BY <1>1, <1>2, <3>2 DEF Tracked
      <4>2. start_addr' = [start_addr EXCEPT ![section] = extent]
        BY <1>6, <3>2, Zenon
      <4>3. [start_addr EXCEPT ![section] = extent][section] = extent
        BY <1>1, Updated
      <4> QED
        BY <2>1, <4>1, <4>2, <4>3, Zenon
    <3> QED
      BY <3>1, <3>2
  <2>2. CASE s # section
    <3>1. /\ [started EXCEPT ![section] = TRUE][s] = started[s]
          /\ [start_addr EXCEPT ![section] = extent][s] = start_addr[s]
      BY <1>1, <2>2, Updated
    <3>2. started'[s] = started[s] /\ start_addr'[s] = start_addr[s]
      BY <1>6, <3>1, Zenon
    <3> QED
      BY <1>9, <3>2 DEF Tracked
  <2> QED
    BY <2>1, <2>2
<1>10. started'[section]
  <2>1. [started EXCEPT ![section] = TRUE][section]
    BY <1>1, Updated
  <2> QED
    BY <1>6, <2>1, Zenon
<1> HIDE DEF t, n
<1>11. Covered(stmts', given, "code", code_extent')
  <2>1. region_start(given, "code") \in Nat /\ "code" \in Section
    BY Regions DEF Section
  <2>2. Covered(stmts, given, "code", code_extent)
    BY DEF Tracked
  <2>3. /\ Covered(Append(stmts, t), given, "code", code_extent)
        /\ t.section = "code" /\ t.address = code_extent /\ t.encoded_size \in Nat =>
              Covered(Append(stmts, t), given, "code", code_extent + t.encoded_size)
    BY <1>1, <2>1, <2>2, CoveredNext
  <2>4. CASE section = "code"
    <3>1. code_extent = extent
      BY <2>4 DEF code_extent
    <3> QED
      BY <1>3, <1>4, <1>6, <1>7, <2>3, <2>4, <3>1
  <2>5. CASE section # "code"
    BY <1>3, <1>6, <2>3, <2>5
  <2> QED
    BY <2>4, <2>5
<1>12. ASSUME section = "data"
       PROVE  /\ given.data_size # 0 /\ started'["code"]
              /\ code_extent' = code_end(given)
              /\ Covered(stmts', given, "data", extent')
  <2>1. /\ given.data_size # 0 /\ started["code"]
        /\ code_extent = code_end(given) /\ Covered(stmts, given, "data", extent)
    BY <1>12 DEF Tracked
  <2>2. region_start(given, "data") \in Nat /\ "code" \in Section
    BY Regions DEF Section
  <2>3. Covered(Append(stmts, t), given, "data", extent + t.encoded_size)
    BY <1>1, <1>3, <1>7, <1>12, <2>1, <2>2, CoveredNext
  <2>4. [started EXCEPT ![section] = TRUE]["code"] = started["code"]
    BY <1>1, <1>12, <2>2, Updated
  <2>5. started'["code"]
    BY <1>6, <2>1, <2>4, Zenon
  <2> QED
    BY <1>3, <1>4, <1>6, <1>7, <1>12, <2>1, <2>3, <2>5
<1>13. extent' <= region_end(given, section)
  BY <1>4 DEF n
<1> QED
  BY <1>4, <1>6, <1>8, <1>9, <1>10, <1>11, <1>12, <1>13 DEF Tracked, n

\* A statement without bytes is right anywhere.
LEMMA EmptyRight ==
  ASSUME NEW k, k \in {"STMT_ORG", "STMT_DATA_SECTION"}
  PROVE  LET t == Statement(k, 0) IN
         emits(t) /\ IsRight(t, Encoding(t), given) /\ t.encoded_size = 0
<1> DEFINE t == Statement(k, 0)
<1>1. t.encoded_size = 0 /\ t.kind = k
  BY DEF Statement
<1> HIDE DEF t
<1>2. emits(t)
  BY <1>1 DEF emits
<1>3. IsRight(t, Encoding(t), given)
  BY <1>1 DEF IsRight
<1> QED
  BY <1>1, <1>2, <1>3 DEF t

LEMMA OrgTracked ==
  ASSUME AsmShape, Layout, Tracked, IsImage(given), Reproducible(given),
         given' = given, parse_org,
         argument.num_value = region_start(given, section),
         extent <= region_start(given, section)
  PROVE  Tracked' /\ extent' = region_start(given, section)
<1> DEFINE a == region_start(given, section)
           t == Statement("STMT_ORG", 0)
<1>1. /\ section \in Section /\ extent \in Nat /\ extent <= 65536
      /\ code_extent \in Nat /\ IsSeq(stmts)
      /\ started \in [Section -> BOOLEAN] /\ cursor \in [Section -> Word]
  BY TrackedFits DEF AsmShape
<1>2. a \in Word /\ a \in Nat /\ a < 65536
  BY OrgMoves DEF Word
<1>3. /\ extent' = a /\ cursor' = [cursor EXCEPT ![section] = a]
  <2>1. argument.num_value = a
    OBVIOUS
  <2>2. ~(extent >= 65536)
    BY <1>1, <1>2
  <2> QED
    BY <2>1, <2>2, OrgMoves
<1>4. /\ stmts' = Append(stmts, t) /\ symtab' = symtab
      /\ UNCHANGED <<section, started, start_addr>>
  BY DEF parse_org
<1>5. AllRight(stmts', Code', Passed', given')
  BY <1>1, <1>4, EmptyRight, RightNext DEF Tracked
<1>6. code_extent' = IF section = "code" THEN a ELSE code_extent
  <2>1. CASE section = "code"
    BY <1>3, <1>4, <2>1 DEF code_extent
  <2>2. CASE section # "code"
    <3>1. "code" \in Section
      BY DEF Section
    <3>2. [cursor EXCEPT ![section] = a]["code"] = cursor["code"]
      BY <1>1, <2>2, <3>1, Updated
    <3>3. cursor'["code"] = cursor["code"]
      BY <1>3, <3>2, Zenon
    <3> QED
      BY <1>4, <2>2, <3>3 DEF code_extent
  <2> QED
    BY <2>1, <2>2
<1>7. a <= region_end(given, section)
  <2>1. /\ given.code_addr \in Nat /\ given.code_size \in Nat
        /\ code_end(given) = given.code_addr + given.code_size
        /\ given.data_addr \in Nat /\ given.data_size \in Nat
        /\ data_end(given) = given.data_addr + given.data_size
    BY ReproducibleShape
  <2> QED
    BY <2>1 DEF region_start, region_end
<1> HIDE DEF t
<1>8. /\ Covered(stmts', given, "code", code_extent)
      /\ section = "code" => Covered(stmts', given, "code", a)
      /\ section = "data" => Covered(stmts', given, "data", a)
  <2>1. region_start(given, "code") \in Nat
    BY Regions DEF Section
  <2>2. Covered(stmts, given, "code", code_extent)
    BY DEF Tracked
  <2>3. Covered(Append(stmts, t), given, "code", code_extent)
    BY <1>1, <2>1, <2>2, CoveredNext
  <2>4. a .. a - 1 = {}
    BY <1>2
  <2> QED
    BY <1>4, <2>3, <2>4 DEF Covered
<1>9. Covered(stmts', given, "code", code_extent')
  BY <1>6, <1>8
<1>10. section = "data" => /\ given.data_size # 0 /\ started'["code"]
                           /\ code_extent' = code_end(given)
                           /\ Covered(stmts', given, "data", extent')
  BY <1>3, <1>4, <1>6, <1>8 DEF Tracked
<1>11. \A s \in Section : started'[s] => start_addr'[s] = region_start(given, s)
  BY <1>4 DEF Tracked
<1>12. extent' <= region_end(given, section) /\ ~(extent' > a)
  BY <1>2, <1>3, <1>7
<1> QED
  BY <1>3, <1>4, <1>5, <1>9, <1>10, <1>11, <1>12 DEF Tracked

LEMMA DataTracked ==
  ASSUME AsmShape, Layout, Tracked, IsImage(given), Reproducible(given),
         given' = given, parse_data, extent = code_end(given),
         given.data_size # 0
  PROVE  Tracked' /\ extent' = extent /\ section' = "data"
<1> DEFINE t == Statement("STMT_DATA_SECTION", 0)
           ce == code_end(given)
<1>1. /\ section \in Section /\ extent \in Nat /\ extent <= 65536
      /\ code_extent \in Nat /\ IsSeq(stmts)
      /\ started \in [Section -> BOOLEAN] /\ cursor \in [Section -> Word]
      /\ cursor[section] = extent % 65536
  BY TrackedFits DEF AsmShape
<1>2. /\ section' = "data" /\ section = "code"
      /\ cursor' = [cursor EXCEPT !["data"] = cursor["code"]]
      /\ stmts' = Append(stmts, t)
      /\ UNCHANGED <<started, start_addr, extent, symtab>>
  BY <1>1 DEF parse_data, accepts_data, Section
<1>3. /\ given.code_addr \in Nat /\ given.code_addr < ce /\ ce < 65536
      /\ ce \in Nat /\ given.data_addr \in Nat /\ ce <= given.data_addr
      /\ data_end(given) \in Nat /\ given.data_addr <= data_end(given)
  <2>1. /\ given.code_addr \in Nat /\ given.code_size \in Nat
        /\ given.code_size > 0 /\ ce = given.code_addr + given.code_size
        /\ ce < 65536 /\ ce \in Nat
        /\ given.data_addr \in Nat /\ given.data_size \in Nat
        /\ data_end(given) = given.data_addr + given.data_size
        /\ data_end(given) \in Nat
        /\ given.data_size > 0 => ce <= given.data_addr
    BY ReproducibleShape
  <2> HIDE DEF ce
  <2> QED
    BY <2>1
<1>4. /\ region_start(given, "code") = given.code_addr
      /\ region_start(given, "data") = given.data_addr
      /\ region_end(given, "data") = data_end(given)
  BY DEF region_start, region_end
<1>5. started["code"]
  <2>1. extent > region_start(given, section)
    BY <1>2, <1>3, <1>4
  <2> QED
    BY <1>2, <2>1 DEF Tracked
<1>6. cursor["code"] = ce /\ cursor["code"] # 0
  <2> HIDE DEF ce
  <2>1. cursor["code"] = extent % 65536 /\ extent = ce
    BY <1>1, <1>2 DEF ce
  <2> QED
    BY <1>3, <2>1
<1>7. code_extent' = ce /\ code_extent = ce
  <2>1. "code" \in Section /\ "data" \in Section /\ "code" # "data"
    BY DEF Section
  <2>2. [cursor EXCEPT !["data"] = cursor["code"]]["code"] = cursor["code"]
    BY <1>1, <2>1, Updated
  <2>3. cursor'["code"] = cursor["code"]
    BY <1>2, <2>2, Zenon
  <2> QED
    BY <1>2, <1>6, <2>3 DEF code_extent
<1>8. AllRight(stmts', Code', Passed', given')
  BY <1>1, <1>2, EmptyRight, RightNext DEF Tracked
<1> HIDE DEF t
<1>9. Covered(stmts', given, "code", code_extent')
  <2>1. region_start(given, "code") \in Nat
    BY Regions DEF Section
  <2>2. Covered(stmts, given, "code", code_extent)
    BY DEF Tracked
  <2>3. Covered(Append(stmts, t), given, "code", code_extent)
    BY <1>1, <2>1, <2>2, CoveredNext
  <2> QED
    BY <1>2, <1>7, <2>3
<1>10. Covered(stmts', given, "data", extent')
  <2>1. given.data_addr .. ce - 1 = {}
    BY <1>3
  <2> QED
    BY <1>2, <1>4, <2>1 DEF Covered
<1>11. \A s \in Section : started'[s] => start_addr'[s] = region_start(given, s)
  BY <1>2 DEF Tracked
<1>12. /\ extent' <= region_end(given, "data")
       /\ ~(extent' > region_start(given, "data"))
  BY <1>2, <1>3, <1>4
<1> QED
  BY <1>2, <1>5, <1>7, <1>8, <1>9, <1>10, <1>11, <1>12 DEF Tracked

LEMMA SameTracked ==
  ASSUME Tracked, given' = given,
         UNCHANGED <<stmts, symtab, section, cursor, started, start_addr, extent>>
  PROVE  Tracked'
<1>1. Code' = Code /\ Passed' = Passed
  BY SameCode
<1>2. code_extent' = code_extent
  BY DEF code_extent
<1> QED
  BY <1>1, <1>2 DEF Tracked

\* What the sweep decodes is the code of the image.
LEMMA CodeByte ==
  ASSUME IsImage(given), Reproducible(given)
  PROVE  /\ IsMemory(dmem)
         /\ \A y \in given.code_addr .. code_end(given) - 1 :
              mem_read8(dmem, y) = ByteAt(given, "code", y)
<1> DEFINE ca == given.code_addr
           cs == given.code_size
           ce == code_end(given)
<1>1. /\ header_ok(given) /\ ca \in Nat /\ cs \in Nat /\ ce = ca + cs
      /\ ce < 65536
  BY ReproducibleShape
<1>2. accepts_image
  BY <1>1 DEF Reproducible, header_ok, accepts_image
<1>3. /\ IsMemory(dmem)
      /\ \A i \in 0 .. cs - 1 :
           mem_read8(dmem, (ca + i) % 65536) = given.body[i + 1]
  BY <1>2, SweptMemory
<1>4. ASSUME NEW y \in ca .. ce - 1
      PROVE  mem_read8(dmem, y) = ByteAt(given, "code", y)
  <2> HIDE DEF ca, cs, ce
  <2>1. y - ca \in 0 .. cs - 1 /\ (ca + (y - ca)) % 65536 = y
    BY <1>1
  <2>2. mem_read8(dmem, y) = given.body[(y - ca) + 1]
    BY <1>3, <2>1
  <2> QED
    BY <2>2 DEF ByteAt, ca
<1> QED
  BY <1>3, <1>4

LEMMA InstructionRight ==
  ASSUME AsmShape, IsImage(given), Reproducible(given),
         section = "code", cursor[section] = extent,
         instruction_decode(dmem, extent).result = "VM_OK",
         given.code_addr <= extent,
         extent < instruction_decode(dmem, extent).next,
         instruction_decode(dmem, extent).next <= code_end(given),
         NEW st, IsBody(st), st.kind = "STMT_INSTRUCTION",
         LET d == instruction_decode(dmem, extent) IN
           /\ st.opcode = d.opcode
           /\ st.op1 = ReadAs(d.op1, op1_modes(d.opcode)) /\ st.op1_mode = d.op1.mode
           /\ st.op2 = ReadAs(d.op2, op2_modes(d.opcode)) /\ st.op2_mode = d.op2.mode
  PROVE  /\ emits(Placed(st))
         /\ IsRight(Placed(st), Encoding(Placed(st)), given)
         /\ extent + st.encoded_size = instruction_decode(dmem, extent).next
<1> DEFINE t == Placed(st)
           d == instruction_decode(dmem, extent)
           ce == code_end(given)
<1>1. /\ section \in Section /\ cursor[section] \in Word /\ extent \in Word
      /\ \A n \in DOMAIN symtab : symtab[n] \in Word
  BY DEF AsmShape
<1>2. /\ IsStatement(t) /\ t.section = section /\ t.address = extent
      /\ t.encoded_size = st.encoded_size
  BY <1>1, PlacedType
<1>3. /\ t.kind = st.kind /\ t.opcode = st.opcode
      /\ t.op1 = st.op1 /\ t.op2 = st.op2
      /\ t.op1_mode = st.op1_mode /\ t.op2_mode = st.op2_mode
  BY DEF Placed, IsBody
<1>4. IsBody(t)
  BY <1>2 DEF IsStatement
<1>5. IsMemory(dmem)
  BY CodeByte
<1>6. /\ st.opcode = d.opcode
      /\ st.op1 = ReadAs(d.op1, op1_modes(d.opcode)) /\ st.op1_mode = d.op1.mode
      /\ st.op2 = ReadAs(d.op2, op2_modes(d.opcode)) /\ st.op2_mode = d.op2.mode
      /\ d.result = "VM_OK" /\ extent < d.next /\ d.next <= ce
  OBVIOUS
<1>6a. d.next \in Word
  BY <1>1, <1>5, DecodeType
<1> HIDE DEF t, d
<1>7. IsReadBack(t, d, extent)
  BY <1>2, <1>3, <1>6 DEF IsReadBack
<1>8. d.next > extent
  BY <1>1, <1>6, <1>6a DEF Word
<1>9. /\ emits(t) /\ Written(dmem, extent, Encoding(t))
      /\ extent + t.encoded_size = d.next
  BY <1>1, <1>4, <1>5, <1>6, <1>7, <1>8, InstructionWritten DEF d
<1>10. Encoding(t) \in Seq(Byte) /\ Len(Encoding(t)) = t.encoded_size
  BY <1>1, <1>2, <1>9, EncodingType
<1>11. /\ given.code_addr \in Nat /\ ce \in Nat /\ given.code_addr <= extent
  BY ReproducibleShape
<1>12. ASSUME NEW k \in 1 .. t.encoded_size
       PROVE  Encoding(t)[k] = ByteAt(given, t.section, t.address + (k - 1))
  <2>1. Encoding(t)[k] = mem_read8(dmem, extent + (k - 1))
    BY <1>9, <1>10 DEF Written
  <2>2. extent + (k - 1) \in given.code_addr .. ce - 1
    <3>1. t.encoded_size \in Nat
      BY <1>4 DEF IsBody
    <3> HIDE DEF ce
    <3> QED
      BY <1>1, <1>6, <1>6a, <1>9, <1>11, <3>1 DEF Word
  <2>3. mem_read8(dmem, extent + (k - 1)) = ByteAt(given, "code", extent + (k - 1))
    BY <2>2, CodeByte
  <2> QED
    BY <1>2, <2>1, <2>3
<1>13. IsRight(t, Encoding(t), given)
  BY <1>12 DEF IsRight
<1> QED
  BY <1>2, <1>9, <1>13 DEF t, d

\* The bytes of a .byte line are the one it names.
LEMMA ByteRight ==
  ASSUME AsmShape, cursor[section] = extent, NEW b \in Byte,
         b = ByteAt(given, section, extent),
         NEW st, st = [Statement("STMT_BYTE", 1) EXCEPT
                         !.op1 = ParsedOperand("NUMBER", FALSE, b, NoText)],
         IsBody(st)
  PROVE  /\ emits(Placed(st))
         /\ IsRight(Placed(st), Encoding(Placed(st)), given)
         /\ st.encoded_size = 1
<1> DEFINE t == Placed(st)
<1>1. /\ section \in Section /\ cursor[section] \in Word
      /\ \A n \in DOMAIN symtab : symtab[n] \in Word
  BY DEF AsmShape
<1>2. /\ st.encoded_size = 1 /\ st.kind = "STMT_BYTE" /\ st.op1.value = b
      /\ st.op1_mode = MODE_NONE /\ st.op2_mode = MODE_NONE
  BY DEF Statement, ParsedOperand
<1>3. /\ IsStatement(t) /\ t.section = section /\ t.address = extent
      /\ t.encoded_size = 1 /\ t.kind = "STMT_BYTE"
  BY <1>1, <1>2, PlacedType
<1>4. t.op1 = st.op1 /\ t.op1_mode = st.op1_mode /\ t.op2_mode = st.op2_mode
  BY DEF Placed, IsBody
<1> HIDE DEF t
<1>5. emits(t)
  <2>0. b \in 0 .. 255
    BY SMTT(30) DEF Byte
  <2>1. t.op1.value \in 0 .. 255
    <3>1. t.op1.value = b
      BY <1>2, <1>4, Zenon
    <3> QED
      BY <2>0, <3>1, Zenon
  <2>2. /\ t.kind = "STMT_BYTE" /\ t.kind # "STMT_INSTRUCTION"
        /\ t.kind # "STMT_WORD"
    BY <1>3
  <2> QED
    BY <2>1, <2>2, Zenon DEF emits
<1>6. head_bytes(t) = <<b>>
  BY <1>2, <1>3, <1>4 DEF head_bytes
<1>7. operand_bytes(t.op1_mode, t.op1) = <<>> /\ operand_bytes(t.op2_mode, t.op2) = <<>>
  <2>1. mode_byte_size(MODE_NONE) = 0
    BY DEF mode_byte_size, MODE_NONE, MODE_REG, MODE_REG_INDIRECT, MODE_IMM8
  <2>2. mode_byte_size(MODE_NONE) # 1
    BY <2>1
  <2>3. \A op : operand_bytes(MODE_NONE, op) = <<>>
    BY <2>1, <2>2, Zenon DEF operand_bytes
  <2> QED
    BY <1>2, <1>4, <2>3
<1>8. Encoding(t) = <<b>>
  <2>1. Encoding(t) = <<b>> \o <<>> \o <<>>
    BY <1>6, <1>7 DEF Encoding
  <2> QED
    BY <2>1
<1>9. extent \in Nat
  BY DEF AsmShape
<1>10. ASSUME NEW k \in 1 .. t.encoded_size
       PROVE  Encoding(t)[k] = ByteAt(given, t.section, t.address + (k - 1))
  <2>1. k = 1 /\ t.address + (k - 1) = extent
    BY <1>3, <1>9
  <2>2. Encoding(t)[k] = b
    BY <1>8, <2>1
  <2> QED
    BY <1>3, <2>1, <2>2
<1> QED
  BY <1>2, <1>5, <1>10 DEF IsRight, t

-----------------------------------------------------------------------------
\* The parser has no choice: what each kind of line makes it do.

LEMMA AtNewline ==
  ASSUME AsmNext, stage = "line", here.type = "TOK_NEWLINE"
  PROVE  skip_newline
  BY DEF AsmNext, PassOne, define_label, duplicate_label,
     parse_instruction_statement, parse_org, parse_data, parse_string,
     parse_word, parse_byte, parse_fails, end_of_line, end_of_source,
     emit_statement, make_result, at_statement, starts_label, EndOfLine

LEMMA AtEnd ==
  ASSUME AsmNext, stage = "line", here.type = "TOK_EOF"
  PROVE  end_of_source
  BY DEF AsmNext, PassOne, skip_newline, define_label, duplicate_label,
     parse_instruction_statement, parse_org, parse_data, parse_string,
     parse_word, parse_byte, parse_fails, end_of_line,
     emit_statement, make_result, at_statement, starts_label, EndOfLine

LEMMA AtDirective ==
  ASSUME AsmNext, stage = "line", here.type = "TOK_DIRECTIVE",
         here.text \in {"org", "data", "byte"}
  PROVE  \/ parse_org /\ here.text = "org"
         \/ parse_data /\ here.text = "data"
         \/ parse_byte /\ here.text = "byte"
         \/ parse_fails
  BY DEF AsmNext, PassOne, skip_newline, define_label, duplicate_label,
     parse_instruction_statement, parse_org, parse_data, parse_string,
     parse_word, parse_byte, end_of_line, end_of_source,
     emit_statement, make_result, starts_label, accepts_instruction,
     accepts_org, accepts_data, accepts_string, accepts_word, accepts_byte,
     is_directive

LEMMA AtInstruction ==
  ASSUME AsmNext, stage = "line", here.type = "TOK_IDENT",
         argument.type # "TOK_COLON", accepts_instruction
  PROVE  parse_instruction_statement
  BY DEF AsmNext, PassOne, skip_newline, define_label, duplicate_label,
     parse_org, parse_data, parse_string,
     parse_word, parse_byte, parse_fails, end_of_line, end_of_source,
     emit_statement, make_result, starts_label,
     accepts_org, accepts_data, accepts_string, accepts_word, accepts_byte,
     is_directive

LEMMA AtLineEnd ==
  ASSUME AsmNext, stage = "eol", here.type = "TOK_NEWLINE"
  PROVE  /\ pos' = advance(pos) /\ stage' = "line"
         /\ UNCHANGED <<tokens, stmts, symtab, section, cursor, started,
                        start_addr, next, buffer, image, extent>>
  BY DEF AsmNext, PassOne, skip_newline, define_label, duplicate_label,
     parse_instruction_statement, parse_org, parse_data, parse_string,
     parse_word, parse_byte, parse_fails, end_of_line, end_of_source,
     emit_statement, make_result, at_statement, EndOfLine

LEMMA AtEmit ==
  ASSUME AsmNext, stage = "emit"
  PROVE  emit_statement \/ make_result
  BY DEF AsmNext, PassOne, skip_newline, define_label, duplicate_label,
     parse_instruction_statement, parse_org, parse_data, parse_string,
     parse_word, parse_byte, parse_fails, end_of_line, end_of_source,
     at_statement

LEMMA AtOk ==
  ASSUME AsmNext, stage = "ok"
  PROVE  FALSE
  BY DEF AsmNext, PassOne, skip_newline, define_label, duplicate_label,
     parse_instruction_statement, parse_org, parse_data, parse_string,
     parse_word, parse_byte, parse_fails, end_of_line, end_of_source,
     emit_statement, make_result, at_statement

\* What stands on a printed line.
LEMMA ReadsTwo ==
  ASSUME NEW t, Len(t) \in Nat, NEW p \in Nat, NEW a, NEW b,
         Reads(t, p, <<a, b>>)
  PROVE  t[p] = a /\ t[p + 1] = b /\ p + 1 <= Len(t)
<1>1. /\ Len(<<a, b>>) = 2 /\ <<a, b>>[1] = a /\ <<a, b>>[2] = b
  OBVIOUS
<1>2. 1 \in 1 .. 2 /\ 2 \in 1 .. 2
  OBVIOUS
<1>3. t[p + (1 - 1)] = a /\ t[p + (2 - 1)] = b /\ p + 2 <= Len(t) + 1
  BY <1>1, <1>2 DEF Reads
<1>4. p + (1 - 1) = p /\ p + (2 - 1) = p + 1
  OBVIOUS
<1> QED
  BY <1>3, <1>4

LEMMA ReadsThree ==
  ASSUME NEW t, Len(t) \in Nat, NEW p \in Nat, NEW a, NEW b, NEW c,
         Reads(t, p, <<a, b, c>>)
  PROVE  t[p] = a /\ t[p + 1] = b /\ t[p + 2] = c /\ p + 2 <= Len(t)
<1>1. /\ Len(<<a, b, c>>) = 3 /\ <<a, b, c>>[1] = a /\ <<a, b, c>>[2] = b
      /\ <<a, b, c>>[3] = c
  OBVIOUS
<1>2. 1 \in 1 .. 3 /\ 2 \in 1 .. 3 /\ 3 \in 1 .. 3
  OBVIOUS
<1>3. /\ t[p + (1 - 1)] = a /\ t[p + (2 - 1)] = b /\ t[p + (3 - 1)] = c
      /\ p + 3 <= Len(t) + 1
  BY <1>1, <1>2 DEF Reads
<1>4. p + (1 - 1) = p /\ p + (2 - 1) = p + 1 /\ p + (3 - 1) = p + 2
  OBVIOUS
<1> QED
  BY <1>3, <1>4

\* The parser starts a line of the printed text.
Ready ==
  /\ AsmShape /\ Layout /\ Tracked /\ IsImage(given) /\ Reproducible(given)
  /\ stage = "line" /\ AsmNext /\ given' = given

\* It has read a line that leads to section s and address c, and stands
\* before the newline at p.
LineRead(p, s, c) ==
  /\ stage' = "eol" /\ pos' = p /\ section' = s /\ extent' = c
  /\ Tracked'

LEMMA TokenFields ==
  /\ NEWLINE.type = "TOK_NEWLINE" /\ EOF.type = "TOK_EOF"
  /\ \A s : /\ Directive(s).type = "TOK_DIRECTIVE" /\ Directive(s).text = s
            /\ Ident(s).type = "TOK_IDENT" /\ Ident(s).text = s
  /\ \A n : Number(n).type = "TOK_NUMBER" /\ Number(n).num_value = n
  BY DEF NEWLINE, EOF, Directive, Ident, Number, Simple, Token

LEMMA DirectiveHere ==
  ASSUME AsmShape, NEW w, tokens[pos] = Directive(w)
  PROVE  /\ here.type = "TOK_DIRECTIVE" /\ here.text = w
         /\ advance(pos) = pos + 1 /\ argument = tokens[pos + 1]
         /\ pos \in Nat /\ Len(tokens) \in Nat /\ pos + 1 \in DOMAIN tokens
<1>1. here.type = "TOK_DIRECTIVE" /\ here.text = w
  BY TokenFields DEF here
<1>2. /\ pos \in Nat /\ advance(pos) \in DOMAIN tokens
      /\ here.type # "TOK_EOF" => advance(pos) = pos + 1
  BY Places
<1>3. Len(tokens) \in Nat
  BY TokenListType DEF AsmShape
<1> QED
  BY <1>1, <1>2, <1>3 DEF argument

LEMMA OrgRead ==
  ASSUME Ready, NEW l, NEW s, NEW c, Reads(tokens, pos, l),
         OrgLine(given, l, section, extent, s, c)
  PROVE  tokens[pos + 2] = NEWLINE /\ LineRead(pos + 2, s, c)
<1>1. /\ AsmShape /\ Layout /\ Tracked /\ IsImage(given) /\ Reproducible(given)
      /\ stage = "line" /\ AsmNext /\ given' = given
  BY DEF Ready
<1>2. /\ l = <<Directive("org"), Number(c), NEWLINE>> /\ s = section
      /\ extent <= c /\ c = region_start(given, section)
  BY DEF OrgLine, org_line
<1>3. pos \in Nat /\ Len(tokens) \in Nat /\ IsTokenList(tokens)
  BY <1>1, Places, TokenListType DEF AsmShape
<1>4. /\ tokens[pos] = Directive("org") /\ tokens[pos + 1] = Number(c)
      /\ tokens[pos + 2] = NEWLINE
  BY <1>2, <1>3, ReadsThree
<1>5. /\ here.type = "TOK_DIRECTIVE" /\ here.text = "org"
      /\ advance(pos) = pos + 1 /\ argument = tokens[pos + 1]
      /\ pos + 1 \in DOMAIN tokens
  BY <1>1, <1>4, DirectiveHere
<1>6. /\ argument.type = "TOK_NUMBER" /\ argument.num_value = c
      /\ advance(pos + 1) = pos + 2
  <2>1. argument.type = "TOK_NUMBER" /\ argument.num_value = c
    BY <1>4, <1>5, TokenFields
  <2>2. tokens[pos + 1].type # "TOK_EOF"
    BY <1>5, <2>1
  <2>3. advance(pos + 1) = (pos + 1) + 1
    BY <1>3, <1>5, <2>2, AdvanceType
  <2> QED
    BY <1>3, <2>1, <2>3
<1>7. c \in Word /\ c >= cursor[section]
  <2>1. c \in Word
    <3>1. given.code_addr \in Word /\ given.data_addr \in Word
      BY <1>1, Zenon DEF IsImage
    <3> QED
      BY <1>2, <3>1 DEF region_start
  <2>2. extent \in Nat /\ extent <= 65536 /\ cursor[section] = extent % 65536
    BY <1>1, TrackedFits
  <2>3. cursor[section] <= extent /\ cursor[section] \in Nat
    BY <2>2
  <2> QED
    BY <1>2, <2>1, <2>2, <2>3 DEF Word
<1>8. accepts_org
  BY <1>5, <1>6, <1>7 DEF accepts_org, is_directive
<1>9. parse_org
  <2>1. ~parse_fails
    BY <1>8 DEF parse_fails
  <2>2. \/ parse_org /\ here.text = "org"
        \/ parse_data /\ here.text = "data"
        \/ parse_byte /\ here.text = "byte"
    BY <1>1, <1>5, <2>1, AtDirective
  <2> QED
    BY <1>5, <2>2
<1>10. Tracked' /\ extent' = c
  BY <1>1, <1>2, <1>6, <1>9, OrgTracked
<1>11. stage' = "eol" /\ pos' = pos + 2 /\ section' = section
  BY <1>5, <1>6, <1>9 DEF parse_org
<1> QED
  BY <1>2, <1>4, <1>10, <1>11 DEF LineRead

LEMMA DataRead ==
  ASSUME Ready, NEW l, NEW s, NEW c, Reads(tokens, pos, l),
         DataLine(given, l, section, extent, s, c)
  PROVE  tokens[pos + 1] = NEWLINE /\ LineRead(pos + 1, s, c)
<1>1. /\ AsmShape /\ Layout /\ Tracked /\ IsImage(given) /\ Reproducible(given)
      /\ stage = "line" /\ AsmNext /\ given' = given
  BY DEF Ready
<1>2. /\ l = <<Directive("data"), NEWLINE>> /\ section = "code" /\ s = "data"
      /\ c = extent /\ extent = code_end(given) /\ given.data_size # 0
  BY DEF DataLine
<1>3. pos \in Nat /\ Len(tokens) \in Nat
  BY <1>1, Places, TokenListType DEF AsmShape
<1>4. tokens[pos] = Directive("data") /\ tokens[pos + 1] = NEWLINE
  BY <1>2, <1>3, ReadsTwo
<1>5. /\ here.type = "TOK_DIRECTIVE" /\ here.text = "data"
      /\ advance(pos) = pos + 1
  BY <1>1, <1>4, DirectiveHere
<1>6. accepts_data
  BY <1>2, <1>5 DEF accepts_data, is_directive
<1>7. parse_data
  <2>1. ~parse_fails
    BY <1>6 DEF parse_fails
  <2>2. \/ parse_org /\ here.text = "org"
        \/ parse_data /\ here.text = "data"
        \/ parse_byte /\ here.text = "byte"
    BY <1>1, <1>5, <2>1, AtDirective
  <2> QED
    BY <1>5, <2>2
<1>8. Tracked' /\ extent' = extent /\ section' = "data"
  BY <1>1, <1>2, <1>7, DataTracked
<1>9. stage' = "eol" /\ pos' = pos + 1
  BY <1>5, <1>7 DEF parse_data
<1> QED
  BY <1>2, <1>4, <1>8, <1>9 DEF LineRead

\* The bytes of the image are those of its body.
LEMMA ImageByte ==
  ASSUME IsImage(given), Reproducible(given), NEW s \in Section, NEW a \in Nat,
         region_start(given, s) <= a, a < region_end(given, s)
  PROVE  ByteAt(given, s, a) \in Byte
<1> DEFINE ca == given.code_addr
           cs == given.code_size
           da == given.data_addr
           ds == given.data_size
           body == given.body
<1>1. /\ body \in Seq(Byte) /\ Len(body) = cs + ds
      /\ ca \in Nat /\ cs \in Nat /\ code_end(given) = ca + cs
      /\ da \in Nat /\ ds \in Nat /\ data_end(given) = da + ds
  BY ReproducibleShape
<1>2. CASE s = "code"
  <2>1. ca <= a /\ a < code_end(given)
    BY <1>2 DEF region_start, region_end
  <2> HIDE DEF ca, cs, da, ds, body
  <2>2. (a - ca) + 1 \in 1 .. Len(body)
    BY <1>1, <2>1
  <2>3. body[(a - ca) + 1] \in Byte
    BY <1>1, <2>2
  <2> QED
    BY <1>2, <2>3 DEF ByteAt, body, ca
<1>3. CASE s # "code"
  <2>1. da <= a /\ a < data_end(given)
    BY <1>3 DEF region_start, region_end
  <2> HIDE DEF ca, cs, da, ds, body
  <2>2. cs + (a - da) + 1 \in 1 .. Len(body)
    BY <1>1, <2>1
  <2>3. body[cs + (a - da) + 1] \in Byte
    BY <1>1, <2>2
  <2> QED
    BY <1>3, <2>3 DEF ByteAt, body, cs, da
<1> QED
  BY <1>2, <1>3

LEMMA ByteRead ==
  ASSUME Ready, NEW l, NEW s, NEW c, Reads(tokens, pos, l),
         ByteLine(given, l, section, extent, s, c)
  PROVE  tokens[pos + 2] = NEWLINE /\ LineRead(pos + 2, s, c)
<1> DEFINE b == ByteAt(given, section, extent)
           a == parse_operand(pos + 1, OP_NOP)
           st == [Statement("STMT_BYTE", 1) EXCEPT !.op1 = a.operand]
<1>1. /\ AsmShape /\ Layout /\ Tracked /\ IsImage(given) /\ Reproducible(given)
      /\ stage = "line" /\ AsmNext /\ given' = given
  BY DEF Ready
<1>2. /\ l = <<Directive("byte"), Number(b), NEWLINE>> /\ s = section
      /\ c = extent + 1
      /\ region_start(given, section) <= extent
      /\ extent < region_end(given, section)
  BY DEF ByteLine, byte_line
<1>3. pos \in Nat /\ Len(tokens) \in Nat /\ IsTokenList(tokens)
  BY <1>1, Places, TokenListType DEF AsmShape
<1>4. /\ tokens[pos] = Directive("byte") /\ tokens[pos + 1] = Number(b)
      /\ tokens[pos + 2] = NEWLINE
  BY <1>2, <1>3, ReadsThree
<1>5. /\ here.type = "TOK_DIRECTIVE" /\ here.text = "byte"
      /\ advance(pos) = pos + 1 /\ pos + 1 \in DOMAIN tokens
  BY <1>1, <1>4, DirectiveHere
<1>6. /\ section \in Section /\ extent \in Nat
      /\ region_end(given, section) \in Nat /\ region_end(given, section) <= 65536
  BY <1>1, TrackedFits, Regions
<1>7. b \in Byte
  BY <1>1, <1>2, <1>6, ImageByte
<1> HIDE DEF b
<1>8. Stands(tokens[pos + 1], OP_NOP, FALSE, "NUMBER", b)
  BY <1>4, TokenFields DEF Stands
<1>9. /\ a.ok /\ a.next = (pos + 1) + 1
      /\ a.operand = ParsedOperand("NUMBER", FALSE, b, NoText)
  BY <1>3, <1>5, <1>8, BareOperand
<1>10. a.operand.kind = "NUMBER" /\ ~a.operand.mem
  <2> DEFINE r == ParsedOperand("NUMBER", FALSE, b, NoText)
  <2>1. r.kind = "NUMBER" /\ r.mem = FALSE
    BY DEF ParsedOperand
  <2> HIDE DEF r
  <2> QED
    BY <1>9, <2>1 DEF r
<1>11. a = parse_operand(advance(pos), OP_NOP)
  BY <1>5
<1> HIDE DEF a
<1>12. accepts_byte
  BY <1>5, <1>9, <1>10, <1>11 DEF accepts_byte, is_directive
<1>13. parse_byte
  <2>1. ~parse_fails
    BY <1>12 DEF parse_fails
  <2>2. \/ parse_org /\ here.text = "org"
        \/ parse_data /\ here.text = "data"
        \/ parse_byte /\ here.text = "byte"
    BY <1>1, <1>5, <2>1, AtDirective
  <2> QED
    BY <1>5, <2>2
<1>14. place(st, a.next) /\ at_statement
  BY <1>11, <1>13 DEF parse_byte
<1>15. PlacesStatement(st, a.next) /\ IsBody(st)
  <2>1. /\ IsBody(st) /\ st.encoded_size > 0 /\ st.kind # "STMT_LABEL"
        /\ a.next \in DOMAIN tokens /\ a.next > pos
    BY <1>1, <1>11, <1>12, <1>14, PlacedBodies
  <2> QED
    BY <1>1, <1>14, <2>1 DEF PlacesStatement
<1>16. cursor[section] = extent
  <2>1. cursor[section] = extent % 65536
    BY <1>1, TrackedFits
  <2> QED
    BY <1>2, <1>6, <2>1
<1>17. st = [Statement("STMT_BYTE", 1) EXCEPT
               !.op1 = ParsedOperand("NUMBER", FALSE, b, NoText)]
  BY <1>9
<1> HIDE DEF st
<1>18. /\ emits(Placed(st)) /\ IsRight(Placed(st), Encoding(Placed(st)), given)
       /\ st.encoded_size = 1
  BY <1>1, <1>7, <1>15, <1>16, <1>17, ByteRight DEF b
<1>19. Tracked' /\ extent' = extent + st.encoded_size
  <2>1. extent + st.encoded_size <= region_end(given, section)
    BY <1>2, <1>6, <1>18
  <2> QED
    BY <1>1, <1>2, <1>15, <1>18, <2>1, PlaceTracked
<1>20. stage' = "eol" /\ pos' = pos + 2 /\ section' = section
  <2>1. a.next = pos + 2
    BY <1>3, <1>9
  <2> QED
    BY <1>14, <2>1 DEF place
<1> QED
  BY <1>2, <1>4, <1>18, <1>19, <1>20 DEF LineRead

LEMMA InstructionRead ==
  ASSUME Ready, NEW l, NEW s, NEW c, Reads(tokens, pos, l),
         InstructionLine(given, dmem, l, section, extent, s, c)
  PROVE  \E q \in Nat : /\ q + 1 = pos + Len(l) /\ tokens[q] = NEWLINE
                        /\ LineRead(q, s, c)
<1> DEFINE d == instruction_decode(dmem, extent)
           F == format_instruction(d)
           q == pos + Len(F)
           i == parse_instruction(d.opcode, pos + 1)
           st == i.stmt
<1>1. /\ AsmShape /\ Layout /\ Tracked /\ IsImage(given) /\ Reproducible(given)
      /\ stage = "line" /\ AsmNext /\ given' = given
  BY DEF Ready
<1>2. /\ l = Append(F, NEWLINE) /\ section = "code" /\ s = section
      /\ c = d.next /\ d.result = "VM_OK"
      /\ given.code_addr <= extent /\ extent < c /\ c <= code_end(given)
  BY DEF InstructionLine
<1>3. pos \in Nat /\ pos >= 1 /\ Len(tokens) \in Nat /\ IsTokenList(tokens)
      /\ pos \in DOMAIN tokens
  BY <1>1, Places, TokenListType DEF AsmShape
<1>4. /\ section \in Section /\ extent \in Nat /\ extent <= 65536
      /\ cursor[section] = extent % 65536
  BY <1>1, TrackedFits
<1>5. code_end(given) \in Nat /\ code_end(given) < 65536 /\ IsMemory(dmem)
  BY <1>1, ReproducibleShape, CodeByte
<1>6. extent < 65536
  <2>1. extent <= code_end(given)
    BY <1>1, <1>2 DEF Tracked, region_end
  <2> QED
    BY <1>4, <1>5, <2>1
<1>7. extent \in Word /\ cursor[section] = extent
  BY <1>4, <1>6 DEF Word
<1>8. IsDecoded(d) /\ d.next \in Word
  BY <1>2, <1>5, <1>7, DecodeType DEF IsDecoded
<1> HIDE DEF d
<1>9. /\ tokens[pos] = Ident(mnemonic_for(d.opcode))
      /\ pos + 1 \in DOMAIN tokens /\ tokens[pos + 1].type # "TOK_COLON"
      /\ q \in DOMAIN tokens /\ tokens[q] = NEWLINE
      /\ IsParsed(i, d.opcode,
                  ReadAs(d.op1, op1_modes(d.opcode)), d.op1.mode,
                  ReadAs(d.op2, op2_modes(d.opcode)), d.op2.mode, q)
  BY <1>2, <1>3, <1>8, InstructionReadBack
<1>10. here.type = "TOK_IDENT" /\ here.text = mnemonic_for(d.opcode)
  BY <1>9, TokenFields DEF here
<1>11. advance(pos) = pos + 1 /\ argument.type # "TOK_COLON"
  <2>1. advance(pos) = pos + 1
    BY <1>1, <1>10, Places
  <2> QED
    BY <1>9, <2>1 DEF argument
<1>12. d.opcode \in Opcode
  BY <1>8 DEF IsDecoded
<1>13. /\ here.text \in DOMAIN MNEMONICS /\ MNEMONICS[here.text] = d.opcode
  BY <1>10, <1>12, MnemonicReadBack
<1>14. i = parse_instruction(MNEMONICS[here.text], advance(pos))
  BY <1>11, <1>13
<1> HIDE DEF i
<1>15. /\ i.ok /\ i.next = q /\ st.kind = "STMT_INSTRUCTION"
       /\ st.opcode = d.opcode
       /\ st.op1 = ReadAs(d.op1, op1_modes(d.opcode)) /\ st.op1_mode = d.op1.mode
       /\ st.op2 = ReadAs(d.op2, op2_modes(d.opcode)) /\ st.op2_mode = d.op2.mode
  BY <1>9 DEF IsParsed
<1>16. accepts_instruction
  BY <1>10, <1>13, <1>14, <1>15 DEF accepts_instruction
<1>17. parse_instruction_statement
  BY <1>1, <1>10, <1>11, <1>16, AtInstruction
<1>18. place(st, q) /\ at_statement
  BY <1>14, <1>15, <1>17 DEF parse_instruction_statement
<1>19. PlacesStatement(st, q) /\ IsBody(st)
  <2>1. /\ IsBody(st) /\ st.encoded_size > 0 /\ st.kind # "STMT_LABEL"
        /\ q \in DOMAIN tokens /\ q > pos
    BY <1>1, <1>14, <1>15, <1>16, <1>18, PlacedBodies
  <2> QED
    BY <1>1, <1>18, <2>1 DEF PlacesStatement
<1> HIDE DEF st, q
<1>20. /\ emits(Placed(st)) /\ IsRight(Placed(st), Encoding(Placed(st)), given)
       /\ extent + st.encoded_size = d.next
  BY <1>1, <1>2, <1>7, <1>15, <1>19, InstructionRight DEF d
<1>21. Tracked' /\ extent' = extent + st.encoded_size
  <2>1. region_start(given, section) <= extent
        /\ extent + st.encoded_size <= region_end(given, section)
    BY <1>2, <1>20 DEF region_start, region_end
  <2> QED
    BY <1>1, <1>19, <1>20, <2>1, PlaceTracked
<1>22. stage' = "eol" /\ pos' = q /\ section' = section
  BY <1>18 DEF place
<1>23. q \in Nat /\ q + 1 = pos + Len(l)
  <2>1. F \in Seq(TokenSet) /\ NEWLINE \in TokenSet
    BY <1>2, <1>5, <1>7, FormatInstructionType, TokenType DEF d
  <2> HIDE DEF F
  <2>2. Len(Append(F, NEWLINE)) = Len(F) + 1 /\ Len(F) \in Nat
    BY <2>1
  <2> QED
    BY <1>2, <1>3, <2>2 DEF q
<1> QED
  BY <1>2, <1>9, <1>20, <1>21, <1>22, <1>23 DEF LineRead, q

-----------------------------------------------------------------------------
\* The path that the printed text is takes the parser to its end.

end_config(t, img) ==
  <<Len(t), end_section(img), region_end(img, end_section(img))>>

OnPath(G) ==
  /\ stage \in {"line", "eol", "emit", "ok"}
  /\ stage = "line" => <<pos, section, extent>> \in G
  /\ stage = "eol" => /\ tokens[pos] = NEWLINE
                      /\ <<pos + 1, section, extent>> \in G
  /\ stage \in {"emit", "ok"} =>
       /\ section = end_section(given)
       /\ extent = region_end(given, end_section(given))

LEMMA AsmKeepsTokens ==
  ASSUME AsmNext
  PROVE  tokens' = tokens
  BY DEF AsmNext, PassOne, skip_newline, define_label, duplicate_label,
     parse_instruction_statement, parse_org, parse_data, parse_string,
     parse_word, parse_byte, parse_fails, end_of_line, end_of_source,
     emit_statement, make_result, place, fail

LEMMA ConfigParts ==
  ASSUME NEW h \in Config
  PROVE  h = <<h[1], h[2], h[3]>> /\ h[1] \in Nat
  BY DEF Config

LEMMA AfterLine ==
  ASSUME NEW G, NEW h \in G, h \in Config, NEW p \in Nat, p + 1 = h[1],
         tokens' = tokens, tokens[p] = NEWLINE, LineRead(p, h[2], h[3])
  PROVE  OnPath(G)' /\ Tracked'
<1>1. h = <<h[1], h[2], h[3]>>
  BY ConfigParts
<1>2. /\ stage' = "eol" /\ pos' = p /\ section' = h[2] /\ extent' = h[3]
      /\ Tracked'
  BY DEF LineRead
<1>3. <<pos' + 1, section', extent'>> \in G
  BY <1>1, <1>2
<1>4. tokens'[pos'] = NEWLINE
  BY <1>2
<1> QED
  BY <1>2, <1>3, <1>4 DEF OnPath

LEMMA NewlineRead ==
  ASSUME Ready, NEW l, NEW s, NEW c, Reads(tokens, pos, l),
         NewlineLine(l, section, extent, s, c)
  PROVE  /\ stage' = "line" /\ pos' = pos + 1 /\ section' = s /\ extent' = c
         /\ Tracked'
<1>1. AsmShape /\ Tracked /\ stage = "line" /\ AsmNext /\ given' = given
  BY DEF Ready
<1>2. l = <<NEWLINE>> /\ s = section /\ c = extent
  BY DEF NewlineLine
<1>3. pos \in Nat /\ Len(tokens) \in Nat
  BY <1>1, Places, TokenListType DEF AsmShape
<1>4. tokens[pos] = NEWLINE
  BY <1>2, <1>3, ReadsOne
<1>5. here.type = "TOK_NEWLINE"
  BY <1>4, TokenFields DEF here
<1>6. advance(pos) = pos + 1
  BY <1>1, <1>5, Places
<1>7. skip_newline
  BY <1>1, <1>5, AtNewline
<1>8. /\ pos' = pos + 1 /\ stage' = "line"
      /\ UNCHANGED <<stmts, symtab, section, cursor, started, start_addr, extent>>
  BY <1>1, <1>6, <1>7 DEF skip_newline
<1>9. Tracked'
  BY <1>1, <1>8, SameTracked
<1> QED
  BY <1>2, <1>8, <1>9

LEMMA EndRead ==
  ASSUME Ready, pos = Len(tokens), section = end_section(given),
         extent = region_end(given, end_section(given))
  PROVE  /\ stage' = "emit" /\ section' = section /\ extent' = extent
         /\ Tracked'
<1>1. /\ AsmShape /\ Tracked /\ stage = "line" /\ AsmNext /\ given' = given
      /\ IsImage(given) /\ Reproducible(given)
  BY DEF Ready
<1>2. here.type = "TOK_EOF"
  BY <1>1, TokenListType DEF AsmShape, here
<1>3. end_of_source
  BY <1>1, <1>2, AtEnd
<1>4. started["code"]
  <2>1. CASE section = "code"
    <3> DEFINE ce == code_end(given)
    <3>1. /\ given.code_addr \in Nat /\ given.code_size \in Nat
          /\ given.code_size > 0 /\ ce = given.code_addr + given.code_size
      BY <1>1, ReproducibleShape
    <3>2. extent = ce
      BY <2>1 DEF region_end
    <3> HIDE DEF ce
    <3>3. extent > given.code_addr
      BY <3>1, <3>2
    <3>4. extent > region_start(given, section)
      BY <2>1, <3>3 DEF region_start
    <3> QED
      BY <1>1, <2>1, <3>4 DEF Tracked
  <2>2. CASE section = "data"
    BY <1>1, <2>2 DEF Tracked
  <2> QED
    BY <1>1, <2>1, <2>2 DEF AsmShape, Section
<1>5. /\ stage' = "emit"
      /\ UNCHANGED <<stmts, symtab, section, cursor, started, start_addr, extent>>
  BY <1>3, <1>4 DEF end_of_source
<1>6. Tracked'
  BY <1>1, <1>5, SameTracked
<1> QED
  BY <1>5, <1>6

LEMMA FollowLine ==
  ASSUME Ready, NEW G, Path(tokens, given, dmem, G, end_config(tokens, given)),
         <<pos, section, extent>> \in G
  PROVE  OnPath(G)' /\ Tracked'
<1> DEFINE g == <<pos, section, extent>>
           e == end_config(tokens, given)
<1>1. AsmShape /\ AsmNext /\ given' = given /\ tokens' = tokens
  BY AsmKeepsTokens DEF Ready
<1>2. pos \in Nat
  BY <1>1, Places
<1>3. CASE g = e
  <2>1. /\ pos = Len(tokens) /\ section = end_section(given)
        /\ extent = region_end(given, end_section(given))
    BY <1>3 DEF end_config
  <2>2. /\ stage' = "emit" /\ section' = section /\ extent' = extent
        /\ Tracked'
    BY <2>1, EndRead
  <2> QED
    BY <1>1, <2>1, <2>2 DEF OnPath
<1>4. CASE g # e
  <2>1. PICK h \in G : Leads(tokens, given, dmem, g, h)
    BY <1>4 DEF Path
  <2>2. h \in Config
    BY DEF Path
  <2>3. PICK l \in Seq(TokenSet) :
          /\ Len(l) > 0 /\ Reads(tokens, g[1], l) /\ h[1] = g[1] + Len(l)
          /\ Line(given, dmem, l, g[2], g[3], h[2], h[3])
    BY <2>1, Zenon DEF Leads
  <2>4. g[1] = pos /\ g[2] = section /\ g[3] = extent
    OBVIOUS
  <2> HIDE DEF g
  <2>5. /\ Reads(tokens, pos, l) /\ h[1] = pos + Len(l)
        /\ Line(given, dmem, l, section, extent, h[2], h[3])
    BY <2>3, <2>4
  <2>6. CASE NewlineLine(l, section, extent, h[2], h[3])
    <3>1. /\ stage' = "line" /\ pos' = pos + 1 /\ section' = h[2]
          /\ extent' = h[3] /\ Tracked'
      BY <2>5, <2>6, NewlineRead
    <3>2. h[1] = pos + 1
      BY <2>5, <2>6 DEF NewlineLine
    <3>3. <<pos', section', extent'>> \in G
      BY <2>2, <3>1, <3>2, ConfigParts
    <3> QED
      BY <3>1, <3>3 DEF OnPath
  <2>7. CASE OrgLine(given, l, section, extent, h[2], h[3])
    <3>1. tokens[pos + 2] = NEWLINE /\ LineRead(pos + 2, h[2], h[3])
      BY <2>5, <2>7, OrgRead
    <3>2. Len(l) = 3
      BY <2>7 DEF OrgLine, org_line
    <3>3. pos + 2 \in Nat /\ (pos + 2) + 1 = h[1]
      BY <1>2, <2>5, <3>2
    <3> QED
      BY <1>1, <2>2, <3>1, <3>3, AfterLine
  <2>8. CASE DataLine(given, l, section, extent, h[2], h[3])
    <3>1. tokens[pos + 1] = NEWLINE /\ LineRead(pos + 1, h[2], h[3])
      BY <2>5, <2>8, DataRead
    <3>2. Len(l) = 2
      BY <2>8 DEF DataLine
    <3>3. pos + 1 \in Nat /\ (pos + 1) + 1 = h[1]
      BY <1>2, <2>5, <3>2
    <3> QED
      BY <1>1, <2>2, <3>1, <3>3, AfterLine
  <2>9. CASE ByteLine(given, l, section, extent, h[2], h[3])
    <3>1. tokens[pos + 2] = NEWLINE /\ LineRead(pos + 2, h[2], h[3])
      BY <2>5, <2>9, ByteRead
    <3>2. Len(l) = 3
      BY <2>9 DEF ByteLine, byte_line
    <3>3. pos + 2 \in Nat /\ (pos + 2) + 1 = h[1]
      BY <1>2, <2>5, <3>2
    <3> QED
      BY <1>1, <2>2, <3>1, <3>3, AfterLine
  <2>10. CASE InstructionLine(given, dmem, l, section, extent, h[2], h[3])
    <3>1. PICK q \in Nat : /\ q + 1 = pos + Len(l) /\ tokens[q] = NEWLINE
                           /\ LineRead(q, h[2], h[3])
      BY <2>5, <2>10, InstructionRead
    <3>2. q + 1 = h[1]
      BY <2>5, <3>1
    <3> QED
      BY <1>1, <2>2, <3>1, <3>2, AfterLine
  <2> QED
    BY <2>5, <2>6, <2>7, <2>8, <2>9, <2>10 DEF Line
<1> QED
  BY <1>3, <1>4

\* A step of the second assembly stays on the path, and fails nowhere.
LEMMA AsmFollows ==
  ASSUME AsmShape, Layout, Tracked, IsImage(given), Reproducible(given),
         AsmNext, given' = given, NEW G,
         Path(tokens, given, dmem, G, end_config(tokens, given)), OnPath(G)
  PROVE  OnPath(G)' /\ Tracked'
<1>1. tokens' = tokens
  BY AsmKeepsTokens
<1>2. CASE stage = "line"
  <2>1. Ready /\ <<pos, section, extent>> \in G
    BY <1>2 DEF Ready, OnPath
  <2> QED
    BY <2>1, FollowLine
<1>3. CASE stage = "eol"
  <2>1. tokens[pos] = NEWLINE /\ <<pos + 1, section, extent>> \in G
    BY <1>3 DEF OnPath
  <2>2. here.type = "TOK_NEWLINE"
    BY <2>1, TokenFields DEF here
  <2>3. /\ pos' = advance(pos) /\ stage' = "line"
        /\ UNCHANGED <<stmts, symtab, section, cursor, started, start_addr, extent>>
    BY <1>3, <2>2, AtLineEnd
  <2>4. advance(pos) = pos + 1
    BY <2>2, Places
  <2>5. Tracked'
    BY <2>3, SameTracked
  <2> QED
    BY <2>1, <2>3, <2>4, <2>5 DEF OnPath
<1>4. CASE stage = "emit"
  <2>1. /\ section = end_section(given)
        /\ extent = region_end(given, end_section(given))
    BY <1>4 DEF OnPath
  <2>2. emit_statement \/ make_result
    BY <1>4, AtEmit
  <2>3. next <= Len(stmts) => emits(stmts[next])
    <3>1. next \in Nat /\ next >= 1 /\ Len(stmts) \in Nat
      BY AppendSeq DEF AsmShape
    <3>2. ASSUME next <= Len(stmts) PROVE next \in Passed
      BY <3>1, <3>2 DEF Tracked, AllRight
    <3> QED
      BY <3>2 DEF Passed
  <2>4. /\ stage' \in {"emit", "ok"}
        /\ UNCHANGED <<stmts, symtab, section, cursor, started, start_addr, extent>>
    <3>1. CASE make_result
      BY <3>1 DEF make_result
    <3>2. CASE emit_statement
      BY <1>4, <2>3, <3>2 DEF emit_statement, parser
    <3> QED
      BY <2>2, <3>1, <3>2
  <2>5. Tracked'
    BY <2>4, SameTracked
  <2> QED
    BY <2>1, <2>4, <2>5 DEF OnPath
<1>5. CASE stage = "ok"
  BY <1>5, AtOk
<1> QED
  BY <1>2, <1>3, <1>4, <1>5 DEF OnPath

-----------------------------------------------------------------------------
\* What pass two makes of it is the image.

LEMMA BufferByte ==
  ASSUME AsmShape, Buffers, stage = "ok", Fits,
         AllRight(stmts, Code, Passed, given),
         NEW s \in Section, NEW e, Covered(stmts, given, s, e),
         NEW a \in region_start(given, s) .. e - 1
  PROVE  mem_read8(buffer[s], a) = ByteAt(given, s, a)
<1>1. PICK i \in 1 .. Len(stmts) : stmts[i].section = s /\ a \in Extent(stmts[i])
  BY DEF Covered
<1> DEFINE st == stmts[i]
<1>2. IsStatement(st) /\ \A n \in DOMAIN symtab : symtab[n] \in Word
  BY DEF AsmShape
<1>3. st.address \in Nat /\ st.encoded_size \in Nat
  BY <1>2 DEF IsStatement, IsBody, Word
<1>4. Emitted(Len(stmts), buffer, stmts, Code, Passed)
  <2>1. next = Len(stmts) + 1 /\ Emitted(next - 1, buffer, stmts, Code, Passed)
    BY DEF Buffers
  <2>2. Len(stmts) \in Nat
    BY AppendSeq DEF AsmShape
  <2>3. next - 1 = Len(stmts)
    BY <2>1, <2>2
  <2> QED
    BY <2>1, <2>3
<1>5. i \in Passed /\ Written(buffer[st.section], st.address, Code[i])
  BY <1>4 DEF Emitted
<1>6. emits(st) /\ Code[i] = Encoding(st)
  BY <1>5 DEF Passed, Code
<1>7. Len(Code[i]) = st.encoded_size
  BY <1>2, <1>6, EncodingType
<1>8. IsRight(st, Code[i], given)
  BY DEF AllRight
<1>9. st.section = s /\ a \in st.address .. (st.address + st.encoded_size) - 1
  BY <1>1 DEF Extent
<1> HIDE DEF st
<1> DEFINE k == (a - st.address) + 1
<1>10. k \in 1 .. st.encoded_size /\ st.address + (k - 1) = a
  BY <1>3, <1>9
<1> HIDE DEF k
<1>11. Code[i][k] = ByteAt(given, s, a)
  BY <1>8, <1>9, <1>10 DEF IsRight
<1>12. mem_read8(buffer[s], a) = Code[i][k]
  <2>1. mem_read8(buffer[s], st.address + (k - 1)) = Code[i][k]
    BY <1>5, <1>7, <1>9, <1>10 DEF Written
  <2> QED
    BY <1>10, <2>1
<1> QED
  BY <1>11, <1>12

\* The sections end up as large as those of the image.
LEMMA SameSections ==
  ASSUME AsmShape, Layout, Tracked, IsImage(given), Reproducible(given),
         section = end_section(given),
         extent = region_end(given, end_section(given))
  PROVE  /\ Fits /\ Describable
         /\ start_addr["code"] = given.code_addr
         /\ section_size("code") = given.code_size
         /\ code_extent = code_end(given)
         /\ start_addr["data"] = given.data_addr
         /\ section_size("data") = given.data_size
         /\ section = "data" => extent = data_end(given)
         /\ section = "code" => given.data_size = 0
<1> DEFINE ca == given.code_addr
           cs == given.code_size
           ce == code_end(given)
           da == given.data_addr
           ds == given.data_size
           de == data_end(given)
<1>1. /\ ca \in Nat /\ cs \in Nat /\ cs > 0 /\ ce = ca + cs
      /\ ce \in Nat /\ ce < 65536 /\ da \in Nat /\ ds \in Nat /\ de = da + ds
      /\ de \in Nat /\ de <= 65536
      /\ ds = 0 => da = 0
  BY ReproducibleShape
<1>2. /\ Fits /\ Counters /\ extent \in Nat /\ section \in Section
      /\ "code" \in Section /\ "data" \in Section
      /\ section = "code" => ~started["data"]
  BY TrackedFits DEF Section
<1>3. section = "code" => ds = 0 /\ extent = ce /\ code_extent = ce
  BY DEF end_section, region_end, code_extent
<1>4. section = "data" => ds # 0 /\ extent = de /\ code_extent = ce /\ started["code"]
  BY DEF end_section, region_end, Tracked
<1>5. /\ region_start(given, "code") = ca /\ region_start(given, "data") = da
  BY DEF region_start
<1> HIDE DEF ca, cs, ce, da, ds, de
<1>6. started["code"] /\ start_addr["code"] = ca /\ code_extent = ce
  <2>1. CASE section = "code"
    <3>1. extent > region_start(given, section)
      BY <1>1, <1>3, <1>5, <2>1
    <3>2. started["code"]
      BY <2>1, <3>1 DEF Tracked
    <3> QED
      BY <1>2, <1>3, <1>5, <2>1, <3>2 DEF Tracked
  <2>2. CASE section = "data"
    BY <1>2, <1>4, <1>5, <2>2 DEF Tracked
  <2> QED
    BY <1>2, <2>1, <2>2 DEF Section
<1>7. section_size("code") = cs
  <2>1. section_size("code") = (cursor["code"] - start_addr["code"]) % 65536
    BY <1>6 DEF section_size
  <2>2. cursor["code"] = ce % 65536
    BY <1>2, <1>6 DEF Counters
  <2> QED
    BY <1>1, <1>6, <2>1, <2>2
<1>8. Describable
  BY <1>1, <1>7 DEF Describable
<1>9. start_addr["data"] = da /\ section_size("data") = ds
  <2>1. CASE section = "code"
    <3>1. ~started["data"]
      BY <1>2, <2>1
    <3>2. start_addr["data"] = 0 /\ section_size("data") = 0
      BY <1>2, <1>8, <3>1, DataEnds
    <3> QED
      BY <1>1, <1>3, <2>1, <3>2
  <2>2. CASE section = "data"
    <3>1. extent > region_start(given, section)
      BY <1>1, <1>4, <1>5, <2>2
    <3>2. started["data"]
      BY <2>2, <3>1 DEF Tracked
    <3>3. start_addr["data"] = da
      BY <1>2, <1>5, <3>2 DEF Tracked
    <3>4. start_addr["data"] + section_size("data") = extent
          /\ section_size("data") \in Word
      BY <1>2, <1>8, <3>2, DataEnds
    <3>5. section_size("data") \in Nat
      BY <3>4 DEF Word
    <3> QED
      BY <1>1, <1>4, <2>2, <3>3, <3>4, <3>5
  <2> QED
    BY <1>2, <2>1, <2>2 DEF Section
<1> QED
  BY <1>2, <1>3, <1>4, <1>6, <1>7, <1>8, <1>9 DEF ca, cs, ce, da, ds, de

LEMMA SameBytes ==
  ASSUME NEW u \in Seq(Byte), NEW v \in Seq(Byte), NEW m \in Nat, NEW n \in Nat,
         Len(u) = m + n, Len(v) = m + n,
         \A k \in 1 .. m : u[k] = v[k],
         \A k \in 1 .. n : u[m + k] = v[m + k]
  PROVE  u = v
<1>1. ASSUME NEW k \in 1 .. m + n PROVE u[k] = v[k]
  <2>1. CASE k <= m
    BY <2>1
  <2>2. CASE k > m
    <3>1. k - m \in 1 .. n /\ m + (k - m) = k
      BY <2>2
    <3> QED
      BY <3>1
  <2> QED
    BY <2>1, <2>2
<1> QED
  BY <1>1

LEMMA SameBody ==
  ASSUME AsmShape, Layout, ImageMade, Buffers, Tracked, stage = "ok",
         IsImage(given), Reproducible(given),
         section = end_section(given),
         extent = region_end(given, end_section(given))
  PROVE  image.body = given.body
<1> DEFINE ca == given.code_addr
           cs == given.code_size
           da == given.data_addr
           ds == given.data_size
           body == given.body
<1>1. /\ body \in Seq(Byte) /\ Len(body) = cs + ds
      /\ ca \in Nat /\ cs \in Nat /\ code_end(given) = ca + cs
      /\ code_end(given) < 65536
      /\ da \in Nat /\ ds \in Nat /\ data_end(given) = da + ds
      /\ data_end(given) <= 65536
  BY ReproducibleShape
<1>2. /\ Fits /\ start_addr["code"] = ca /\ section_size("code") = cs
      /\ code_extent = code_end(given)
      /\ start_addr["data"] = da /\ section_size("data") = ds
      /\ section = "data" => extent = data_end(given)
      /\ section = "code" => ds = 0
  BY SameSections
<1>3. PICK b \in PastBuffer : image = make_image(b)
  BY DEF ImageMade
<1>4. b \in Byte
  BY PastBufferAssumption
<1>5. "code" \in Section /\ "data" \in Section /\ section \in Section
  BY DEF AsmShape, Section
<1> DEFINE c == slice("code", b)
           d == slice("data", b)
<1>6. /\ c \in Seq(Byte) /\ Len(c) = cs /\ d \in Seq(Byte) /\ Len(d) = ds
  BY <1>2, <1>4, <1>5, SliceType
<1>7. image.body = c \o d
  BY <1>3 DEF make_image
<1>8. /\ region_start(given, "code") = ca /\ region_start(given, "data") = da
  BY DEF region_start
<1> HIDE DEF ca, cs, da, ds, body
<1>9. /\ \A k \in 1 .. cs : c[k] = mem_read8(buffer["code"], ca + k - 1)
      /\ \A k \in 1 .. ds : d[k] = mem_read8(buffer["data"], da + k - 1)
  <2>1. /\ start_addr["code"] + section_size("code") <= 65536
        /\ start_addr["data"] + section_size("data") <= 65536
    BY <1>1, <1>2
  <2> QED
    BY <1>2, <1>5, <2>1, SliceReads
<1>10. AllRight(stmts, Code, Passed, given)
  BY DEF Tracked
<1> HIDE DEF c, d
<1>11. /\ c \o d \in Seq(Byte) /\ Len(c \o d) = cs + ds
       /\ \A k \in 1 .. cs : (c \o d)[k] = c[k]
       /\ \A k \in 1 .. ds : (c \o d)[cs + k] = d[k]
  <2>1. c \in Seq(Byte) /\ d \in Seq(Byte)
    BY <1>6
  <2>2. /\ c \o d \in Seq(Byte) /\ Len(c \o d) = Len(c) + Len(d)
        /\ \A k \in 1 .. Len(c) : (c \o d)[k] = c[k]
        /\ \A k \in 1 .. Len(d) : (c \o d)[Len(c) + k] = d[k]
    BY <2>1, TwoParts
  <2> DEFINE u == c \o d
  <2> HIDE DEF u
  <2>3. /\ u \in Seq(Byte) /\ Len(u) = cs + ds
        /\ \A k \in 1 .. cs : u[k] = c[k]
        /\ \A k \in 1 .. ds : u[cs + k] = d[k]
    BY <1>6, <2>2, Zenon DEF u
  <2> QED
    BY <2>3 DEF u
<1>12. ASSUME NEW k \in 1 .. cs PROVE (c \o d)[k] = body[k]
  <2> DEFINE a == ca + k - 1
  <2>1. a \in ca .. code_extent - 1 /\ (a - ca) + 1 = k
    BY <1>1, <1>2
  <2>2. c[k] = mem_read8(buffer["code"], a)
    BY <1>9
  <2> HIDE DEF a
  <2>3. Covered(stmts, given, "code", code_extent)
    BY DEF Tracked
  <2>4. mem_read8(buffer["code"], a) = ByteAt(given, "code", a)
    BY <1>2, <1>5, <1>8, <1>10, <2>1, <2>3, BufferByte
  <2>5. ByteAt(given, "code", a) = body[k]
    BY <2>1 DEF ByteAt, ca, body
  <2> QED
    BY <1>11, <2>2, <2>4, <2>5
<1>13. ASSUME NEW k \in 1 .. ds PROVE (c \o d)[cs + k] = body[cs + k]
  <2> DEFINE a == da + k - 1
  <2>1. section = "data" /\ extent = data_end(given)
    <3>1. ds # 0
      BY <1>1
    <3> QED
      BY <1>2, <1>5, <3>1 DEF Section
  <2>2. a \in da .. extent - 1 /\ cs + (a - da) + 1 = cs + k
    BY <1>1, <2>1
  <2>3. d[k] = mem_read8(buffer["data"], a)
    BY <1>9
  <2> HIDE DEF a
  <2>4. Covered(stmts, given, "data", extent)
    BY <2>1 DEF Tracked
  <2>5. mem_read8(buffer["data"], a) = ByteAt(given, "data", a)
    BY <1>2, <1>5, <1>8, <1>10, <2>2, <2>4, BufferByte
  <2>6. ByteAt(given, "data", a) = body[cs + k]
    <3>1. ByteAt(given, "data", a) = body[cs + (a - da) + 1]
      BY DEF ByteAt, cs, da, body
    <3> QED
      BY <2>2, <3>1
  <2> QED
    BY <1>11, <2>3, <2>5, <2>6
<1>14. c \o d = body
  <2>1. /\ body \in Seq(Byte) /\ c \o d \in Seq(Byte) /\ cs \in Nat /\ ds \in Nat
        /\ Len(body) = cs + ds /\ Len(c \o d) = cs + ds
    BY <1>1, <1>11
  <2> QED
    BY <1>12, <1>13, <2>1, SameBytes
<1> QED
  BY <1>7, <1>14 DEF body

\* The image made of it is the given one, header and all.
LEMMA ImageReturns ==
  ASSUME AsmShape, Layout, ImageMade, Buffers, Tracked, stage = "ok",
         IsImage(given), Reproducible(given),
         IsRecord(given), IsRecord(image),
         section = end_section(given),
         extent = region_end(given, end_section(given))
  PROVE  image = given
<1>1. /\ start_addr["code"] = given.code_addr
      /\ section_size("code") = given.code_size
      /\ start_addr["data"] = given.data_addr
      /\ section_size("data") = given.data_size
  BY SameSections
<1>2. /\ image.size = BVM_HEADER_SIZE + section_size("code")
                        + section_size("data")
      /\ image.magic /\ image.version = 1 /\ image.reserved = 0
      /\ image.entry_point = start_addr["code"]
      /\ image.code_size = section_size("code")
      /\ image.code_addr = start_addr["code"]
      /\ image.data_size = section_size("data")
      /\ image.data_addr = start_addr["data"]
  BY ImageHeader
<1>3. image.body = given.body
  BY SameBody
<1>4. /\ given.size = BVM_HEADER_SIZE + given.code_size + given.data_size
      /\ given.magic /\ given.version = 1 /\ given.reserved = 0
      /\ given.entry_point = given.code_addr
  BY DEF Reproducible
<1>5. given.magic \in BOOLEAN /\ image.magic \in BOOLEAN
  BY Zenon DEF IsImage, AsmShape
<1>6. image.magic = given.magic
  BY <1>2, <1>4, <1>5
<1>7. /\ image.size = given.size /\ image.version = given.version
      /\ image.reserved = given.reserved
      /\ image.entry_point = given.entry_point
      /\ image.code_size = given.code_size /\ image.code_addr = given.code_addr
      /\ image.data_size = given.data_size /\ image.data_addr = given.data_addr
  BY <1>1, <1>2, <1>4
<1> QED
  BY <1>3, <1>6, <1>7, SameImage

-----------------------------------------------------------------------------
\* Assembly, disassembly and assembly again, as one invariant.

Follows ==
  turn = "reassemble" /\ Reproducible(given) =>
    /\ Tracked
    /\ \E G : /\ Path(tokens, given, dmem, G, end_config(tokens, given))
              /\ OnPath(G)

Records == IsRecord(given) /\ IsRecord(image)

ReturnInv == ProgramInv /\ Records /\ Printed /\ Follows

LEMMA AsmRecords ==
  ASSUME AsmNext, IsRecord(image)
  PROVE  IsRecord(image')
<1>1. image' = image \/ \E b \in PastBuffer : image' = make_image(b)
  BY DEF AsmNext, PassOne, skip_newline, define_label, duplicate_label,
     parse_instruction_statement, parse_org, parse_data, parse_string,
     parse_word, parse_byte, parse_fails, end_of_line, end_of_source,
     emit_statement, make_result, place, fail
<1> QED
  BY <1>1, MadeRecord

\* The second assembly starts where the path does.
LEMMA RestartFollows ==
  ASSUME AsmRestart(text), given' = given, dstage = "ok", Printed,
         IsImage(given), Reproducible(given)
  PROVE  /\ Tracked'
         /\ \E G : /\ Path(tokens', given', dmem', G, end_config(tokens', given'))
                   /\ OnPath(G)'
<1>1. /\ tokens' = text /\ pos' = 1 /\ stage' = "line" /\ stmts' = <<>>
      /\ section' = "code" /\ started' = [s \in Section |-> FALSE]
      /\ extent' = 0
  BY DEF AsmRestart
<1>2. dmem' = dmem
  BY SameCodeMemory
<1>3. PICK G : Path(text, given, dmem, G,
                    <<Len(text), end_section(given),
                      region_end(given, end_section(given))>>)
  BY DEF Printed
<1>4. <<1, "code", 0>> \in G
  BY <1>3 DEF Path
<1>5. OnPath(G)'
  BY <1>1, <1>4 DEF OnPath
<1>6. Path(tokens', given', dmem', G, end_config(tokens', given'))
  BY <1>1, <1>2, <1>3 DEF end_config
<1>7. Tracked'
  <2>1. "code" \in Section
    BY DEF Section
  <2>2. /\ region_start(given, "code") \in Nat
        /\ region_end(given, "code") \in Nat
    BY <2>1, Regions
  <2>3. \A s \in Section : ~started'[s]
    BY <1>1
  <2>4. Len(stmts') = 0 /\ code_extent' = 0
    BY <1>1, EmptySeq DEF code_extent
  <2>5. AllRight(stmts', Code', Passed', given')
    BY <2>4 DEF AllRight
  <2>6. Covered(stmts', given', "code", code_extent')
    <3>1. region_start(given, "code") .. 0 - 1 = {}
      BY <2>2
    <3> QED
      BY <2>4, <3>1 DEF Covered
  <2>7. /\ extent' <= region_end(given', section')
        /\ ~(extent' > region_start(given', section'))
    BY <1>1, <2>2
  <2> QED
    BY <1>1, <2>3, <2>5, <2>6, <2>7 DEF Tracked
<1> QED
  BY <1>5, <1>6, <1>7

LEMMA ReturnInvInit == RTInit => ReturnInv
<1> SUFFICES ASSUME RTInit PROVE ReturnInv
  OBVIOUS
<1>1. ProgramInv
  BY ProgramInvInit
<1>2. /\ dstage \in {"idle", "check"} /\ turn # "reassemble"
      /\ IsRecord(given) /\ image = NoImage
  <2>1. CASE AssembleFirst
    <3>1. given = NoImage /\ dstage = "idle" /\ turn = "assemble"
          /\ \E src \in Sources : AsmStart(src)
      BY <2>1 DEF AssembleFirst, AsmInit
    <3> QED
      BY <3>1, NoImageRecord DEF AsmStart
  <2>2. CASE DisassembleFirst
    <3>1. given \in Images /\ dstage = "check" /\ turn = "disassemble"
          /\ AsmStart(<<EOF>>)
      BY <2>2 DEF DisassembleFirst
    <3> QED
      BY <3>1, ImagesAssumption DEF AsmStart, IsRecord
  <2> QED
    BY <2>1, <2>2 DEF RTInit
<1> QED
  BY <1>1, <1>2, NoImageRecord DEF ReturnInv, Records, Printed, Follows

LEMMA ReturnInvStep == ReturnInv /\ [RTNext]_rtVars => ReturnInv'
<1> SUFFICES ASSUME ReturnInv, [RTNext]_rtVars PROVE ReturnInv'
  OBVIOUS
<1>1. /\ ProgramInv /\ ProgramInv' /\ IsRecord(given) /\ IsRecord(image)
      /\ Printed /\ Follows /\ AsmShape /\ Layout /\ DisShape /\ IsImage(given)
  BY ProgramInvStep DEF ReturnInv, Records, ProgramInv, RTInv, DisShape
<1>2. CASE Assembling
  <2>1. AsmNext /\ UNCHANGED disVars /\ turn' = turn
    BY <1>2 DEF Assembling, disVars
  <2>2. given' = given /\ dmem' = dmem
    BY <2>1, SameCodeMemory DEF disVars
  <2>3. Records'
    BY <1>1, <2>1, <2>2, AsmRecords DEF Records
  <2>4. Printed'
    BY <1>1, <2>1, PrintedSame
  <2>5. ASSUME turn = "reassemble", Reproducible(given)
        PROVE  /\ Tracked'
               /\ \E G : /\ Path(tokens', given', dmem', G,
                                 end_config(tokens', given'))
                         /\ OnPath(G)'
    <3>1. PICK G : /\ Path(tokens, given, dmem, G, end_config(tokens, given))
                   /\ OnPath(G)
      BY <1>1, <2>5 DEF Follows
    <3>2. Tracked
      BY <1>1, <2>5 DEF Follows
    <3>3. OnPath(G)' /\ Tracked' /\ tokens' = tokens
      BY <1>1, <2>1, <2>2, <2>5, <3>1, <3>2, AsmFollows, AsmKeepsTokens
    <3>4. Path(tokens', given', dmem', G, end_config(tokens', given'))
      BY <2>2, <3>1, <3>3
    <3> QED
      BY <3>3, <3>4
  <2>6. Follows'
    BY <2>1, <2>2, <2>5 DEF Follows
  <2> QED
    BY <1>1, <2>3, <2>4, <2>6 DEF ReturnInv
<1>3. CASE Disassembling
  <2>1. /\ DisNext /\ UNCHANGED asmVars /\ turn' = turn
        /\ turn = "disassemble"
    BY <1>3 DEF Disassembling
  <2>2. given' = given /\ image' = image
    <3>1. check_image => given' = given
      BY DEF check_image
    <3>2. sweep_instruction => given' = given
      BY DEF sweep_instruction
    <3>3. sweep_byte => given' = given
      BY DEF sweep_byte
    <3>4. print_data => given' = given
      BY DEF print_data
    <3>5. given' = given
      BY <2>1, <3>1, <3>2, <3>3, <3>4 DEF DisNext
    <3>6. image' = image
      BY <2>1 DEF asmVars
    <3> QED
      BY <3>5, <3>6
  <2>3. Records'
    BY <1>1, <2>2 DEF Records
  <2>4. Printed'
    BY <1>1, <2>1, PrintedStep
  <2>5. Follows'
    BY <2>1 DEF Follows
  <2> QED
    BY <1>1, <2>3, <2>4, <2>5 DEF ReturnInv
<1>4. CASE HandOver
  <2>1. /\ turn' = "disassemble" /\ given' = image /\ dstage' = "check"
        /\ image' = image
    BY <1>4 DEF HandOver, asmVars
  <2>2. Records' /\ Printed' /\ Follows'
    BY <1>1, <2>1 DEF Records, Printed, Follows
  <2> QED
    BY <1>1, <2>2 DEF ReturnInv
<1>5. CASE HandBack
  <2>1. /\ UNCHANGED disVars /\ turn' = "reassemble" /\ AsmRestart(text)
        /\ dstage = "ok"
    BY <1>5 DEF HandBack
  <2>2. given' = given /\ image' = NoImage
    BY <2>1 DEF disVars, AsmRestart
  <2>3. Records'
    BY <1>1, <2>2, NoImageRecord DEF Records
  <2>4. Printed'
    BY <1>1, <2>1, PrintedSame
  <2>5. ASSUME Reproducible(given)
        PROVE  /\ Tracked'
               /\ \E G : /\ Path(tokens', given', dmem', G,
                                 end_config(tokens', given'))
                         /\ OnPath(G)'
    BY <1>1, <2>1, <2>2, <2>5, RestartFollows
  <2>6. Follows'
    BY <2>2, <2>5 DEF Follows
  <2> QED
    BY <1>1, <2>3, <2>4, <2>6 DEF ReturnInv
<1>6. CASE UNCHANGED rtVars
  <2>1. UNCHANGED asmVars /\ UNCHANGED disVars /\ turn' = turn
    BY <1>6 DEF rtVars
  <2>2. UNCHANGED <<given, image, tokens, pos, stage, stmts, symtab, section,
                    cursor, started, start_addr, extent>>
    BY <2>1 DEF asmVars, disVars, parser
  <2>3. dmem' = dmem
    BY <2>2, SameCodeMemory
  <2>4. Records'
    BY <1>1, <2>2 DEF Records
  <2>5. Printed'
    BY <1>1, <2>1, PrintedSame
  <2>6. ASSUME turn = "reassemble", Reproducible(given)
        PROVE  /\ Tracked'
               /\ \E G : /\ Path(tokens', given', dmem', G,
                                 end_config(tokens', given'))
                         /\ OnPath(G)'
    <3>1. PICK G : /\ Path(tokens, given, dmem, G, end_config(tokens, given))
                   /\ OnPath(G)
      BY <1>1, <2>6 DEF Follows
    <3>2. Tracked
      BY <1>1, <2>6 DEF Follows
    <3>3. Tracked'
      BY <2>2, <3>2, SameTracked
    <3>4. OnPath(G)'
      BY <2>2, <3>1 DEF OnPath
    <3> QED
      BY <2>2, <2>3, <3>1, <3>3, <3>4
  <2>7. Follows'
    BY <2>1, <2>2, <2>6 DEF Follows
  <2> QED
    BY <1>1, <2>4, <2>5, <2>7 DEF ReturnInv
<1> QED
  BY <1>2, <1>3, <1>4, <1>5, <1>6 DEF RTNext

LEMMA ReturnsExactly == ReturnInv => RoundTripExact
<1> SUFFICES ASSUME ReturnInv, Reassembled, Reproducible(given)
             PROVE  stage = "ok" /\ image = given
  BY DEF RoundTripExact
<1>1. /\ AsmShape /\ Layout /\ ImageMade /\ Buffers /\ IsImage(given)
      /\ IsRecord(given) /\ IsRecord(image)
  BY DEF ReturnInv, ProgramInv, RTInv, Records, DisShape
<1>2. turn = "reassemble" /\ stage \in {"ok", "error"}
  BY DEF Reassembled
<1>3. Tracked /\ \E G : OnPath(G)
  BY <1>2 DEF ReturnInv, Follows
<1>4. /\ stage = "ok" /\ section = end_section(given)
      /\ extent = region_end(given, end_section(given))
  BY <1>2, <1>3 DEF OnPath
<1>5. image = given
  BY <1>1, <1>3, <1>4, ImageReturns
<1> QED
  BY <1>4, <1>5

-----------------------------------------------------------------------------
\* The promise of disassembler.h: assembling what `bytevm dis` prints of an
\* image gives that image back byte for byte, whatever bytes its code and
\* data hold (disassembler.c: disassemble, format_operand; parser.c: the
\* whole of assemble_tokens), for every image the language can express whose
\* code ends below the top of memory.
THEOREM RoundTripReturns == RTSpec => []RoundTripExact
  BY ReturnInvInit, ReturnInvStep, ReturnsExactly, PTL DEF RTSpec
=============================================================================
