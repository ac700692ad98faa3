----------------------------- MODULE ScreenProofs -----------------------------
(***************************************************************************)
(* Screen, for every set of messages: the serial line carries them however *)
(* slow the UART is; nothing but pixels of the screen is written; a panic  *)
(* can be read.                                                            *)
(***************************************************************************)
EXTENDS Screen, FiniteSetTheorems, SequenceTheorems, TLAPS

\* What a character is.
Character == STRING \cup {Junk}

\* A faulty chip is never written to; a good one has what was not sent yet in
\* its holding register and in the kernel's loop.
OnTheLine == /\ out \in Seq(Character) /\ uart \in Seq(Character) /\ line \in Seq(Character) /\ logged \in Seq(Character)
             /\ IF faulty THEN out = <<>> /\ uart = <<>> /\ line = <<>>
                          ELSE (line \o uart) \o out = logged

\* The characters of a message are characters.
LEMMA FormattedIsText ==
  ASSUME NEW m \in Message, NEW k \in Nat
  PROVE  Formatted(m, k) \in Seq(Character)
<1> DEFINE argument(i) == k + Cardinality({j \in 1 .. i : m.text[j] = ARG}) - 1
<1>1. m.text \in Seq(STRING) /\ m.args \in Seq(STRING)
  BY DEF Message
<1>2. \A i \in DOMAIN m.text : m.text[i] \in Character
  BY <1>1 DEF Character
<1>3. \A a \in DOMAIN m.args : m.args[a] \in Character
  BY <1>1 DEF Character
<1>4. Junk \in Character
  BY DEF Character
<1>5. \A i \in DOMAIN m.text : Formatted(m, k)[i] \in Character
  BY <1>2, <1>3, <1>4 DEF Formatted
<1>6. DOMAIN Formatted(m, k) = 1 .. Len(m.text) /\ Len(m.text) \in Nat
  BY <1>1 DEF Formatted
<1>7. Formatted(m, k) = [i \in 1 .. Len(m.text) |-> Formatted(m, k)[i]]
  BY <1>6, Zenon DEF Formatted
<1> QED BY <1>1, <1>5, <1>6, <1>7

\* Moving the first of the characters that wait to an empty register, and from
\* there to the line, changes nothing about what is on its way.
LEMMA Moved ==
  ASSUME NEW a \in Seq(Character), NEW b \in Seq(Character), b # <<>>
  PROVE  /\ <<Head(b)>> \in Seq(Character) /\ Tail(b) \in Seq(Character)
         /\ (a \o <<Head(b)>>) \o Tail(b) = (a \o <<>>) \o b
OBVIOUS

LEMMA LineAtFirst == Init => OnTheLine
BY DEF Init, OnTheLine

LEMMA LineGoesOn == OnTheLine /\ [Next]_vars => OnTheLine'
<1> SUFFICES ASSUME OnTheLine, [Next]_vars PROVE OnTheLine'
  OBVIOUS
<1>1. ASSUME NEW m \in Messages, printk(m) PROVE OnTheLine'
  <2>1. m \in Message /\ m.text \in Seq(STRING)
    BY MessageAssumption DEF Message
  <2>2. Taken(m) \in Nat
    <3>1. DOMAIN m.text = 1 .. Len(m.text) /\ Len(m.text) \in Nat
      BY <2>1
    <3>2. IsFiniteSet(DOMAIN m.text)
      BY <3>1, FS_Interval
    <3> QED BY <3>2, FS_Subset, FS_CardinalityType DEF Taken
  <2>3. serial_log(m) \in Seq(Character)
    BY <2>1, <2>2, FormattedIsText DEF serial_log
  <2>4. out = <<>> /\ UNCHANGED <<uart, line, faulty>>
    BY <1>1 DEF printk
  <2>5. CASE faulty
    BY <1>1, <2>3, <2>4, <2>5 DEF printk, Sent, OnTheLine
  <2>6. CASE ~ faulty
    <3>1. out' = serial_log(m) /\ logged' = logged \o serial_log(m)
      BY <1>1, <2>6 DEF printk, Sent
    <3>2. logged = line \o uart
      BY <2>4, <2>6 DEF OnTheLine
    <3> QED BY <2>3, <2>4, <2>6, <3>1, <3>2 DEF OnTheLine
  <2> QED BY <2>5, <2>6
<1>2. CASE put_char
  <2>1. ~ faulty /\ out # <<>> /\ uart = <<>>
    BY <1>2 DEF put_char, OnTheLine
  <2>2. /\ uart' = <<Head(out)>> /\ out' = Tail(out) /\ UNCHANGED <<line, faulty, logged>>
    BY <1>2 DEF put_char
  <2>3. /\ out \in Seq(Character) /\ line \in Seq(Character) /\ logged \in Seq(Character)
        /\ (line \o <<>>) \o out = logged
    BY <2>1 DEF OnTheLine
  <2>4. /\ uart' \in Seq(Character) /\ out' \in Seq(Character)
        /\ (line \o uart') \o out' = logged
    BY <2>1, <2>2, <2>3, Moved
  <2> QED BY <2>1, <2>2, <2>3, <2>4 DEF OnTheLine
<1>3. CASE transmit
  BY <1>3 DEF transmit, OnTheLine
<1>4. CASE kpanic
  BY <1>4 DEF kpanic, serial, OnTheLine
<1>5. ASSUME NEW m \in Puts, sys_conout(m) PROVE OnTheLine'
  BY <1>5 DEF sys_conout, serial, OnTheLine
<1>6. CASE sys_ioctl
  BY <1>6 DEF sys_ioctl, serial, OnTheLine
<1>7. CASE UNCHANGED vars
  BY <1>7 DEF vars, serial, OnTheLine
<1> QED BY <1>1, <1>2, <1>3, <1>4, <1>5, <1>6, <1>7 DEF Next

-----------------------------------------------------------------------------
(* Drawing                                                                 *)

Pixel == (0 .. W - 1) \X (0 .. H - 1)
Places == {_framebuffer_get_index(p) : p \in Pixel}
Ink == Character \cup Colours \cup {Blank, NL, "T", "a", "b"}
Picture == [Places -> Ink]

\* What console_write and FRAMEBUFFER_IOCTL_PUTSTR carry along.
State == [fb : Picture, x : 0 .. Word - 1, y : 0 .. Word - 1]

\* What holds at 0 and is passed on from each number to the next holds up to n.
LEMMA CountingUp ==
  ASSUME NEW n \in Nat, NEW T, 0 \in T, \A i \in 1 .. n : i - 1 \in T => i \in T
  PROVE  \A i \in 0 .. n : i \in T
<1> DEFINE R == {i \in 0 .. n : i \notin T}
<1>1. SUFFICES ASSUME R # {} PROVE FALSE
  OBVIOUS
<1>2. R \subseteq Nat
  OBVIOUS
<1>3. PICK k \in R : \A j \in R : ~ (<<j, k>> \in OpToRel(<, Nat))
  BY <1>1, <1>2, WFMin, NatLessThanWellFounded, Zenon
<1>4. k \in 1 .. n /\ k \notin T
  OBVIOUS
<1>5. k - 1 \in R
  BY <1>4
<1>6. <<k - 1, k>> \in OpToRel(<, Nat)
  BY <1>4 DEF OpToRel
<1> QED BY <1>3, <1>5, <1>6, Zenon

\* What is visible of a set of coordinates is on the screen.
LEMMA VisibleIsPixel ==
  ASSUME NEW p \in Nat \X Nat, Visible(p)
  PROVE  p \in Pixel
BY SizeAssumption DEF Visible, Pixel

\* Painting reaches the visible ones of the given pixels and nothing else.
LEMMA PaintedPicture ==
  ASSUME NEW f \in Picture, NEW P \in SUBSET (Nat \X Nat), NEW c \in Ink
  PROVE  /\ Painted(f, P, c) \in Picture
         /\ \A i \in Places : Painted(f, P, c)[i] =
                IF i \in {_framebuffer_get_index(p) : p \in {q \in P : Visible(q)}} THEN c ELSE f[i]
<1> DEFINE at == {_framebuffer_get_index(p) : p \in {q \in P : Visible(q)}}
<1>1. at \subseteq Places
  <2>1. \A q \in P : Visible(q) => q \in Pixel
    BY VisibleIsPixel
  <2> QED BY <2>1, Zenon DEF Places
<1>2. DOMAIN f = Places
  BY DEF Picture
<1>3. Painted(f, P, c) = [i \in Places |-> IF i \in at THEN c ELSE f[i]]
  <2>1. DOMAIN f \cup at = Places
    BY <1>1, <1>2
  <2> QED BY <2>1, Zenon DEF Painted
<1> HIDE DEF at
<1>4. Painted(f, P, c) \in Picture
  BY <1>3 DEF Picture
<1>5. \A i \in Places : Painted(f, P, c)[i] = IF i \in at THEN c ELSE f[i]
  BY <1>3
<1> QED BY <1>4, <1>5 DEF at

\* The pixels of a glyph have natural coordinates.
Glyph(px, py) == {<<(px + cx) % Word, (py + cy) % Word>> : cx \in 0 .. FontW - 1, cy \in 0 .. FontH - 1}

LEMMA GlyphIsNatural ==
  ASSUME NEW px \in Nat, NEW py \in Nat
  PROVE  Glyph(px, py) \in SUBSET (Nat \X Nat)
<1>1. \A cx \in 0 .. FontW - 1, cy \in 0 .. FontH - 1 : (px + cx) % Word \in Nat /\ (py + cy) % Word \in Nat
  BY SizeAssumption
<1> QED BY <1>1 DEF Glyph

LEMMA GlyphPicture ==
  ASSUME NEW f \in Picture, NEW px \in Nat, NEW py \in Nat, NEW c \in Ink
  PROVE  framebuffer_putch(f, px, py, c) \in Picture
<1>1. framebuffer_putch(f, px, py, c) = Painted(f, Glyph(px, py), c)
  BY DEF framebuffer_putch, Glyph
<1> QED BY <1>1, GlyphIsNatural, PaintedPicture

\* Clearing reaches the whole screen.
LEMMA ClearPicture ==
  ASSUME NEW f \in Picture, NEW c \in Ink
  PROVE  framebuffer_clear(f, c) = [i \in Places |-> c]
<1> DEFINE P == (0 .. (4 * Stride) - 1) \X (0 .. H - 1)
<1>1. P \in SUBSET (Nat \X Nat)
  OBVIOUS
<1>2. framebuffer_clear(f, c) = Painted(f, P, c)
  BY Zenon DEF framebuffer_clear
<1>3. \A p \in Pixel : p \in P /\ Visible(p)
  BY SizeAssumption DEF Pixel, Visible
<1> HIDE DEF P
<1>4. \A i \in Places : i \in {_framebuffer_get_index(p) : p \in {q \in P : Visible(q)}}
  BY <1>3, Zenon DEF Places
<1>5. \A i \in Places : framebuffer_clear(f, c)[i] = c
  <2>1. \A i \in Places : Painted(f, P, c)[i] =
            IF i \in {_framebuffer_get_index(p) : p \in {q \in P : Visible(q)}} THEN c ELSE f[i]
    BY <1>1, PaintedPicture, Zenon
  <2> QED BY <1>2, <1>4, <2>1, Zenon
<1>6. framebuffer_clear(f, c) \in Picture
  BY <1>1, <1>2, PaintedPicture
<1> QED BY <1>5, <1>6 DEF Picture

LEMMA BlankPicture == Blank \in Ink /\ [i \in Places |-> Blank] \in Picture
<1>1. Blank \in Ink
  BY DEF Ink
<1> QED BY <1>1, Zenon DEF Picture

LEMMA NewlineIsState ==
  ASSUME NEW s \in State
  PROVE  newline(s) \in State
<1>1. framebuffer_clear(s.fb, Blank) \in Picture
  BY ClearPicture, BlankPicture DEF State
<1>2. (s.y + FontH + Gap) % Word \in 0 .. Word - 1 /\ 0 \in 0 .. Word - 1
  BY SizeAssumption DEF State
<1> QED BY <1>1, <1>2 DEF newline, State

LEMMA PutstrIsState ==
  ASSUME NEW s \in State, NEW c \in Ink
  PROVE  putstr(s, c) \in State
<1>1. CASE c = NL
  BY <1>1, NewlineIsState DEF putstr
<1>2. CASE c # NL
  <2>1. framebuffer_putch(s.fb, s.x, s.y, c) \in Picture
    BY GlyphPicture DEF State
  <2>2. (s.x + FontW) % Word \in 0 .. Word - 1
    BY SizeAssumption DEF State
  <2> QED BY <1>2, <2>1, <2>2 DEF putstr, State
<1> QED BY <1>1, <1>2

LEMMA IoctlPutstrIsState ==
  ASSUME NEW s \in State, NEW px \in 0 .. Word - 1, NEW c \in Ink
  PROVE  ioctl_putstr(s, px, c) \in State
<1>1. CASE c = NL
  <2>1. (s.y + FontH + Gap) % Word \in 0 .. Word - 1
    BY SizeAssumption DEF State
  <2> QED BY <1>1, <2>1 DEF ioctl_putstr, State
<1>2. CASE c # NL
  <2>1. framebuffer_putch(s.fb, s.x, s.y, c) \in Picture
    BY GlyphPicture DEF State
  <2>2. (s.x + FontW) % Word \in 0 .. Word - 1
    BY SizeAssumption DEF State
  <2> QED BY <1>2, <2>1, <2>2 DEF ioctl_putstr, State
<1> QED BY <1>1, <1>2

\* A step that takes states to states can be taken for one character of a text
\* after the other.
Steps(S, C) == [S \X C -> S]
Runs(S, F, s, text) == {g \in [0 .. Len(text) -> S] :
                           g[0] = s /\ \A i \in 1 .. Len(text) : g[i] = F[<<g[i - 1], text[i]>>]}

LEMMA StepsCanFollow ==
  ASSUME NEW S, NEW C, NEW F, NEW s, NEW text,
         F \in Steps(S, C), s \in S, text \in Seq(C)
  PROVE  Runs(S, F, s, text) # {}
<1> USE DEF Steps
<1> DEFINE n == Len(text)
           Upto(k, g) == g[0] = s /\ \A i \in 1 .. k : g[i] = F[<<g[i - 1], text[i]>>]
           T == {k \in 0 .. n : \E g \in [0 .. k -> S] : Upto(k, g)}
<1>1. n \in Nat /\ \A i \in 1 .. n : text[i] \in C
  OBVIOUS
<1>2. 0 \in T
  <2> DEFINE g == [i \in 0 .. 0 |-> s]
  <2>1. g \in [0 .. 0 -> S] /\ Upto(0, g)
    OBVIOUS
  <2>2. 0 \in 0 .. n
    BY <1>1
  <2> HIDE DEF g
  <2> QED BY <2>1, <2>2, Zenon
<1>3. \A k \in 1 .. n : k - 1 \in T => k \in T
  <2> SUFFICES ASSUME NEW k \in 1 .. n, k - 1 \in T PROVE k \in T
    OBVIOUS
  <2>1. PICK g \in [0 .. k - 1 -> S] : Upto(k - 1, g)
    OBVIOUS
  <2> DEFINE next == F[<<g[k - 1], text[k]>>]
             h == [i \in 0 .. k |-> IF i = k THEN next ELSE g[i]]
  <2>2. next \in S
    <3>1. g[k - 1] \in S /\ text[k] \in C
      BY <1>1
    <3>2. <<g[k - 1], text[k]>> \in S \X C
      BY <3>1
    <3> QED BY <3>2, Zenon
  <2> HIDE DEF next
  <2>3. /\ \A i \in 0 .. k - 1 : h[i] = g[i]
        /\ h[k] = next /\ h \in [0 .. k -> S]
    BY <2>2
  <2> HIDE DEF h
  <2>4. \A i \in 1 .. k : h[i] = F[<<h[i - 1], text[i]>>]
    <3>1. TAKE i \in 1 .. k
    <3>2. CASE i = k
      <4>1. h[k] = next /\ h[k - 1] = g[k - 1]
        BY <2>3
      <4> QED BY <3>2, <4>1, Zenon DEF next
    <3>3. CASE i # k
      <4>1. h[i] = g[i] /\ h[i - 1] = g[i - 1]
        BY <2>3, <3>3
      <4>2. g[i] = F[<<g[i - 1], text[i]>>]
        BY <2>1, <3>3
      <4> QED BY <4>1, <4>2, Zenon
    <3> QED BY <3>2, <3>3
  <2>5. h[0] = s
    BY <2>1, <2>3
  <2>6. k \in 0 .. n
    BY <1>1
  <2> QED BY <2>3, <2>4, <2>5, <2>6, Zenon
<1> HIDE DEF T
<1>4. \A i \in 0 .. n : i \in T
  BY <1>1, <1>2, <1>3, CountingUp
<1>5. n \in T
  BY <1>1, <1>4
<1> QED BY <1>5 DEF T, Runs

\* The states after each of the characters of a text, for console_write ...
States(s, text) ==
    CHOOSE after : after = [i \in 0 .. Len(text) |-> IF i = 0 THEN s ELSE putstr(after[i - 1], text[i])]

LEMMA WrittenIsLast ==
  ASSUME NEW s, NEW text
  PROVE  Written(s, text) = States(s, text)[Len(text)]
BY Zenon DEF Written, States

LEMMA StatesFollow ==
  ASSUME NEW s \in State, NEW text \in Seq(Ink)
  PROVE  /\ States(s, text)[0] = s
         /\ \A i \in 1 .. Len(text) : States(s, text)[i] = putstr(States(s, text)[i - 1], text[i])
         /\ \A i \in 0 .. Len(text) : States(s, text)[i] \in State
<1> DEFINE n == Len(text)
           F == [p \in State \X Ink |-> putstr(p[1], p[2])]
           Recurs(g) == g = [i \in 0 .. n |-> IF i = 0 THEN s ELSE putstr(g[i - 1], text[i])]
<1>1. n \in Nat /\ \A i \in 1 .. n : text[i] \in Ink
  OBVIOUS
<1>2. \E g : Recurs(g)
  <2>1. F \in Steps(State, Ink)
    BY PutstrIsState DEF Steps
  <2>2. \A t \in State, c \in Ink : F[<<t, c>>] = putstr(t, c)
    OBVIOUS
  <2> HIDE DEF F
  <2>3. PICK g \in [0 .. n -> State] : g[0] = s /\ \A i \in 1 .. n : g[i] = F[<<g[i - 1], text[i]>>]
    <3>1. Runs(State, F, s, text) # {}
      BY <2>1, StepsCanFollow, Zenon
    <3> QED BY <3>1 DEF Runs
  <2>4. \A i \in 1 .. n : g[i] = putstr(g[i - 1], text[i])
    <3>1. \A i \in 1 .. n : g[i - 1] \in State
      BY <1>1, <2>3
    <3> QED BY <1>1, <2>2, <2>3, <3>1
  <2>5. \A i \in 0 .. n : g[i] = IF i = 0 THEN s ELSE putstr(g[i - 1], text[i])
    BY <2>3, <2>4
  <2>6. Recurs(g)
    BY <2>5
  <2> QED BY <2>6, Zenon
<1> DEFINE after == States(s, text)
<1>3. Recurs(after)
  BY <1>2, Zenon DEF States
<1> HIDE DEF after
<1>4. after[0] = s /\ \A i \in 1 .. n : after[i] = putstr(after[i - 1], text[i])
  BY <1>1, <1>3
<1> DEFINE T == {i \in 0 .. n : after[i] \in State}
<1>5. 0 \in T
  BY <1>1, <1>4
<1>6. \A i \in 1 .. n : i - 1 \in T => i \in T
  BY <1>1, <1>4, PutstrIsState
<1> HIDE DEF T
<1>7. \A i \in 0 .. n : i \in T
  BY <1>1, <1>5, <1>6, CountingUp
<1> QED BY <1>4, <1>7 DEF T, after

LEMMA WrittenIsState ==
  ASSUME NEW s \in State, NEW text \in Seq(Ink)
  PROVE  Written(s, text) \in State
<1>1. Len(text) \in 0 .. Len(text)
  OBVIOUS
<1> QED BY <1>1, StatesFollow, WrittenIsLast

\* ... and for FRAMEBUFFER_IOCTL_PUTSTR.
LEMMA TextIsPicture ==
  ASSUME NEW f \in Picture, NEW px \in 0 .. Word - 1, NEW py \in 0 .. Word - 1, NEW text \in Seq(Ink)
  PROVE  Text(f, px, py, text) \in Picture
<1> DEFINE n == Len(text)
           s == [fb |-> f, x |-> px, y |-> py]
           F == [p \in State \X Ink |-> ioctl_putstr(p[1], px, p[2])]
           Recurs(g) == g = [i \in 0 .. n |-> IF i = 0 THEN s ELSE ioctl_putstr(g[i - 1], px, text[i])]
           after == CHOOSE g : Recurs(g)
<1>1. n \in Nat /\ \A i \in 1 .. n : text[i] \in Ink
  OBVIOUS
<1>2. s \in State
  BY DEF State
<1>3. Text(f, px, py, text) = after[n].fb
  BY Zenon DEF Text
<1> HIDE DEF s
<1>4. \E g : Recurs(g)
  <2>1. F \in Steps(State, Ink)
    BY IoctlPutstrIsState DEF Steps
  <2>2. \A t \in State, c \in Ink : F[<<t, c>>] = ioctl_putstr(t, px, c)
    OBVIOUS
  <2> HIDE DEF F
  <2>3. PICK g \in [0 .. n -> State] : g[0] = s /\ \A i \in 1 .. n : g[i] = F[<<g[i - 1], text[i]>>]
    <3>1. Runs(State, F, s, text) # {}
      BY <1>2, <2>1, StepsCanFollow, Zenon
    <3> QED BY <3>1 DEF Runs
  <2>4. \A i \in 1 .. n : g[i] = ioctl_putstr(g[i - 1], px, text[i])
    <3>1. \A i \in 1 .. n : g[i - 1] \in State
      BY <1>1, <2>3
    <3> QED BY <1>1, <2>2, <2>3, <3>1
  <2>5. \A i \in 0 .. n : g[i] = IF i = 0 THEN s ELSE ioctl_putstr(g[i - 1], px, text[i])
    BY <2>3, <2>4
  <2>6. Recurs(g)
    BY <2>5
  <2> QED BY <2>6, Zenon
<1>5. Recurs(after)
  BY <1>4, Zenon
<1> HIDE DEF after
<1>6. after[0] = s /\ \A i \in 1 .. n : after[i] = ioctl_putstr(after[i - 1], px, text[i])
  BY <1>1, <1>5
<1> DEFINE T == {i \in 0 .. n : after[i] \in State}
<1>7. 0 \in T
  BY <1>1, <1>2, <1>6
<1>8. \A i \in 1 .. n : i - 1 \in T => i \in T
  BY <1>1, <1>6, IoctlPutstrIsState
<1> HIDE DEF T
<1>9. \A i \in 0 .. n : i \in T
  BY <1>1, <1>7, <1>8, CountingUp
<1>10. after[n] \in State
  BY <1>1, <1>9 DEF T
<1> QED BY <1>3, <1>10 DEF State
-----------------------------------------------------------------------------
(* The system calls of kesswm                                              *)

Clear == {"CLEAR"} \X Ink
PutPix == {"PUTPIX"} \X Nat \X Nat \X Ink
PutStr == {"PUTSTR"} \X Nat \X Nat \X Seq(Ink)
Call == Clear \cup PutPix \cup PutStr

LEMMA SquareIsCalls ==
  ASSUME NEW sx \in Nat, NEW sy \in Nat, NEW w \in Nat, NEW h \in Nat, NEW c \in Ink
  PROVE  libgfx_draw_square(sx, sy, w, h, c) \in Seq(Call)
<1> DEFINE n == w * h
           pixel(i) == <<"PUTPIX", sx + ((i - 1) % w), sy + ((i - 1) \div w), c>>
<1>1. n \in Nat
  OBVIOUS
<1>2. ASSUME NEW i \in 1 .. n PROVE pixel(i) \in Call
  <2>1. w # 0
    BY <1>2
  <2>2. sx + ((i - 1) % w) \in Nat /\ sy + ((i - 1) \div w) \in Nat
    BY <1>1, <2>1
  <2> QED BY <2>2 DEF Call, PutPix
<1>3. libgfx_draw_square(sx, sy, w, h, c) = [i \in 1 .. n |-> pixel(i)]
  BY DEF libgfx_draw_square
<1> HIDE DEF n, pixel
<1> QED BY <1>1, <1>2, <1>3

LEMMA KesswmIsCalls == kesswm \in Seq(Call)
<1>1. {"desktop", "bg", "fg", NL, "T", "a", "b"} \subseteq Ink
  BY DEF Ink, Colours
<1>2. /\ Win.x \in Nat /\ Win.y \in Nat /\ Win.width \in Nat /\ Win.height \in Nat
      /\ Win.bar \in Nat /\ Win.inset \in Nat
  BY WinAssumption
<1>3. kesswm_draw_desktop \in Seq(Call)
  <2>1. <<"CLEAR", "desktop">> \in Call
    BY <1>1 DEF Call, Clear
  <2> QED BY <2>1 DEF kesswm_draw_desktop
<1>4. libgfx_open_window \in Seq(Call)
  <2>1. /\ libgfx_draw_square(Win.x, Win.y, Win.width, Win.height, "bg") \in Seq(Call)
        /\ libgfx_draw_square(Win.x, Win.y, Win.width, Win.bar, "fg") \in Seq(Call)
    BY <1>1, <1>2, SquareIsCalls
  <2> QED BY <2>1 DEF libgfx_open_window
<1>5. kesswm_open_window \in Seq(Call)
  <2>1. <<"T">> \in Seq(Ink)
    BY <1>1
  <2>2. <<"PUTSTR", Win.x, Win.y, <<"T">> >> \in Call
    BY <1>2, <2>1 DEF Call, PutStr
  <2> QED BY <1>4, <2>2 DEF kesswm_open_window
<1>6. kesswm_putstr \in Seq(Call)
  <2>1. <<"a", NL, "b">> \in Seq(Ink)
    BY <1>1
  <2>2. Win.x + Win.inset \in Nat /\ Win.y + Win.bar \in Nat
    BY <1>2
  <2>3. <<"PUTSTR", Win.x + Win.inset, Win.y + Win.bar, <<"a", NL, "b">> >> \in Call
    BY <2>1, <2>2 DEF Call, PutStr
  <2> QED BY <2>3 DEF kesswm_putstr
<1> QED BY <1>3, <1>5, <1>6 DEF kesswm

\* A register holds the argument the stub put there.
LEMMA RegistersHold ==
  ASSUME NEW args, NEW k \in DOMAIN Registers, k \in DOMAIN args
  PROVE  syscall(args)[Registers[k]] = args[k]
<1>1. \A i, j \in DOMAIN Registers : Registers[i] = Registers[j] => i = j
  BY DEF Registers
<1> DEFINE r == Registers[k]
           i == CHOOSE j \in DOMAIN Registers : Registers[j] = r
<1>2. i = k
  BY <1>1, Zenon
<1>3. r \in Range(Registers)
  BY DEF Range
<1>4. syscall(args)[r] = IF i \in DOMAIN args THEN args[i] ELSE Junk
  BY <1>3, Zenon DEF syscall
<1> QED BY <1>2, <1>4

\* What a sequence has in front of it moves its elements up.
Three(X) == {u \in Seq(X) : Len(u) = 3}
Follows(s, args) == \A i \in DOMAIN s : 3 + i \in DOMAIN args /\ args[3 + i] = s[i]

LEMMA InFront ==
  ASSUME NEW X, NEW u \in Three(X), NEW s \in Seq(X)
  PROVE  3 \in DOMAIN (u \o s) /\ (u \o s)[3] = u[3] /\ Follows(s, u \o s)
<1> USE DEF Three, Follows
<1>1. /\ u \o s \in Seq(X) /\ Len(u \o s) = Len(u) + Len(s)
      /\ \A i \in 1 .. Len(u) + Len(s) : (u \o s)[i] = IF i <= Len(u) THEN u[i] ELSE s[i - Len(u)]
  BY ConcatProperties, Zenon
<1>2. DOMAIN (u \o s) = 1 .. Len(u \o s) /\ DOMAIN s = 1 .. Len(s) /\ Len(s) \in Nat
  BY <1>1, LenProperties, Zenon
<1> DEFINE v == u \o s
<1>3. DOMAIN v = 1 .. 3 + Len(s) /\ \A i \in 1 .. 3 + Len(s) : v[i] = IF i <= 3 THEN u[i] ELSE s[i - 3]
  BY <1>1, <1>2, Zenon
<1> HIDE DEF v
<1>4. 3 \in DOMAIN v /\ v[3] = u[3] /\ \A i \in DOMAIN s : 3 + i \in DOMAIN v /\ v[3 + i] = s[i]
  BY <1>2, <1>3
<1> QED BY <1>4 DEF v

\* The command and the first arguments of an ioctl arrive.
LEMMA ArgumentsArrive ==
  ASSUME NEW call \in Call
  PROVE  LET tf == syscall(<<1, 1, call[1]>> \o Tail(call))
         IN  /\ tf["rcx"] = call[1]
             /\ ioctl_args(tf)[1] = call[2]
             /\ call \notin Clear => ioctl_args(tf)[2] = call[3] /\ ioctl_args(tf)[3] = call[4]
<1> DEFINE args == <<1, 1, call[1]>> \o Tail(call)
           tf == syscall(args)
<1>1. /\ Registers[3] = "rcx" /\ Registers[4] = "rdx" /\ Registers[5] = "rsi" /\ Registers[6] = "rdi"
      /\ {3, 4, 5, 6} \subseteq DOMAIN Registers
  BY DEF Registers
<1>2. CASE call \in Clear
  <2>1. PICK c : call = <<"CLEAR", c>>
    BY <1>2 DEF Clear
  <2>2. Tail(call) = <<c>> /\ call[1] = "CLEAR" /\ call[2] = c
    BY <2>1
  <2>3. 3 \in DOMAIN args /\ 4 \in DOMAIN args /\ args[3] = call[1] /\ args[4] = call[2]
    <3> DEFINE X == {1, call[1], c}
           u == <<1, 1, call[1]>>
           t == <<c>>
    <3>1. t \in Seq(X) /\ DOMAIN t = 1 .. 1 /\ t[1] = c
      OBVIOUS
    <3>2. u \in Seq(X) /\ Len(u) = 3 /\ u[3] = call[1]
      <4> DEFINE o1 == call[1]
      <4> HIDE DEF o1
      <4>1. u = <<1, 1, o1>> /\ X = {1} \cup (X \cup {o1})
        BY <2>2 DEF o1
      <4>2. <<1, 1, o1>> \in Seq({1} \cup (X \cup {o1})) /\ Len(<<1, 1, o1>>) = 3 /\ <<1, 1, o1>>[3] = o1
        OBVIOUS
      <4> QED BY <4>1, <4>2, Zenon DEF o1
    <3>3. args = u \o t
      BY <2>2, Zenon
    <3> HIDE DEF X, u, t, args
    <3>4. 3 \in DOMAIN args /\ args[3] = call[1] /\ Follows(t, args)
      <4>1. u \in Three(X)
        BY <3>2 DEF Three
      <4>2. 3 \in DOMAIN (u \o t) /\ (u \o t)[3] = u[3] /\ Follows(t, u \o t)
        BY <3>1, <4>1, InFront
      <4> QED BY <3>2, <3>3, <4>2, Zenon
    <3>5. 3 + 1 \in DOMAIN args /\ args[3 + 1] = c
      BY <3>1, <3>4 DEF Follows
    <3> QED BY <2>2, <3>4, <3>5
  <2>4. tf["rcx"] = call[1] /\ tf["rdx"] = call[2]
    BY <1>1, <2>3, RegistersHold
  <2>5. ioctl_args(tf)[1] = tf["rdx"]
    BY DEF ioctl_args
  <2> QED BY <1>2, <2>4, <2>5
<1>3. CASE call \in PutPix \cup PutStr
  <2>1. PICK o, a, b, c : call = <<o, a, b, c>>
    BY <1>3 DEF PutPix, PutStr
  <2>2. Tail(call) = <<a, b, c>> /\ call[1] = o /\ call[2] = a /\ call[3] = b /\ call[4] = c
    BY <2>1
  <2>3. /\ {3, 4, 5, 6} \subseteq DOMAIN args
        /\ args[3] = call[1] /\ args[4] = call[2] /\ args[5] = call[3] /\ args[6] = call[4]
    <3> DEFINE X == {1, o, a, b, c}
           u == <<1, 1, call[1]>>
           t == <<a, b, c>>
    <3>1. t \in Seq(X) /\ DOMAIN t = 1 .. 3 /\ t[1] = a /\ t[2] = b /\ t[3] = c
      OBVIOUS
    <3>2. u \in Seq(X) /\ Len(u) = 3 /\ u[3] = call[1]
      <4> DEFINE o1 == call[1]
      <4> HIDE DEF o1
      <4>1. u = <<1, 1, o1>> /\ X = {1} \cup (X \cup {o1})
        BY <2>2 DEF o1
      <4>2. <<1, 1, o1>> \in Seq({1} \cup (X \cup {o1})) /\ Len(<<1, 1, o1>>) = 3 /\ <<1, 1, o1>>[3] = o1
        OBVIOUS
      <4> QED BY <4>1, <4>2, Zenon DEF o1
    <3>3. args = u \o t
      BY <2>2, Zenon
    <3> HIDE DEF X, u, t, args
    <3>4. 3 \in DOMAIN args /\ args[3] = call[1] /\ Follows(t, args)
      <4>1. u \in Three(X)
        BY <3>2 DEF Three
      <4>2. 3 \in DOMAIN (u \o t) /\ (u \o t)[3] = u[3] /\ Follows(t, u \o t)
        BY <3>1, <4>1, InFront
      <4> QED BY <3>2, <3>3, <4>2, Zenon
    <3>5. /\ 3 + 1 \in DOMAIN args /\ args[3 + 1] = a /\ 3 + 2 \in DOMAIN args /\ args[3 + 2] = b
          /\ 3 + 3 \in DOMAIN args /\ args[3 + 3] = c
      BY <3>1, <3>4 DEF Follows
    <3> QED BY <2>2, <3>4, <3>5
  <2>4. tf["rcx"] = call[1] /\ tf["rdx"] = call[2] /\ tf["rsi"] = call[3] /\ tf["rdi"] = call[4]
    <3>1. \A k \in {3, 4, 5, 6} : k \in DOMAIN Registers /\ k \in DOMAIN args
      BY <1>1, <2>3
    <3> HIDE DEF args
    <3>2. \A k \in {3, 4, 5, 6} : tf[Registers[k]] = args[k]
      BY <3>1, RegistersHold
    <3> HIDE DEF tf
    <3> QED BY <1>1, <2>3, <3>2
  <2>5. ioctl_args(tf)[1] = tf["rdx"] /\ ioctl_args(tf)[2] = tf["rsi"] /\ ioctl_args(tf)[3] = tf["rdi"]
    BY DEF ioctl_args
  <2> QED BY <2>4, <2>5
<1> QED BY <1>2, <1>3 DEF Call

\* Whatever kesswm asks for, the picture keeps to the screen.
LEMMA IoctlPicture ==
  ASSUME fb \in Picture, NEW call \in Call, NEW a,
         a[1] = call[2], call \notin Clear => a[2] = call[3] /\ a[3] = call[4]
  PROVE  framebuffer_ioctl(call[1], a) \in Picture
<1>1. CASE call \in Clear
  <2>1. call[1] = "CLEAR" /\ a[1] \in Ink
    BY <1>1 DEF Clear
  <2>2. framebuffer_ioctl(call[1], a) = framebuffer_clear(fb, a[1])
    BY <2>1 DEF framebuffer_ioctl
  <2>3. framebuffer_clear(fb, a[1]) \in Picture
    BY <2>1, ClearPicture DEF Picture
  <2> QED BY <2>2, <2>3
<1>2. CASE call \in PutPix
  <2>1. call[1] = "PUTPIX" /\ call \notin Clear
    BY <1>2 DEF PutPix, Clear
  <2>2. a[1] \in Nat /\ a[2] \in Nat /\ a[3] \in Ink
    BY <1>2, <2>1 DEF PutPix
  <2> DEFINE P == {<<a[1] % Word, a[2] % Word>>}
  <2>3. P \in SUBSET (Nat \X Nat)
    BY <2>2, SizeAssumption
  <2>4. framebuffer_ioctl(call[1], a) = IF InMargin(a) THEN Painted(fb, P, a[3]) ELSE fb
    BY <2>1 DEF framebuffer_ioctl
  <2> HIDE DEF P
  <2>5. Painted(fb, P, a[3]) \in Picture
    BY <2>2, <2>3, PaintedPicture
  <2> QED BY <2>4, <2>5
<1>3. CASE call \in PutStr
  <2>1. call[1] = "PUTSTR" /\ call \notin Clear
    BY <1>3 DEF PutStr, Clear
  <2>2. a[1] \in Nat /\ a[2] \in Nat /\ a[3] \in Seq(Ink)
    BY <1>3, <2>1 DEF PutStr
  <2>3. a[1] % Word \in 0 .. Word - 1 /\ a[2] % Word \in 0 .. Word - 1
    <3>1. Word \in Nat /\ Word > 0
      BY SizeAssumption
    <3> QED BY <2>2, <3>1
  <2>4. framebuffer_ioctl(call[1], a) = Text(fb, a[1] % Word, a[2] % Word, a[3])
    BY <2>1 DEF framebuffer_ioctl
  <2> QED BY <2>2, <2>3, <2>4, TextIsPicture
<1> QED BY <1>1, <1>2, <1>3 DEF Call
-----------------------------------------------------------------------------
(* The screen                                                              *)

Cursor == [fb |-> fb, x |-> x, y |-> y]
OnTheScreen == TypeOK /\ Cursor \in State

LEMMA FormattedIsInk ==
  ASSUME NEW m \in Message, NEW k \in Nat
  PROVE  Formatted(m, k) \in Seq(Ink)
<1>1. Formatted(m, k) \in Seq(Character)
  BY FormattedIsText
<1>2. Character \subseteq Ink
  BY DEF Ink
<1> QED BY <1>1, <1>2, SeqMonotonic, Zenon

LEMMA ClearedIsState ==
  ASSUME NEW s \in State
  PROVE  /\ Cleared(s) \in State
         /\ Cleared(s).fb = [i \in Places |-> Blank] /\ Cleared(s).x = 0 /\ Cleared(s).y = 0
<1>1. framebuffer_clear(s.fb, Blank) = [i \in Places |-> Blank] /\ [i \in Places |-> Blank] \in Picture
  BY ClearPicture, BlankPicture DEF State
<1>2. 0 \in 0 .. Word - 1
  BY SizeAssumption
<1> HIDE DEF Picture
<1> QED BY <1>1, <1>2 DEF Cleared, reset_pos, State

\* A message leaves the picture and the cursor where they belong.
LEMMA ShownIsState ==
  ASSUME Cursor \in State, NEW m \in Message, Shown(m)
  PROVE  Cursor' \in State /\ Cursor' = console_write(m)
<1> DEFINE s == IF m.prefix = 3 \/ (m.prefix = 1 /\ ~ panic) THEN Cleared(Cursor) ELSE Cursor
<1>1. s \in State
  BY ClearedIsState
<1>2. console_write(m) = Written(s, Formatted(m, 1))
  BY Zenon DEF console_write, Cursor
<1> HIDE DEF s
<1>3. console_write(m) \in State
  BY <1>1, <1>2, FormattedIsInk, WrittenIsState
<1>4. fb' = console_write(m).fb /\ x' = console_write(m).x /\ y' = console_write(m).y
  BY DEF Shown
<1>5. Cursor' = console_write(m)
  BY <1>3, <1>4 DEF Cursor, State
<1> QED BY <1>3, <1>5

LEMMA ScreenAtFirst == Init => OnTheScreen
<1> SUFFICES ASSUME Init PROVE OnTheScreen
  OBVIOUS
<1>1. fb \in Picture
  <2>1. fb = [i \in Places |-> Blank]
    BY DEF Init, Places, Pixel
  <2> QED BY <2>1, BlankPicture
<1>2. 0 \in 0 .. Word - 1 /\ x = 0 /\ y = 0
  BY SizeAssumption DEF Init
<1>3. Cursor \in State
  BY <1>1, <1>2 DEF Cursor, State
<1>4. Len(kesswm) \in Nat
  BY KesswmIsCalls
<1>5. TypeOK
  <2>1. Len(uart) <= 1
    BY DEF Init
  <2>2. todo \in 1 .. Len(kesswm) + 1 /\ prints \in 0 .. MaxPrints
    BY <1>4, SizeAssumption DEF Init
  <2>3. {x, y} \subseteq 0 .. Word - 1
    BY <1>2
  <2> QED BY <2>1, <2>2, <2>3 DEF Init, TypeOK
<1> QED BY <1>3, <1>5 DEF OnTheScreen

LEMMA ScreenGoesOn == OnTheScreen /\ OnTheLine /\ [Next]_vars => OnTheScreen'
<1> SUFFICES ASSUME OnTheScreen, OnTheLine, [Next]_vars PROVE OnTheScreen'
  OBVIOUS
<1>1. Cursor \in State /\ TypeOK
  BY DEF OnTheScreen
<1>2. Len(kesswm) \in Nat
  BY KesswmIsCalls
<1>3. ASSUME Cursor' \in State PROVE {x, y}' \subseteq 0 .. Word - 1
  BY <1>3 DEF Cursor, State
<1>4. ASSUME UNCHANGED <<fb, x, y>> PROVE Cursor' \in State
  BY <1>1, <1>4 DEF Cursor
<1>5. ASSUME NEW m \in Message, Shown(m) PROVE Cursor' \in State /\ panic' \in BOOLEAN
  <2>1. Cursor' \in State
    BY <1>1, <1>5, ShownIsState
  <2>2. panic' \in BOOLEAN
    BY <1>5 DEF Shown
  <2> QED BY <2>1, <2>2
<1>6. ASSUME NEW m \in Messages, printk(m) PROVE OnTheScreen'
  <2>1. m \in Message /\ Shown(m)
    BY <1>6, MessageAssumption DEF printk
  <2>2. Cursor' \in State /\ panic' \in BOOLEAN
    BY <1>5, <2>1
  <2>3. prints' \in 0 .. MaxPrints /\ status' \in {"up", "panicking", "halted"}
    BY <1>1, <1>6, SizeAssumption DEF printk, TypeOK
  <2>4. UNCHANGED <<uart, faulty, todo>>
    BY <1>6 DEF printk
  <2> QED BY <1>1, <1>3, <2>2, <2>3, <2>4 DEF TypeOK, OnTheScreen
<1>7. CASE put_char
  <2>1. UNCHANGED <<fb, x, y, panic, faulty, todo, prints, status>> /\ uart' = <<Head(out)>>
    BY <1>7 DEF put_char, console
  <2>2. Len(uart') <= 1
    BY <2>1
  <2> QED BY <1>1, <1>4, <2>1, <2>2 DEF TypeOK, OnTheScreen
<1>8. CASE transmit
  <2>1. UNCHANGED <<fb, x, y, panic, faulty, todo, prints, status>> /\ uart' = <<>>
    BY <1>8 DEF transmit, console
  <2>2. Len(uart') <= 1
    BY <2>1
  <2> QED BY <1>1, <1>4, <2>1, <2>2 DEF TypeOK, OnTheScreen
<1>9. CASE kpanic
  <2>1. UNCHANGED <<fb, x, y, panic, faulty, todo, prints, uart>> /\ status' = "halted"
    BY <1>9 DEF kpanic, console, serial
  <2> QED BY <1>1, <1>4, <2>1 DEF TypeOK, OnTheScreen
<1>10. ASSUME NEW m \in Puts, sys_conout(m) PROVE OnTheScreen'
  <2>1. m \in Message /\ Shown(m)
    BY <1>10, MessageAssumption DEF sys_conout
  <2>2. Cursor' \in State /\ panic' \in BOOLEAN
    BY <1>5, <2>1
  <2>3. prints' \in 0 .. MaxPrints
    BY <1>1, <1>10, SizeAssumption DEF sys_conout, TypeOK
  <2>4. UNCHANGED <<uart, faulty, todo, status>>
    BY <1>10 DEF sys_conout, serial
  <2> QED BY <1>1, <1>3, <2>2, <2>3, <2>4 DEF TypeOK, OnTheScreen
<1>11. CASE sys_ioctl
  <2> DEFINE call == kesswm[todo]
             tf == syscall(<<1, 1, call[1]>> \o Tail(call))
             a == ioctl_args(tf)
  <2>1. /\ fb' = framebuffer_ioctl(tf["rcx"], a) /\ todo' = todo + 1 /\ todo <= Len(kesswm)
        /\ UNCHANGED <<x, y, panic, uart, faulty, prints, status>>
    BY <1>11 DEF sys_ioctl, console, serial
  <2>2. todo \in 1 .. Len(kesswm) /\ todo' \in 1 .. Len(kesswm) + 1
    BY <1>1, <1>2, <2>1 DEF TypeOK
  <2>3. call \in Call
    BY <2>2, KesswmIsCalls, ElementOfSeq
  <2>4. /\ tf["rcx"] = call[1] /\ a[1] = call[2]
        /\ call \notin Clear => a[2] = call[3] /\ a[3] = call[4]
    BY <2>3, ArgumentsArrive
  <2>5. fb \in Picture
    BY <1>1 DEF Cursor, State
  <2> HIDE DEF a, tf, call
  <2>6. fb' \in Picture
    BY <2>1, <2>3, <2>4, <2>5, IoctlPicture
  <2>7. Cursor' \in State
    BY <1>1, <2>1, <2>6 DEF Cursor, State
  <2> QED BY <1>1, <2>1, <2>2, <2>7 DEF TypeOK, OnTheScreen
<1>12. CASE UNCHANGED vars
  BY <1>1, <1>4, <1>12 DEF vars, console, serial, TypeOK, OnTheScreen
<1> QED BY <1>6, <1>7, <1>8, <1>9, <1>10, <1>11, <1>12 DEF Next
-----------------------------------------------------------------------------
(* A panic's first line                                                    *)

Cell(i) == ((i - 1) * FontW .. (i * FontW) - 1) \X (0 .. FontH - 1)
Breaks(t, k) == {i \in 1 .. k : t[i] = NL}
Line == FontH + Gap

\* What PanicAssumption says of a panic's text.
Fits(t) == /\ Cardinality(Breaks(t, Len(t))) * Line < H - Margin
           /\ Len(t) * FontW <= Word
           /\ \A i \in 1 .. Len(t) : t[i] \notin Colours

\* After k characters of t: the cursor is where these characters take it from the
\* corner, the first line shows them, and nothing of a program is left.
FirstLine(t, k, s) ==
    /\ s.y = Cardinality(Breaks(t, k)) * Line
    /\ Breaks(t, k) = {} /\ k < Len(t) => s.x = k * FontW
    /\ \A i \in 1 .. k : Breaks(t, i) = {} =>
           \A q \in Cell(i) \cap Pixel : s.fb[_framebuffer_get_index(q)] = t[i]
    /\ \A q \in Pixel : s.fb[_framebuffer_get_index(q)] \notin Colours

LEMMA TimesIsMonotone ==
  ASSUME NEW a \in Int, NEW b \in Int, NEW c \in Nat, a <= b
  PROVE  a * c <= b * c
<1>1. (b - a) * c >= 0
  OBVIOUS
<1>2. (b - a) * c = (b * c) - (a * c)
  OBVIOUS
<1>3. a * c \in Int /\ b * c \in Int
  OBVIOUS
<1> QED BY <1>1, <1>2, <1>3

\* Rows do not overlap in memory: the pitch is at least the width.
LEMMA IndexIsUnique ==
  ASSUME NEW p \in Pixel, NEW q \in Pixel, _framebuffer_get_index(p) = _framebuffer_get_index(q)
  PROVE  p = q
<1>1. /\ p[1] \in Int /\ p[2] \in Int /\ q[1] \in Int /\ q[2] \in Int
      /\ p[1] >= 0 /\ q[1] >= 0 /\ p[1] < Stride /\ q[1] < Stride
      /\ p = <<p[1], p[2]>> /\ q = <<q[1], q[2]>> /\ Stride \in Nat
  BY SizeAssumption DEF Pixel
<1>2. p[1] + (p[2] * Stride) = q[1] + (q[2] * Stride)
  BY DEF _framebuffer_get_index
<1>3. ASSUME p[2] < q[2] PROVE FALSE
  <2>1. (p[2] + 1) * Stride <= q[2] * Stride
    <3>1. p[2] + 1 \in Int /\ q[2] \in Int /\ p[2] + 1 <= q[2] /\ Stride \in Nat
      BY <1>1, <1>3
    <3> QED BY <3>1, TimesIsMonotone
  <2>2. (p[2] + 1) * Stride = (p[2] * Stride) + Stride
    BY <1>1
  <2>3. p[2] * Stride \in Int /\ q[2] * Stride \in Int
    BY <1>1
  <2> QED BY <1>1, <1>2, <2>1, <2>2, <2>3
<1>4. ASSUME q[2] < p[2] PROVE FALSE
  <2>1. (q[2] + 1) * Stride <= p[2] * Stride
    <3>1. q[2] + 1 \in Int /\ p[2] \in Int /\ q[2] + 1 <= p[2] /\ Stride \in Nat
      BY <1>1, <1>4
    <3> QED BY <3>1, TimesIsMonotone
  <2>2. (q[2] + 1) * Stride = (q[2] * Stride) + Stride
    BY <1>1
  <2>3. p[2] * Stride \in Int /\ q[2] * Stride \in Int
    BY <1>1
  <2> QED BY <1>1, <1>2, <2>1, <2>2, <2>3
<1>5. p[2] = q[2]
  BY <1>1, <1>3, <1>4
<1>6. p[2] * Stride \in Int
  BY <1>1
<1>7. p[1] = q[1]
  BY <1>1, <1>2, <1>5, <1>6
<1> QED BY <1>1, <1>5, <1>7, Zenon

\* A glyph shows where its pixels are, and nowhere else.
LEMMA GlyphShows ==
  ASSUME NEW f \in Picture, NEW px \in Nat, NEW py \in Nat, NEW c \in Ink, NEW q \in Pixel
  PROVE  framebuffer_putch(f, px, py, c)[_framebuffer_get_index(q)] =
             IF q \in Glyph(px, py) THEN c ELSE f[_framebuffer_get_index(q)]
<1> DEFINE P == Glyph(px, py)
           at == {_framebuffer_get_index(p) : p \in {r \in P : Visible(r)}}
           i == _framebuffer_get_index(q)
<1>1. framebuffer_putch(f, px, py, c) = Painted(f, P, c)
  BY DEF framebuffer_putch, Glyph
<1>2. P \in SUBSET (Nat \X Nat)
  BY GlyphIsNatural
<1>3. i \in Places
  BY DEF Places
<1> HIDE DEF P
<1>4. Painted(f, P, c)[i] = IF i \in at THEN c ELSE f[i]
  <2>1. \A j \in Places : Painted(f, P, c)[j] =
            IF j \in {_framebuffer_get_index(p) : p \in {r \in P : Visible(r)}} THEN c ELSE f[j]
    BY <1>2, PaintedPicture, Zenon
  <2> QED BY <1>3, <2>1, Zenon
<1>5. i \in at <=> q \in P
  <2>1. ASSUME q \in P PROVE i \in at
    <3>1. Visible(q)
      BY SizeAssumption DEF Pixel, Visible
    <3> QED BY <2>1, <3>1
  <2>2. ASSUME i \in at PROVE q \in P
    <3>1. PICK p \in P : Visible(p) /\ _framebuffer_get_index(p) = i
      BY <2>2
    <3>2. p \in Pixel
      BY <1>2, <3>1, VisibleIsPixel
    <3>3. p = q
      BY <3>1, <3>2, IndexIsUnique
    <3> QED BY <3>3
  <2> QED BY <2>1, <2>2
<1> HIDE DEF at
<1> QED BY <1>1, <1>4, <1>5 DEF P

\* The glyph of the i-th character from the corner fills the i-th cell ...
LEMMA GlyphIsCell ==
  ASSUME NEW i \in Nat \ {0}, i * FontW <= Word
  PROVE  Glyph((i - 1) * FontW, 0) = Cell(i)
<1> DEFINE px == (i - 1) * FontW
<1>1. FontW \in Nat /\ FontH \in Nat /\ Word \in Nat /\ FontH <= Word
  BY SizeAssumption
<1>2. px \in Nat /\ i * FontW = px + FontW
  BY <1>1
<1> HIDE DEF px
<1>3. \A cx \in 0 .. FontW - 1 : (px + cx) % Word = px + cx
  BY <1>1, <1>2
<1>4. \A cy \in 0 .. FontH - 1 : (0 + cy) % Word = cy
  BY <1>1
<1>5. ASSUME NEW q \in Glyph(px, 0) PROVE q \in Cell(i)
  <2>1. PICK cx \in 0 .. FontW - 1, cy \in 0 .. FontH - 1 : q = <<(px + cx) % Word, (0 + cy) % Word>>
    BY DEF Glyph
  <2>2. q = <<px + cx, cy>>
    BY <1>3, <1>4, <2>1
  <2>3. px + cx \in px .. (i * FontW) - 1
    BY <1>1, <1>2
  <2> QED BY <2>2, <2>3 DEF Cell, px
<1>6. ASSUME NEW q \in Cell(i) PROVE q \in Glyph(px, 0)
  <2>1. q = <<q[1], q[2]>> /\ q[1] \in px .. (i * FontW) - 1 /\ q[2] \in 0 .. FontH - 1
    BY DEF Cell, px
  <2> DEFINE cx == q[1] - px
  <2>2. cx \in 0 .. FontW - 1 /\ q[1] = px + cx
    BY <1>1, <1>2, <2>1
  <2> HIDE DEF cx
  <2>3. q = <<(px + cx) % Word, (0 + q[2]) % Word>>
    BY <1>3, <1>4, <2>1, <2>2
  <2> QED BY <2>1, <2>2, <2>3 DEF Glyph
<1> QED BY <1>5, <1>6 DEF px

\* ... which is no other cell.
LEMMA CellsAreApart ==
  ASSUME NEW i \in Nat, NEW j \in Nat, i < j, NEW q \in Cell(i)
  PROVE  q \notin Cell(j)
<1>1. FontW \in Nat
  BY SizeAssumption
<1>2. i * FontW <= (j - 1) * FontW
  BY <1>1, TimesIsMonotone
<1>3. i * FontW \in Int /\ (j - 1) * FontW \in Int
  BY <1>1
<1>4. q[1] \in Int /\ q[1] <= (i * FontW) - 1
  BY <1>1, <1>3 DEF Cell
<1>5. ASSUME q \in Cell(j) PROVE q[1] >= (j - 1) * FontW
  BY <1>1, <1>3, <1>5 DEF Cell
<1> QED BY <1>2, <1>3, <1>4, <1>5

\* A glyph below the first line leaves it alone.
LEMMA LowGlyph ==
  ASSUME NEW px \in Nat, NEW py \in Nat, py >= FontH, py + FontH <= Word, NEW q \in Glyph(px, py)
  PROVE  \A i \in Nat : q \notin Cell(i)
<1>1. PICK cx \in 0 .. FontW - 1, cy \in 0 .. FontH - 1 : q = <<(px + cx) % Word, (py + cy) % Word>>
  BY DEF Glyph
<1>2. (py + cy) % Word = py + cy
  <2>1. Word \in Nat /\ Word > 0 /\ py + cy \in 0 .. Word - 1
    BY SizeAssumption
  <2> QED BY <2>1
<1>3. q[2] >= FontH
  BY <1>1, <1>2, SizeAssumption
<1> QED BY <1>3, SizeAssumption DEF Cell

LEMMA BreaksGrow ==
  ASSUME NEW t \in Seq(Ink), NEW k \in 1 .. Len(t)
  PROVE  /\ Cardinality(Breaks(t, k)) \in Nat /\ Cardinality(Breaks(t, k - 1)) \in Nat
         /\ Cardinality(Breaks(t, k)) <= Cardinality(Breaks(t, Len(t))) /\ Cardinality(Breaks(t, Len(t))) \in Nat
         /\ Cardinality(Breaks(t, k - 1)) = 0 <=> Breaks(t, k - 1) = {}
         /\ t[k] = NL => /\ Cardinality(Breaks(t, k)) = Cardinality(Breaks(t, k - 1)) + 1
                         /\ Breaks(t, k) # {}
         /\ t[k] # NL => Breaks(t, k) = Breaks(t, k - 1)
<1>1. Len(t) \in Nat
  OBVIOUS
<1>2. \A n \in Nat : IsFiniteSet(Breaks(t, n))
  <2>1. \A n \in Nat : IsFiniteSet(1 .. n)
    BY FS_Interval
  <2>2. \A n \in Nat : Breaks(t, n) \subseteq 1 .. n
    BY DEF Breaks
  <2> QED BY <2>1, <2>2, FS_Subset
<1>3. IsFiniteSet(Breaks(t, k)) /\ IsFiniteSet(Breaks(t, k - 1)) /\ IsFiniteSet(Breaks(t, Len(t)))
  BY <1>1, <1>2
<1>4. /\ Cardinality(Breaks(t, k)) \in Nat /\ Cardinality(Breaks(t, k - 1)) \in Nat
      /\ Cardinality(Breaks(t, Len(t))) \in Nat
  BY <1>3, FS_CardinalityType
<1>5. Cardinality(Breaks(t, k)) <= Cardinality(Breaks(t, Len(t)))
  <2>1. Breaks(t, k) \subseteq Breaks(t, Len(t))
    BY <1>1 DEF Breaks
  <2> QED BY <1>3, <2>1, FS_Subset
<1>6. Cardinality(Breaks(t, k - 1)) = 0 <=> Breaks(t, k - 1) = {}
  BY <1>3, FS_EmptySet
<1>7. ASSUME t[k] = NL
      PROVE  Cardinality(Breaks(t, k)) = Cardinality(Breaks(t, k - 1)) + 1 /\ Breaks(t, k) # {}
  <2>1. Breaks(t, k) = Breaks(t, k - 1) \cup {k} /\ k \notin Breaks(t, k - 1)
    BY <1>1, <1>7 DEF Breaks
  <2> QED BY <1>3, <2>1, FS_AddElement
<1>8. ASSUME t[k] # NL PROVE Breaks(t, k) = Breaks(t, k - 1)
  BY <1>1, <1>8 DEF Breaks
<1> QED BY <1>4, <1>5, <1>6, <1>7, <1>8

\* One more character of a panic keeps the first line.
LEMMA FirstLineStays ==
  ASSUME NEW t \in Seq(Ink), Fits(t), NEW k \in 1 .. Len(t), NEW s \in State, FirstLine(t, k - 1, s)
  PROVE  FirstLine(t, k, putstr(s, t[k]))
<1> DEFINE z == putstr(s, t[k])
           C(n) == Cardinality(Breaks(t, n))
           idx(q) == _framebuffer_get_index(q)
<1>1. /\ FontW \in Nat /\ FontH \in Nat /\ Word \in Nat /\ H \in Nat /\ Line \in Nat /\ Margin \in Nat
      /\ FontW > 0 /\ FontH > 0 /\ Line >= FontH /\ H + FontH <= Word /\ H < Word /\ Line = FontH + Gap
      /\ Gap \in Nat
  <2>1. /\ FontW \in Nat \ {0} /\ FontH \in Nat \ {0} /\ Word \in Nat /\ H \in Nat /\ Margin \in Nat
        /\ Gap \in Nat /\ H + FontH <= Word
    BY SizeAssumption
  <2>2. Line = FontH + Gap
    BY DEF Line
  <2> QED BY <2>1, <2>2
<1>2. k \in Nat \ {0} /\ k - 1 \in Nat /\ t[k] \in Ink /\ Len(t) \in Nat
  OBVIOUS
<1>3. /\ C(k) \in Nat /\ C(k - 1) \in Nat /\ C(Len(t)) \in Nat /\ C(k) <= C(Len(t))
      /\ C(k - 1) = 0 <=> Breaks(t, k - 1) = {}
      /\ t[k] = NL => C(k) = C(k - 1) + 1 /\ Breaks(t, k) # {}
      /\ t[k] # NL => Breaks(t, k) = Breaks(t, k - 1)
  BY BreaksGrow
<1>4. s.fb \in Picture /\ s.x \in Nat /\ s.y \in Nat
  BY <1>1 DEF State
<1>5. C(k) * Line < H - Margin
  <2>1. C(k) * Line <= C(Len(t)) * Line
    BY <1>1, <1>3, TimesIsMonotone
  <2>2. C(k) * Line \in Int /\ C(Len(t)) * Line \in Int
    BY <1>1, <1>3
  <2> QED BY <1>1, <2>1, <2>2 DEF Fits
<1>6. C(k) * Line \in Nat /\ C(k - 1) * Line \in Nat
  BY <1>1, <1>3
<1>7. /\ s.y = C(k - 1) * Line
      /\ Breaks(t, k - 1) = {} /\ k - 1 < Len(t) => s.x = (k - 1) * FontW
      /\ \A i \in 1 .. k - 1 : Breaks(t, i) = {} => \A q \in Cell(i) \cap Pixel : s.fb[idx(q)] = t[i]
      /\ \A q \in Pixel : s.fb[idx(q)] \notin Colours
  BY DEF FirstLine
<1> SUFFICES FirstLine(t, k, z)
  OBVIOUS
<1>8. CASE t[k] = NL
  <2>1. C(k) = C(k - 1) + 1 /\ Breaks(t, k) # {}
    BY <1>3, <1>8
  <2>2. C(k) * Line = (C(k - 1) * Line) + Line
    BY <1>1, <1>3, <2>1
  <2>3. ~ (s.y >= H - Margin)
    BY <1>1, <1>5, <1>6, <1>7, <2>2
  <2>4. z = newline(s)
    BY <1>8 DEF putstr
  <2>5. z.fb = s.fb /\ z.y = (s.y + FontH + Gap) % Word
    BY <2>3, <2>4 DEF newline, State
  <2> HIDE DEF z, C
  <2>6. s.y + FontH + Gap = C(k) * Line
    BY <1>1, <1>4, <1>6, <1>7, <2>2
  <2>7. (C(k) * Line) % Word = C(k) * Line
    BY <1>1, <1>5, <1>6
  <2>8. z.y = C(k) * Line
    BY <2>5, <2>6, <2>7
  <2>9. \A i \in 1 .. k : Breaks(t, i) = {} => i \in 1 .. k - 1
    BY <1>2, <2>1
  <2> QED BY <1>7, <2>1, <2>5, <2>8, <2>9 DEF FirstLine, C
<1>9. CASE t[k] # NL
  <2>1. C(k) = C(k - 1) /\ Breaks(t, k) = Breaks(t, k - 1)
    BY <1>3, <1>9
  <2>2. /\ z.fb = framebuffer_putch(s.fb, s.x, s.y, t[k])
        /\ z.x = (s.x + FontW) % Word /\ z.y = s.y
    BY <1>9 DEF putstr, State
  <2> HIDE DEF z, C
  <2>3. \A q \in Pixel : z.fb[idx(q)] = IF q \in Glyph(s.x, s.y) THEN t[k] ELSE s.fb[idx(q)]
    BY <1>2, <1>4, <2>2, GlyphShows
  <2>4. z.y = C(k) * Line
    BY <1>7, <2>1, <2>2
  <2>5. \A q \in Pixel : z.fb[idx(q)] \notin Colours
    <3>1. t[k] \notin Colours
      BY DEF Fits
    <3> QED BY <1>7, <2>3, <3>1
  <2>6. CASE Breaks(t, k - 1) = {}
    <3>1. s.y = 0 /\ s.x = (k - 1) * FontW
      <4>1. C(k - 1) = 0
        BY <1>3, <2>6
      <4>2. 0 * Line = 0 /\ k - 1 < Len(t)
        BY <1>1, <1>2
      <4> QED BY <1>7, <2>6, <4>1, <4>2
    <3>2. k * FontW <= Len(t) * FontW /\ Len(t) * FontW <= Word /\ k * FontW \in Nat /\ Len(t) * FontW \in Nat
      BY <1>1, <1>2, TimesIsMonotone DEF Fits
    <3>3. k * FontW <= Word
      BY <1>1, <3>2
    <3>4. Glyph(s.x, s.y) = Cell(k)
      BY <1>2, <3>1, <3>3, GlyphIsCell
    <3>5. ASSUME k < Len(t) PROVE z.x = k * FontW
      <4>1. (k + 1) * FontW <= Len(t) * FontW
        BY <1>1, <1>2, <3>5, TimesIsMonotone
      <4>2. (k + 1) * FontW = (k * FontW) + FontW
        BY <1>1, <1>2
      <4>3. k * FontW < Word
        BY <1>1, <3>2, <4>1, <4>2
      <4>4. s.x + FontW = k * FontW
        BY <1>1, <1>2, <3>1
      <4>5. (k * FontW) % Word = k * FontW
        BY <1>1, <3>2, <4>3
      <4> QED BY <2>2, <4>4, <4>5
    <3>6. \A i \in 1 .. k : Breaks(t, i) = {} => \A q \in Cell(i) \cap Pixel : z.fb[idx(q)] = t[i]
      <4> SUFFICES ASSUME NEW i \in 1 .. k, Breaks(t, i) = {}, NEW q \in Cell(i) \cap Pixel
                   PROVE  z.fb[idx(q)] = t[i]
        OBVIOUS
      <4>1. CASE i = k
        BY <2>3, <3>4, <4>1
      <4>2. CASE i # k
        <5>1. i \in Nat /\ i < k /\ i \in 1 .. k - 1
          BY <1>2, <4>2
        <5>2. q \notin Cell(k)
          BY <1>2, <5>1, CellsAreApart
        <5>3. z.fb[idx(q)] = s.fb[idx(q)]
          BY <2>3, <3>4, <5>2
        <5> QED BY <1>7, <5>1, <5>3
      <4> QED BY <4>1, <4>2
    <3> QED BY <2>4, <2>5, <3>5, <3>6 DEF FirstLine, C
  <2>7. CASE Breaks(t, k - 1) # {}
    <3>1. C(k - 1) >= 1
      BY <1>3, <2>7
    <3>2. 1 * Line <= C(k - 1) * Line
      BY <1>1, <1>3, <3>1, TimesIsMonotone
    <3>3. s.y >= FontH
      BY <1>1, <1>6, <1>7, <3>2
    <3>4. s.y + FontH <= Word
      BY <1>1, <1>5, <1>6, <1>7, <2>1
    <3>5. \A q \in Glyph(s.x, s.y) : \A i \in Nat : q \notin Cell(i)
      BY <1>4, <3>3, <3>4, LowGlyph
    <3>6. \A i \in 1 .. k : Breaks(t, i) = {} => \A q \in Cell(i) \cap Pixel : z.fb[idx(q)] = t[i]
      <4> SUFFICES ASSUME NEW i \in 1 .. k, Breaks(t, i) = {}, NEW q \in Cell(i) \cap Pixel
                   PROVE  z.fb[idx(q)] = t[i]
        OBVIOUS
      <4>1. i \in 1 .. k - 1 /\ i \in Nat
        BY <1>2, <2>1, <2>7
      <4>2. q \notin Glyph(s.x, s.y)
        BY <3>5, <4>1
      <4>3. z.fb[idx(q)] = s.fb[idx(q)]
        BY <2>3, <4>2
      <4> QED BY <1>7, <4>1, <4>3
    <3> QED BY <2>1, <2>4, <2>5, <2>7, <3>6 DEF FirstLine, C
  <2> QED BY <2>6, <2>7
<1> QED BY <1>8, <1>9

\* A panic whose text fits leaves its first line on an otherwise empty screen.
LEMMA FirstLineShows ==
  ASSUME NEW t \in Seq(Ink), Fits(t), NEW s \in State
  PROVE  FirstLine(t, Len(t), Written(Cleared(s), t))
<1> DEFINE c == Cleared(s)
           after == States(c, t)
           n == Len(t)
           T == {i \in 0 .. n : FirstLine(t, i, after[i])}
<1>1. n \in Nat
  OBVIOUS
<1>2. c \in State /\ c.fb = [i \in Places |-> Blank] /\ c.x = 0 /\ c.y = 0
  BY ClearedIsState
<1> HIDE DEF c
<1>3. /\ after[0] = c
      /\ \A i \in 1 .. n : after[i] = putstr(after[i - 1], t[i])
      /\ \A i \in 0 .. n : after[i] \in State
  BY <1>2, StatesFollow
<1>4. 0 \in T
  <2>1. Breaks(t, 0) = {}
    BY DEF Breaks
  <2>2. Cardinality(Breaks(t, 0)) * Line = 0 /\ 0 * FontW = 0
    <3>1. Cardinality(Breaks(t, 0)) = 0
      BY <2>1, FS_EmptySet
    <3>2. Line \in Nat /\ FontW \in Nat
      BY SizeAssumption DEF Line
    <3> QED BY <3>1, <3>2
  <2>3. \A q \in Pixel : c.fb[_framebuffer_get_index(q)] \notin Colours
    <3>1. Blank \notin Colours
      BY DEF Blank, Colours
    <3>2. \A q \in Pixel : _framebuffer_get_index(q) \in Places
      BY DEF Places
    <3> QED BY <1>2, <3>1, <3>2
  <2>4. FirstLine(t, 0, c)
    BY <1>2, <2>2, <2>3 DEF FirstLine
  <2>5. 0 \in 0 .. n
    BY <1>1
  <2> QED BY <1>3, <2>4, <2>5, Zenon
<1>5. \A i \in 1 .. n : i - 1 \in T => i \in T
  <2> SUFFICES ASSUME NEW i \in 1 .. n, i - 1 \in T PROVE i \in T
    OBVIOUS
  <2>1. FirstLine(t, i - 1, after[i - 1]) /\ after[i - 1] \in State
    BY <1>1, <1>3
  <2>2. FirstLine(t, i, putstr(after[i - 1], t[i]))
    BY <2>1, FirstLineStays
  <2>3. i \in 0 .. n
    BY <1>1
  <2> QED BY <1>3, <2>2, <2>3, Zenon
<1> HIDE DEF T
<1>6. \A i \in 0 .. n : i \in T
  BY <1>1, <1>4, <1>5, CountingUp
<1>7. FirstLine(t, n, after[n])
  BY <1>1, <1>6 DEF T
<1>8. Written(c, t) = after[n]
  BY WrittenIsLast
<1> QED BY <1>7, <1>8 DEF c

\* Once a panic has begun nobody writes any more.
OfAPanic == (panic => status # "up") /\ PanicIsReadable

LEMMA PanicShows ==
  ASSUME Cursor \in State, NEW m \in Messages, m.prefix = 1, ~ panic, Shown(m)
  PROVE  /\ Reads(Formatted(m, 1))'
         /\ \A p \in (0 .. W - 1) \X (0 .. H - 1) : getpix(fb', p) \notin Colours
<1> DEFINE t == Formatted(m, 1)
           s == console_write(m)
<1>1. m \in Message
  BY MessageAssumption
<1>2. t \in Seq(Ink)
  BY <1>1, FormattedIsInk
<1>3. DOMAIN t = 1 .. Len(t)
  BY <1>2
<1>4. Fits(t)
  <2>1. /\ Cardinality({i \in DOMAIN t : t[i] = NL}) * (FontH + Gap) < H - Margin
        /\ Len(t) * FontW <= Word /\ Range(t) \cap Colours = {}
    BY PanicAssumption, Zenon
  <2> HIDE DEF t
  <2>2. Breaks(t, Len(t)) = {i \in DOMAIN t : t[i] = NL}
    BY <1>3 DEF Breaks
  <2>3. \A i \in 1 .. Len(t) : t[i] \notin Colours
    BY <1>3, <2>1 DEF Range
  <2> QED BY <2>1, <2>2, <2>3 DEF Fits, Line
<1>5. s = Written(Cleared(Cursor), t)
  BY Zenon DEF console_write, Cursor
<1>6. fb' = s.fb
  BY DEF Shown
<1>7. FirstLine(t, Len(t), s)
  BY <1>2, <1>4, <1>5, FirstLineShows
<1> HIDE DEF s
<1>8. Reads(t)'
  <2> SUFFICES ASSUME NEW i \in 1 .. Len(t),
                      NEW p \in ((i - 1) * FontW .. (i * FontW) - 1) \X (0 .. FontH - 1),
                      Visible(p), NL \notin {t[j] : j \in 1 .. i}
               PROVE  getpix(fb', p) = t[i]
    BY Zenon DEF Reads
  <2>1. p \in Cell(i) /\ Breaks(t, i) = {}
    BY DEF Cell, Breaks
  <2>2. p \in Nat \X Nat
    <3> DEFINE n == Len(t)
    <3>1. n \in Nat
      BY <1>2
    <3> HIDE DEF n
    <3>2. i \in 1 .. n
      BY DEF n
    <3>3. FontW \in Nat /\ FontH \in Nat
      BY SizeAssumption
    <3>4. i \in Nat /\ i - 1 \in Nat
      BY <3>1, <3>2
    <3>5. (i - 1) * FontW \in Nat /\ (i * FontW) - 1 \in Int /\ FontH \in Nat
      BY <3>3, <3>4
    <3> QED BY <3>5
  <2>3. p \in Pixel
    BY <2>2, VisibleIsPixel
  <2>4. s.fb[_framebuffer_get_index(p)] = t[i]
    BY <1>7, <2>1, <2>3 DEF FirstLine
  <2> QED BY <1>6, <2>4 DEF getpix
<1>9. \A p \in Pixel : getpix(fb', p) \notin Colours
  <2> SUFFICES ASSUME NEW p \in Pixel PROVE getpix(fb', p) \notin Colours
    OBVIOUS
  <2>1. s.fb[_framebuffer_get_index(p)] \notin Colours
    BY <1>7 DEF FirstLine
  <2>2. Blank \notin Colours
    BY DEF Blank, Colours
  <2> QED BY <1>6, <2>1, <2>2 DEF getpix
<1> QED BY <1>8, <1>9 DEF Pixel

LEMMA PanicGoesOn == OnTheScreen /\ OfAPanic /\ [Next]_vars => OfAPanic'
<1> SUFFICES ASSUME OnTheScreen, OfAPanic, [Next]_vars PROVE OfAPanic'
  OBVIOUS
<1>1. Cursor \in State
  BY DEF OnTheScreen
<1>2. ASSUME status' = "up", ~ panic' PROVE OfAPanic'
  BY <1>2 DEF OfAPanic, PanicIsReadable
<1>3. ASSUME UNCHANGED <<fb, panic, status>> PROVE OfAPanic'
  BY <1>3 DEF OfAPanic, PanicIsReadable, Reads
<1>4. status = "up" => ~ panic
  BY DEF OfAPanic
<1>5. ASSUME NEW m \in Messages, printk(m) PROVE OfAPanic'
  <2>1. status = "up" /\ Shown(m) /\ panic' = (panic \/ m.prefix = 1)
    BY <1>5 DEF printk, Shown
  <2>2. CASE m.prefix = 1
    <3>1. /\ Reads(Formatted(m, 1))'
          /\ \A p \in (0 .. W - 1) \X (0 .. H - 1) : getpix(fb', p) \notin Colours
      BY <1>1, <1>4, <2>1, <2>2, PanicShows
    <3>2. PanicIsReadable'
      BY <2>2, <3>1, Zenon DEF PanicIsReadable
    <3>3. status' # "up"
      BY <1>5, <2>2 DEF printk
    <3> QED BY <3>2, <3>3 DEF OfAPanic
  <2>3. CASE m.prefix # 1
    <3>1. status' = "up"
      BY <1>5, <2>3 DEF printk
    <3> QED BY <1>2, <1>4, <2>1, <2>3, <3>1
  <2> QED BY <2>2, <2>3
<1>6. CASE put_char
  BY <1>3, <1>6 DEF put_char, console
<1>7. CASE transmit
  BY <1>3, <1>7 DEF transmit, console
<1>8. CASE kpanic
  <2>1. UNCHANGED <<fb, panic>> /\ status = "panicking" /\ status' = "halted"
    BY <1>8 DEF kpanic, console
  <2> QED BY <2>1 DEF OfAPanic, PanicIsReadable, Reads
<1>9. ASSUME NEW m \in Puts, sys_conout(m) PROVE OfAPanic'
  <2>1. status = "up" /\ status' = "up" /\ panic' = (panic \/ m.prefix = 1) /\ m.prefix # 1
    BY <1>9, PanicAssumption DEF sys_conout, User, Shown
  <2> QED BY <1>2, <1>4, <2>1
<1>10. CASE sys_ioctl
  <2>1. status = "up" /\ status' = "up" /\ panic' = panic
    BY <1>10 DEF sys_ioctl, User, console
  <2> QED BY <1>2, <1>4, <2>1
<1>11. CASE UNCHANGED vars
  BY <1>3, <1>11 DEF vars, console
<1> QED BY <1>5, <1>6, <1>7, <1>8, <1>9, <1>10, <1>11 DEF Next
-----------------------------------------------------------------------------
(* Theorems                                                                *)

IInv == OnTheLine /\ OnTheScreen /\ OfAPanic

\* The invariant holds throughout.
THEOREM InvariantHolds == Spec => []IInv
<1>1. Init => IInv
  BY LineAtFirst, ScreenAtFirst DEF IInv, OfAPanic, PanicIsReadable, Init
<1>2. IInv /\ [Next]_vars => IInv'
  BY LineGoesOn, ScreenGoesOn, PanicGoesOn DEF IInv
<1> QED BY <1>1, <1>2, PTL DEF Spec

\* Nothing the kernel logs is lost, repeated or overtaken on the serial line, and
\* a faulty chip is left alone.
THEOREM NothingIsLostOnTheLine == Spec => []LineIsComplete
<1>1. IInv => LineIsComplete
  BY DEF IInv, OnTheLine, LineIsComplete
<1> QED BY <1>1, InvariantHolds, PTL

\* Wherever the cursor is, whatever coordinates wrap and whoever draws, nothing but
\* pixels of the screen is written.
THEOREM NothingLeavesTheScreen == Spec => []ScreenSafe
<1>1. IInv => ScreenSafe
  <2> SUFFICES ASSUME IInv PROVE ScreenSafe
    OBVIOUS
  <2>1. TypeOK /\ fb \in Picture
    BY DEF IInv, OnTheScreen, Cursor, State
  <2>2. WritesStayInside
    BY <2>1 DEF WritesStayInside, Picture, Places, Pixel
  <2> QED BY <2>1, <2>2 DEF ScreenSafe
<1> QED BY <1>1, InvariantHolds, PTL

\* However far the cursor had gone and whatever programs drew: when the kernel has
\* panicked the first line of its message is on the screen and nothing of a program
\* is.
THEOREM PanicsStayReadable == Spec => []PanicIsReadable
<1>1. IInv => PanicIsReadable
  BY DEF IInv, OfAPanic
<1> QED BY <1>1, InvariantHolds, PTL
=============================================================================
