--------------------------------- MODULE Screen ---------------------------------
(***************************************************************************)
(* What the machine shows: the framebuffer and its driver, the console, the *)
(* kernel's log on console and serial line, and the programs that write    *)
(* (syscalls 0 and 1, libgfx, kesswm).                                     *)
(*                                                                         *)
(* One CPU; the kernel writes with interrupts off, so a console write or an *)
(* ioctl is one step.  The serial line is slower than the CPU: every       *)
(* character waits for the UART.                                           *)
(***************************************************************************)
EXTENDS Integers, Sequences, FiniteSets, SequencesExt

CONSTANTS W, H, Stride,   \* width, height, and pitch / 4, in pixels
          FontW, FontH,   \* 9 and 16
          Gap,            \* between lines: 4
          Margin,         \* the 5 of framebuffer.c and console.c
          Word,           \* 2^32: coordinates wrap
          Messages,       \* what the kernel logs, see MessageAssumption
          Puts,           \* what programs pass to syscall 0
          Win,            \* kesswm's window: x, y, width, height, bar, inset
          MaxPrints       \* bound: how many messages

NL == "nl"       \* a newline
ARG == "arg"     \* a conversion: %d, %x, %s or %c
Blank == "black"
Junk == "junk"   \* an argument nobody passed
Colours == {"desktop", "bg", "fg"}   \* what programs paint with

\* prefix 1 is PRINTK_PANIC, 2 PRINTK_NOTE, 3 _CLEARSCREEN; 0 is none.
Message == [prefix : 0 .. 3, text : Seq(STRING), args : Seq(STRING)]

ASSUME SizeAssumption == /\ {W, H, Stride, FontW, FontH, Word} \subseteq Nat \ {0}
                         /\ {Gap, Margin, MaxPrints} \subseteq Nat /\ W <= Stride
                         /\ H * Stride <= Word /\ H + FontH <= Word
ASSUME MessageAssumption == Messages \subseteq Message /\ Puts \subseteq Message
ASSUME WinAssumption == {Win.x, Win.y, Win.width, Win.height, Win.bar, Win.inset} \subseteq Nat

VARIABLES fb,       \* pixels of the framebuffer and whatever else was written
          x, y,     \* the console's cursor
          panic,    \* console_write's latch
          faulty,   \* the serial chip failed its test
          out,      \* what serial_log has still to send
          uart,     \* the transmitter's holding register: <<>> or one character
          line,     \* what went over the line
          todo,     \* which system call kesswm makes next
          prints,   \* how many messages there were
          status,   \* "up", "panicking" or "halted"
          logged    \* history: the characters of every logged message

console == <<x, y, panic>>
serial == <<out, uart, line, faulty>>
vars == <<fb, console, serial, todo, prints, status, logged>>
-----------------------------------------------------------------------------
(* framebuffer.c.  s carries the pixels and the cursor.                    *)

_framebuffer_get_index(p) == p[1] + (p[2] * Stride)

\* Slip: the last column is one further.
Visible_wide(p) == p[1] <= W /\ p[2] <= H - 1

\* putpix and getpix keep away from anything else.
Visible(p) == p[1] <= W - 1 /\ p[2] <= H - 1

\* framebuffer_putpix, for a set of pixels.
Painted(f, P, colour) ==
    LET at == {_framebuffer_get_index(p) : p \in {q \in P : Visible(q)}}
    IN  [i \in DOMAIN f \cup at |-> IF i \in at THEN colour ELSE f[i]]

getpix(f, p) == IF Visible(p) THEN f[_framebuffer_get_index(p)] ELSE Blank

\* A glyph: all its pixels bear the character.
framebuffer_putch(f, px, py, c) ==
    Painted(f, {<<(px + cx) % Word, (py + cy) % Word>> : cx \in 0 .. FontW - 1, cy \in 0 .. FontH - 1}, c)

\* The loop goes to the pitch, in bytes.
framebuffer_clear(f, colour) == Painted(f, (0 .. (4 * Stride) - 1) \X (0 .. H - 1), colour)
-----------------------------------------------------------------------------
(* console.c                                                               *)

\* Slip: the column stays.
reset_pos_row(s) == [s EXCEPT !.y = 0]

reset_pos(s) == [s EXCEPT !.x = 0, !.y = 0]

\* Past the bottom the screen is cleared; the row goes on growing all the same.
newline(s) == [s EXCEPT !.fb = IF s.y >= H - Margin THEN framebuffer_clear(s.fb, Blank) ELSE s.fb,
                        !.y = (s.y + FontH + Gap) % Word,
                        !.x = 0]

putstr(s, c) == IF c = NL THEN newline(s)
                ELSE [s EXCEPT !.fb = framebuffer_putch(s.fb, s.x, s.y, c),
                               !.x = (s.x + FontW) % Word]

\* The characters of a message: conversions take their arguments from the k-th on.
Formatted(m, k) ==
    LET argument(i) == k + Cardinality({j \in 1 .. i : m.text[j] = ARG}) - 1
    IN  [i \in DOMAIN m.text |-> IF m.text[i] # ARG THEN m.text[i]
                                 ELSE IF argument(i) \in DOMAIN m.args THEN m.args[argument(i)]
                                 ELSE Junk]

\* The kernel's panics are one line and a little: they end above the margin, no
\* line is so long that the column wraps, and characters are not programs'
\* colours.  Programs put no panics.
ASSUME PanicAssumption ==
    /\ \A m \in Puts : m.prefix # 1
    /\ \A m \in Messages : m.prefix = 1 =>
           LET text == Formatted(m, 1)
           IN  /\ Cardinality({i \in DOMAIN text : text[i] = NL}) * (FontH + Gap) < H - Margin
               /\ Len(text) * FontW <= Word
               /\ Range(text) \cap Colours = {}

Cleared(s) == reset_pos([s EXCEPT !.fb = framebuffer_clear(s.fb, Blank)])

\* One character after the other, from s on.
Written(s, text) ==
    LET after[i \in 0 .. Len(text)] == IF i = 0 THEN s ELSE putstr(after[i - 1], text[i])
    IN  after[Len(text)]

console_write(m) ==
    LET s == [fb |-> fb, x |-> x, y |-> y]
        clears == m.prefix = 3 \/ (m.prefix = 1 /\ ~ panic)
    IN  Written(IF clears THEN Cleared(s) ELSE s, Formatted(m, 1))

Shown(m) == LET s == console_write(m)
            IN  /\ fb' = s.fb /\ x' = s.x /\ y' = s.y
                /\ panic' = (panic \/ m.prefix = 1)
-----------------------------------------------------------------------------
(* log.c and serial.c                                                      *)

\* console_write has used the arguments up: va_list is passed by reference.
Taken(m) == Cardinality({i \in DOMAIN m.text : m.text[i] = ARG})
serial_log(m) == Formatted(m, 1 + Taken(m))

Sent(m) == IF faulty THEN <<>> ELSE serial_log(m)

\* The kernel logs; a panic is the last thing it does.
printk(m) ==
    /\ status = "up" /\ out = <<>> /\ prints < MaxPrints
    /\ Shown(m)
    /\ out' = Sent(m)
    /\ logged' = IF faulty THEN logged ELSE logged \o serial_log(m)
    /\ status' = IF m.prefix = 1 THEN "panicking" ELSE "up"
    /\ prints' = prints + 1
    /\ UNCHANGED <<uart, line, faulty, todo>>

\* Slips: the character is written without waiting; the bit is taken the wrong way.
put_char_now ==
    /\ out # <<>>
    /\ uart' = <<Head(out)>> /\ out' = Tail(out)
    /\ UNCHANGED <<fb, console, line, faulty, todo, prints, status, logged>>

put_char_wrong ==
    /\ out # <<>> /\ uart # <<>>
    /\ uart' = <<Head(out)>> /\ out' = Tail(out)
    /\ UNCHANGED <<fb, console, line, faulty, todo, prints, status, logged>>

\* put_char waits until the transmitter is empty.
put_char ==
    /\ out # <<>> /\ uart = <<>>
    /\ uart' = <<Head(out)>> /\ out' = Tail(out)
    /\ UNCHANGED <<fb, console, line, faulty, todo, prints, status, logged>>

\* The UART puts a character on the line.
transmit == /\ uart # <<>>
            /\ line' = line \o uart /\ uart' = <<>>
            /\ UNCHANGED <<fb, console, out, faulty, todo, prints, status, logged>>

\* After its last character the panicking kernel halts.
kpanic == /\ status = "panicking" /\ out = <<>>
          /\ status' = "halted"
          /\ UNCHANGED <<fb, console, serial, todo, prints, logged>>
-----------------------------------------------------------------------------
(* System calls                                                            *)

User == status = "up" /\ out = <<>>

\* Syscall 0 of a program's own string; nothing goes to the serial line.
sys_conout(m) ==
    /\ User /\ prints < MaxPrints
    /\ Shown(m)
    /\ prints' = prints + 1
    /\ UNCHANGED <<serial, todo, status, logged>>

\* The stub of libc puts the arguments into the registers ...
Registers == <<"rax", "rbx", "rcx", "rdx", "rsi", "rdi", "r8", "r9", "r10", "r11", "r12", "r13">>
syscall(args) == [r \in Range(Registers) |->
                     LET i == CHOOSE k \in DOMAIN Registers : Registers[k] = r
                     IN  IF i \in DOMAIN args THEN args[i] ELSE Junk]

\* ... and sys_ioctl takes them out again.
ioctl_args(tf) == <<tf["rdx"], tf["rsi"], tf["rdi"], tf["r8"], tf["r9"]>>

\* framebuffer_putpix of an ioctl keeps a margin, more or less: the sums wrap.
InMargin(a) == a[1] <= (W - Margin) % Word /\ a[2] <= (H - Margin) % Word

\* FRAMEBUFFER_IOCTL_PUTSTR: each newline goes back to where the string began.
ioctl_putstr(s, px, c) ==
    IF c = NL THEN [s EXCEPT !.x = px, !.y = (s.y + FontH + Gap) % Word]
    ELSE [s EXCEPT !.fb = framebuffer_putch(s.fb, s.x, s.y, c), !.x = (s.x + FontW) % Word]

Text(f, px, py, text) ==
    LET after[i \in 0 .. Len(text)] == IF i = 0 THEN [fb |-> f, x |-> px, y |-> py]
                                       ELSE ioctl_putstr(after[i - 1], px, text[i])
    IN  after[Len(text)].fb

framebuffer_ioctl(cmd, a) ==
    CASE cmd = "CLEAR"  -> framebuffer_clear(fb, a[1])
      [] cmd = "PUTPIX" -> IF InMargin(a) THEN Painted(fb, {<<a[1] % Word, a[2] % Word>>}, a[3]) ELSE fb
      [] cmd = "PUTSTR" -> Text(fb, a[1] % Word, a[2] % Word, a[3])

\* Row by row, a system call for every pixel.
libgfx_draw_square(sx, sy, w, h, colour) ==
    [i \in 1 .. w * h |-> <<"PUTPIX", sx + ((i - 1) % w), sy + ((i - 1) \div w), colour>>]

\* libgfx_open_window: the background, then the bar.
libgfx_open_window == libgfx_draw_square(Win.x, Win.y, Win.width, Win.height, "bg")
                      \o libgfx_draw_square(Win.x, Win.y, Win.width, Win.bar, "fg")

\* kesswm's main: the desktop, the window with its title, and its text.
kesswm_draw_desktop == << <<"CLEAR", "desktop">> >>
kesswm_open_window == libgfx_open_window \o << <<"PUTSTR", Win.x, Win.y, <<"T">> >> >>
kesswm_putstr == << <<"PUTSTR", Win.x + Win.inset, Win.y + Win.bar, <<"a", NL, "b">> >> >>
kesswm == kesswm_draw_desktop \o kesswm_open_window \o kesswm_putstr

\* One system call of kesswm; its main loops for ever afterwards.
sys_ioctl ==
    /\ User /\ todo <= Len(kesswm)
    /\ LET call == kesswm[todo]
           tf == syscall(<<1, 1, call[1]>> \o Tail(call))
       IN  fb' = framebuffer_ioctl(tf["rcx"], ioctl_args(tf))
    /\ todo' = todo + 1
    /\ UNCHANGED <<console, serial, prints, status, logged>>

\* serial_init tests the chip in loopback mode.
Init == /\ fb = [i \in {_framebuffer_get_index(p) : p \in (0 .. W - 1) \X (0 .. H - 1)} |-> Blank]
        /\ x = 0 /\ y = 0 /\ panic = FALSE
        /\ faulty \in BOOLEAN /\ out = <<>> /\ uart = <<>> /\ line = <<>>
        /\ todo = 1 /\ prints = 0 /\ status = "up" /\ logged = <<>>

Next == \/ \E m \in Messages : printk(m)
        \/ \E m \in Puts : sys_conout(m)
        \/ put_char \/ transmit \/ kpanic \/ sys_ioctl

\* The CPU executes, and the UART sends what it is given.
Spec == Init /\ [][Next]_vars /\ WF_vars(put_char) /\ WF_vars(transmit) /\ WF_vars(kpanic)
-----------------------------------------------------------------------------
(* Properties                                                              *)

\* Every variable keeps its type.
TypeOK == /\ {x, y} \subseteq 0 .. Word - 1 /\ panic \in BOOLEAN /\ faulty \in BOOLEAN
          /\ Len(uart) <= 1 /\ todo \in 1 .. Len(kesswm) + 1
          /\ prints \in 0 .. MaxPrints /\ status \in {"up", "panicking", "halted"}

\* However far the cursor has gone, whatever coordinates wrap around and whoever
\* draws, only pixels of the screen are written: not the padding at the end of a
\* row, and nothing behind the framebuffer.
WritesStayInside ==
    DOMAIN fb = {_framebuffer_get_index(p) : p \in (0 .. W - 1) \X (0 .. H - 1)}

\* The console keeps to the screen.
ScreenSafe == TypeOK /\ WritesStayInside

\* The cells of a text from the upper left corner, cut off at the screen's edge.
Reads(text) ==
    \A i \in 1 .. Len(text) :
        \A p \in ((i - 1) * FontW .. (i * FontW) - 1) \X (0 .. FontH - 1) :
            Visible(p) /\ NL \notin {text[j] : j \in 1 .. i} => getpix(fb, p) = text[i]

\* Wherever the console's cursor was and whatever programs drew, a panic's first
\* line can be read when the machine has halted, at the top of an empty screen.
PanicIsReadable ==
    status \in {"panicking", "halted"} =>
        /\ \E m \in Messages : m.prefix = 1 /\ Reads(Formatted(m, 1))
        /\ \A p \in (0 .. W - 1) \X (0 .. H - 1) : getpix(fb, p) \notin Colours

\* The serial line carries the kernel's messages completely and in order, or
\* nothing if the chip is faulty.
LineIsComplete == IF faulty THEN line \o uart \o out = <<>>
                  ELSE line \o uart \o out = logged

\* A message never hangs the kernel: the busy wait for the UART ends, and a panic
\* ends in a halt.
LoggingEnds == []<>(out = <<>>) /\ (status = "panicking" ~> status = "halted")
=============================================================================
