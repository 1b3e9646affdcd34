------------------------------ MODULE Console --------------------------------
(***************************************************************************)
(* What the kernel prints: kprintf of lib/kprintf.c, the files it writes   *)
(* to (lib/file.c), the text screen of drivers/vga.c with the memmove that *)
(* scrolls it, and the serial port of drivers/serial.c.  Interrupts are    *)
(* disabled or no handler prints and returns, so one call is over before   *)
(* the next begins; the serial port works beside it.                       *)
(***************************************************************************)
EXTENDS Bprintf

CONSTANTS
    MAX_LENGTH,         \* 128: the buffer of kprintf
    VGA_ROWS,           \* 25
    VGA_COLUMNS,        \* 80
    Scripts             \* what is printed: sequences of formats with arguments

VGA_CELLS == VGA_ROWS * VGA_COLUMNS

ASSUME ConsoleAssumption ==
    /\ MAX_LENGTH \in Nat \ {0}
    /\ VGA_ROWS \in Nat \ {0} /\ VGA_COLUMNS \in Nat \ {0} /\ VGA_CELLS <= 65536

\* A call of kprintf: its format, and its arguments, of which the number or the
\* string is used.  The compiler has checked that they go together.
Calls == [format : Seq(STRING), args : Seq([num : Int, str : Seq(STRING)]), buffer : {<<>>}]

ASSUME ScriptsAssumption ==
    \A script \in Scripts :
        /\ script \in Seq(Calls)
        /\ \A k \in DOMAIN script : WellFormed(script[k].format, script[k].args)

VARIABLES
    calls,              \* the calls of kprintf to come
    constructors,       \* of vga and serial, those that have to run
    com_port,           \* whether the BIOS has found a serial port
    backends,           \* the files that were registered
    message,            \* the call being made, and its buffer
    todo, at,           \* the files still to write to, and the next byte
    memory,             \* of the screen: a byte for the character, one for the color
    cursor,             \* the variable of vga.c, and
    cursor_register,    \*   the position the hardware shows
    holding, line,      \* the byte the port is to send, and those it has sent
    printed             \* history: all that kprintf wrote to each file

vars == <<calls, constructors, com_port, backends, message, todo, at, memory,
          cursor, cursor_register, holding, line, printed>>

screenVars == <<memory, cursor, cursor_register>>
portVars == <<holding, line>>

Newline == "\n"
Return == "\r"
Backspace == "backspace"
Blank == " "
White == "0xF"

NoMessage == [format |-> <<>>, args |-> <<>>, buffer |-> <<>>]

\* What the BIOS has left on the screen is of no interest.
Init ==
    /\ calls \in Scripts
    /\ constructors = {"vga", "serial"}
    /\ com_port \in BOOLEAN
    /\ backends = <<>> /\ message = NoMessage /\ todo = <<>> /\ at = 1
    /\ memory = [byte \in 0 .. 2 * VGA_CELLS - 1 |-> "bios"]
    /\ cursor = 0 /\ cursor_register = VGA_CELLS - 1
    /\ holding = <<>> /\ line = <<>>
    /\ printed = [file \in {"vga", "serial"} |-> <<>>]
-----------------------------------------------------------------------------
(* memmove: pieces of one byte until the destination is aligned to a word, *)
(* words of four bytes, and what is left in bytes.                         *)

\* The offsets and lengths of the pieces, from the beginning.
Pieces(lead, n) ==
    LET words == (n - lead) \div 4
        Bytes(from, to) == [k \in 1 .. to - from |-> <<from + k - 1, 1>>]
    IN  Bytes(0, lead) \o [k \in 1 .. words |-> <<lead + 4 * (k - 1), 4>>]
            \o Bytes(lead + 4 * words, n)

ForwardPieces(dst, n) == Pieces(IF n <= 8 THEN n ELSE (-dst) % 4, n)

BackwardPieces(dst, n) ==
    LET pieces == Pieces(IF n <= 8 THEN n ELSE (dst + n) % 4, n) IN
    [k \in DOMAIN pieces |-> <<n - pieces[k][1] - pieces[k][2], pieces[k][2]>>]

CopyPiece(bytes, dst, src, piece) ==
    [b \in DOMAIN bytes |->
        IF b - dst \in piece[1] .. piece[1] + piece[2] - 1 THEN bytes[b - dst + src] ELSE bytes[b]]

\* A slip: the test of the overlap is the other way round.
memmove_OtherWay(bytes, dst, src, n) ==
    FoldLeft(LAMBDA b, piece : CopyPiece(b, dst, src, piece), bytes,
             IF src < dst \/ dst > src + n - 1 THEN ForwardPieces(dst, n) ELSE BackwardPieces(dst, n))

memmove(bytes, dst, src, n) ==
    FoldLeft(LAMBDA b, piece : CopyPiece(b, dst, src, piece), bytes,
             IF src < dst /\ dst <= src + n - 1 THEN BackwardPieces(dst, n) ELSE ForwardPieces(dst, n))
-----------------------------------------------------------------------------
(* drivers/vga.c *)

\* The hardware takes 16 bits in two bytes.
vga_sync_cursor_position == cursor_register' = cursor' % 65536

CharacterOf(cell) == 2 * cell

Put(bytes, cell, char) == [bytes EXCEPT ![CharacterOf(cell)] = char]

\* The memory and the cursor after a character and before scrolling.
Typed(b) ==
    CASE b = Newline -> [memory |-> memory, cursor |-> ((cursor \div VGA_COLUMNS) + 1) * VGA_COLUMNS]
      [] b = Return -> [memory |-> memory, cursor |-> cursor - (cursor % VGA_COLUMNS)]
      [] b = Backspace /\ cursor % VGA_COLUMNS # 0 ->
            [memory |-> Put(memory, cursor - 1, Blank), cursor |-> cursor - 1]
      [] b = Backspace /\ cursor % VGA_COLUMNS = 0 -> [memory |-> memory, cursor |-> cursor]
      [] OTHER -> [memory |-> Put(memory, cursor, b), cursor |-> cursor + 1]

LastRow == VGA_CELLS - VGA_COLUMNS .. VGA_CELLS - 1

BlankLastRow(bytes) ==
    [b \in DOMAIN bytes |-> IF \E cell \in LastRow : b = CharacterOf(cell) THEN Blank ELSE bytes[b]]

vga_write_byte(b) ==
    /\ LET typed == Typed(b) IN
       IF typed.cursor >= VGA_CELLS
       THEN /\ memory' = BlankLastRow(memmove(typed.memory, 0, 2 * VGA_COLUMNS,
                                              2 * (VGA_CELLS - VGA_COLUMNS)))
            /\ cursor' = typed.cursor - VGA_COLUMNS
       ELSE memory' = typed.memory /\ cursor' = typed.cursor
    /\ vga_sync_cursor_position
    /\ UNCHANGED portVars

VgaConstructor ==
    /\ "vga" \in constructors /\ todo = <<>>
    /\ constructors' = constructors \ {"vga"}
    /\ UNCHANGED cursor
    /\ vga_sync_cursor_position
    /\ memory' = [byte \in DOMAIN memory |-> IF byte % 2 = 0 THEN Blank ELSE White]
    /\ backends' = Append(backends, "vga")
    /\ UNCHANGED <<calls, com_port, message, todo, at, portVars, printed>>
-----------------------------------------------------------------------------
(* drivers/serial.c *)

\* A slip: the port is not asked whether it has sent the byte before.
serial_write_byte_NoWait(b) ==
    /\ holding' = <<b>>
    /\ UNCHANGED <<line, screenVars>>

\* A byte written while the port holds another would replace it: the loop
\* waits for bit 5 of the line status.
serial_write_byte(b) ==
    /\ holding = <<>>
    /\ holding' = <<b>>
    /\ UNCHANGED <<line, screenVars>>

\* The other ports are set up and never used.
SerialConstructor ==
    /\ "serial" \in constructors /\ todo = <<>>
    /\ constructors' = constructors \ {"serial"}
    /\ backends' = IF com_port THEN Append(backends, "serial") ELSE backends
    /\ UNCHANGED <<calls, com_port, message, todo, at, screenVars, portVars, printed>>

\* The port sends the byte it holds.
PortSends ==
    /\ holding # <<>>
    /\ line' = line \o holding /\ holding' = <<>>
    /\ UNCHANGED <<calls, constructors, com_port, backends, message, todo, at, screenVars, printed>>
-----------------------------------------------------------------------------
(* lib/kprintf.c, lib/file.c *)

\* A slip: a message that fills the buffer is left as it is.
Terminated_IfShort(text) == IF Len(text) < MAX_LENGTH THEN Append(text, Newline) ELSE text

\* The buffer gets a newline, instead of the last character if it is full.
Terminated(text) ==
    IF Len(text) < MAX_LENGTH THEN Append(text, Newline) ELSE [text EXCEPT ![MAX_LENGTH] = Newline]

\* kprintf(format, args), up to the first call of write_buffer.
Kprintf ==
    /\ calls # <<>> /\ todo = <<>>
    /\ calls' = Tail(calls)
    /\ IF backends = <<>>
       THEN UNCHANGED <<message, todo, printed>>
       ELSE /\ message' = [Head(calls) EXCEPT !.buffer =
                    Terminated(vbprintf(MAX_LENGTH, Head(calls).format, Head(calls).args))]
            /\ todo' = backends
            /\ printed' = [file \in DOMAIN printed |->
                    IF file \in ToSet(backends) THEN printed[file] \o message'.buffer ELSE printed[file]]
    /\ UNCHANGED <<constructors, com_port, backends, at, screenVars, portVars>>

\* One iteration of file_default_write_buffer: write_byte never fails.
WriteByte ==
    /\ todo # <<>>
    /\ \/ Head(todo) = "vga" /\ vga_write_byte(message.buffer[at])
       \/ Head(todo) = "serial" /\ serial_write_byte(message.buffer[at])
    /\ LET last == at = Len(message.buffer) IN
        /\ todo' = IF last THEN Tail(todo) ELSE todo
        /\ at' = IF last THEN 1 ELSE at + 1
    /\ UNCHANGED <<calls, constructors, com_port, backends, message, printed>>

Next == VgaConstructor \/ SerialConstructor \/ Kprintf \/ WriteByte \/ PortSends

Spec == Init /\ [][Next]_vars
-----------------------------------------------------------------------------
(* Properties. *)

\* The types.
TypeOK ==
    /\ constructors \subseteq {"vga", "serial"} /\ com_port \in BOOLEAN
    /\ ToSet(backends) \subseteq {"vga", "serial"} /\ IsInjective(backends)
    /\ IsSuffix(todo, backends)
    /\ at \in 1 .. Len(message.buffer) + 1
    /\ cursor \in 0 .. VGA_CELLS - 1
    /\ DOMAIN memory = 0 .. 2 * VGA_CELLS - 1

\* A message ends its line and fits into its buffer, wherever the format and
\* its pieces are cut off.
FitsBuffer ==
    message # NoMessage => Len(message.buffer) <= MAX_LENGTH /\ Last(message.buffer) = Newline

\* A message is what printf prints, as much of it as there is room for, when
\* its conversions are those the code gets right.
IsPrintf ==
    (message # NoMessage /\ todo = backends /\ at = 1) =>
        LET full == Printf(message.format, message.args) IN
        full.like => message.buffer = Append(Fits(full.text, MAX_LENGTH - 1), Newline)

\* What is still to be written to a file.
Unwritten(file) ==
    CASE file \notin ToSet(todo) -> <<>>
      [] file \in ToSet(todo) /\ file = Head(todo) -> SubSeq(message.buffer, at, Len(message.buffer))
      [] OTHER -> message.buffer

\* Every byte goes over the serial line once and in order.
NothingLost == line \o holding \o Unwritten("serial") = printed.serial

\* The screen keeps its color, and the hardware shows the cursor of the code.
ScreenSound ==
    "vga" \notin constructors =>
        /\ cursor_register = cursor
        /\ \A cell \in 0 .. VGA_CELLS - 1 : memory[CharacterOf(cell) + 1] = White

\* The structures of the drivers are sound, and the serial line is complete.
ConsoleInvariant == TypeOK /\ NothingLost /\ ScreenSound

\* A terminal without an end: the rows that were printed, and the column.
BlankRow == [column \in 1 .. VGA_COLUMNS |-> Blank]

NewRow(terminal) == [rows |-> Append(terminal.rows, BlankRow), column |-> 0]

Show(terminal, char) ==
    LET column == terminal.column
        Shown(c, k) == [terminal.rows EXCEPT ![Len(terminal.rows)][k] = c]
    IN  CASE char = Newline -> NewRow(terminal)
          [] char = Return -> [terminal EXCEPT !.column = 0]
          [] char = Backspace ->
                IF column = 0 THEN terminal ELSE [rows |-> Shown(Blank, column), column |-> column - 1]
          [] OTHER ->
                LET shown == [rows |-> Shown(char, column + 1), column |-> column + 1] IN
                IF column + 1 = VGA_COLUMNS THEN NewRow(shown) ELSE shown

Terminal(chars) == FoldLeft(Show, [rows |-> <<BlankRow>>, column |-> 0], chars)

\* The screen shows the last rows of all that was printed, and the cursor
\* where the next character goes.
ScreenShowsTail ==
    ("vga" \in ToSet(backends) /\ todo = <<>>) =>
        LET terminal == Terminal(printed.vga)
            n == Len(terminal.rows)
            above == Max({0, n - VGA_ROWS})
        IN  /\ \A row \in 1 .. VGA_ROWS, column \in 1 .. VGA_COLUMNS :
                    memory[CharacterOf((row - 1) * VGA_COLUMNS + column - 1)] =
                        IF above + row <= n THEN terminal.rows[above + row][column] ELSE Blank
            /\ cursor = (n - above - 1) * VGA_COLUMNS + terminal.column
==============================================================================
