----------------------------- MODULE Predictor -----------------------------
(***************************************************************************)
(* Predictive echo (crates/predict/src/lib.rs, driven by ClientShell in     *)
(* crates/proto/src/shell.rs) and the terminal it predicts (Emulator): each *)
(* key typed is sent to the server and its echo is guessed; each screen     *)
(* that arrives confirms or abandons guesses.                               *)
(*                                                                         *)
(* The other end is a terminal that echoes the keys it reads, or does not,  *)
(* while the program in it prints what it likes and the client resizes it.  *)
(* Keys arrive in order, as InputChannel shows; screens arrive newest-wins, *)
(* some of them never, as in StateSync.                                     *)
(***************************************************************************)
EXTENDS Emulator, Sequences

CONSTANTS Printable,      \* the characters typed
          Uses,           \* what the program and the user may do
          MaxSent         \* bound: screens in flight

\* A use bounds the program's calls and resizes and the keys typed, and says which keys
\* that are not printable are in use and which <<rows, cols>> the terminal may have.  In
\* one column a wide character has no room: put_char would write past its line.  What is
\* predicted is printable ASCII.
ASSUME PredictorAssumption ==
    /\ \A ch \in Printable : Width(ch) = 1 /\ ch \notin {"enter", "del", "ctl"}
    /\ \A u \in Uses : /\ u.ops \in Nat /\ u.typed \in Nat
                        /\ u.keys \subseteq {"enter", "del", "ctl"}
                        /\ u.sizes \subseteq (Nat \ {0}) \X (Nat \ {0, 1}) /\ u.sizes # {}
    /\ MaxSent \in Nat \ {0}

VARIABLES use,            \* the use made of this terminal
          base, preds, cursor, confirmed_echo, glitch,  \* Predictor, DisplayMode::Adaptive
          echo,           \* the terminal echoes
          input,          \* keys on their way to it
          sent,           \* screens on their way to the client
          ops, typed      \* calls of the program, and keys typed, so far

predictor == <<base, preds, cursor, confirmed_echo, glitch>>
predictorVars == <<use, predictor, emulator, echo, input, sent, ops, typed>>

\* What a StateDiff carries of a grid.
Render(g) == [rows |-> g.rows, cols |-> g.cols, cells |-> g.cells, row |-> g.row, col |-> g.col]

\* Predictor::new, on the blank screen of ClientShell::new.
PredictorInit ==
    /\ use \in Uses
    /\ \E size \in use.sizes :
        /\ EmulatorInit(size)
        /\ base = Render(New(size[1], size[2])) /\ preds = <<>> /\ cursor = <<0, 0>>
    /\ confirmed_echo = FALSE /\ glitch = FALSE
    /\ echo = TRUE /\ input = <<>> /\ sent = <<>> /\ ops = 0 /\ typed = 0

Displaying == confirmed_echo /\ ~glitch

\* advance_cursor, and the corner where it cannot advance.
AtEnd == cursor[2] + 1 >= base.cols /\ cursor[1] + 1 >= base.rows

AdvanceCursor ==
    IF cursor[2] + 1 < base.cols THEN <<cursor[1], cursor[2] + 1>>
    ELSE IF cursor[1] + 1 < base.rows THEN <<cursor[1] + 1, 0>> ELSE cursor

\* Backspace moves the predicted cursor back, over a line end too.
RetreatCursor ==
    IF cursor[2] > 0 THEN <<cursor[1], cursor[2] - 1>>
    ELSE IF cursor[1] > 0 THEN <<cursor[1] - 1, base.cols - 1>> ELSE cursor

\* type_input: the key is queued for the server and its echo predicted.
Sends(key) ==
    /\ typed < use.typed /\ typed' = typed + 1
    /\ input' = Append(input, key)
    /\ UNCHANGED <<use, base, confirmed_echo, glitch, emulator, echo, sent, ops>>

TypeChar(ch) ==
    /\ Sends(ch)
    /\ IF AtEnd THEN UNCHANGED <<preds, cursor>>
       ELSE /\ preds' = Append(preds, [row |-> cursor[1], col |-> cursor[2], ch |-> ch])
            /\ cursor' = AdvanceCursor

TypeDel ==
    /\ Sends("del")
    /\ IF preds = <<>> THEN UNCHANGED <<preds, cursor>>
       ELSE preds' = SubSeq(preds, 1, Len(preds) - 1) /\ cursor' = RetreatCursor

\* Enter, and control keys: wait for the authoritative screen.
TypeOther(key) ==
    /\ Sends(key)
    /\ preds' = <<>> /\ cursor' = <<base.row, base.col>>

Type ==
    \/ \E ch \in Printable : TypeChar(ch)
    \/ "del" \in use.keys /\ TypeDel
    \/ \E key \in use.keys \ {"del"} : TypeOther(key)

-----------------------------------------------------------------------------
\* apply_state_diff applied a newer screen: reconcile.

Reached(s, p) == s.row > p.row \/ (s.row = p.row /\ s.col > p.col)
CellAt(s, p) ==
    IF p.row < s.rows /\ p.col < s.cols THEN s.cells[p.row * s.cols + p.col] ELSE Blank

\* The loop over the predictions keeps, in their order, those that the screen has not
\* reached, and retain those that lie on it.
Stays(s, p) == ~Reached(s, p) /\ p.row < s.rows /\ p.col < s.cols
Kept(s, ps) ==
    LET after[n \in 0 .. Len(ps)] ==
            IF n = 0 THEN <<>>
            ELSE IF Stays(s, ps[n]) THEN Append(after[n - 1], ps[n]) ELSE after[n - 1]
    IN  after[Len(ps)]

\* Mutant: what a new screen has not reached is kept wherever it is.
ReconcileUnclamped(s) ==
    /\ base' = s
    /\ preds' = SelectSeq(preds, LAMBDA p : ~Reached(s, p))
    /\ cursor' = IF preds' = <<>> THEN <<s.row, s.col>> ELSE cursor
    /\ UNCHANGED <<glitch, confirmed_echo>>

Reconcile(s) ==
    LET reached == {k \in DOMAIN preds : Reached(s, preds[k])}
        abandoned == \E k \in reached : CellAt(s, preds[k]) # preds[k].ch
    IN  /\ base' = s
        /\ preds' = IF abandoned THEN <<>> ELSE Kept(s, preds)
        /\ glitch' = (abandoned \/ (glitch /\ reached = {}))
        /\ confirmed_echo' = (confirmed_echo \/ (~abandoned /\ reached # {}))
        /\ cursor' = IF preds' = <<>> THEN <<s.row, s.col>>
                     ELSE <<Lesser(cursor[1], s.rows - 1), Lesser(cursor[2], s.cols - 1)>>

Arrive ==
    \E k \in DOMAIN sent :
        /\ Reconcile(sent[k])
        /\ sent' = SubSeq(sent, k + 1, Len(sent))
        /\ UNCHANGED <<use, emulator, echo, input, ops, typed>>

\* overlay, as the characters the user sees.
OverlayCells ==
    [i \in DOMAIN base.cells |->
        IF Displaying /\ \E k \in DOMAIN preds : preds[k].row * base.cols + preds[k].col = i
        THEN LET last == CHOOSE k \in DOMAIN preds :
                            /\ preds[k].row * base.cols + preds[k].col = i
                            /\ \A j \in k + 1 .. Len(preds) :
                                  preds[j].row * base.cols + preds[j].col # i
             IN  preds[last].ch
        ELSE base.cells[i]]

-----------------------------------------------------------------------------
\* The server's end: a terminal line discipline, and the screens poll_diff sends.

Echoed(g, key) ==
    CASE key = "enter" -> LineFeed(CarriageReturn(g))
      [] key = "del"   -> IF g.col = 0 THEN g ELSE Backspace(PutChar(Backspace(g), Blank))
      [] key = "ctl"   -> g
      [] OTHER         -> PutChar(g, key)

HostReads ==
    /\ input # <<>>
    /\ input' = Tail(input)
    /\ grid' = IF echo \/ Head(input) = "enter" THEN Echoed(grid, Head(input)) ELSE grid
    /\ UNCHANGED <<use, predictor, main, echo, sent, ops, typed>>

\* One call of the program, or of the client's resize.
Calls ==
    /\ ops < use.ops /\ ops' = ops + 1
    /\ UNCHANGED <<use, predictor, input, sent, typed>>

HostPrints == Calls /\ Output /\ UNCHANGED echo
HostEchoes == Calls /\ echo' = ~echo /\ UNCHANGED emulator
HostResizes ==
    /\ Calls /\ UNCHANGED echo
    /\ \E size \in use.sizes \ {<<grid.rows, grid.cols>>} : ResizeTo(size)

\* A use without keys is about the server alone.
HostSends ==
    /\ use.typed > 0 /\ Len(sent) < MaxSent
    /\ Render(grid) # (IF sent = <<>> THEN base ELSE sent[Len(sent)])
    /\ sent' = Append(sent, Render(grid))
    /\ UNCHANGED <<use, predictor, emulator, echo, input, ops, typed>>

PredictorNext ==
    Type \/ Arrive \/ HostReads \/ HostPrints \/ HostEchoes \/ HostResizes \/ HostSends

PredictorSpec == PredictorInit /\ [][PredictorNext]_predictorVars

-----------------------------------------------------------------------------

\* The cell of a prediction, as an index of the screen it is painted on.
At(k) == preds[k].row * base.cols + preds[k].col

\* Whatever is typed and printed and whichever screens arrive, predictions and the predicted
\* cursor lie on the screen they are painted on; and as long as the terminal keeps its
\* size, the predictions are a run of adjacent cells with the predicted cursor on the cell
\* after the last one (lib.rs:97-139, 165-202).
PredictionsInLine ==
    /\ \A k \in DOMAIN preds : preds[k].row < base.rows /\ preds[k].col < base.cols
    /\ cursor[1] < base.rows /\ cursor[2] < base.cols
    /\ (\A m, n \in use.sizes : m = n) =>
           /\ \A k \in DOMAIN preds : At(k) = At(1) + (k - 1)
           /\ preds # <<>> => cursor[1] * base.cols + cursor[2] = At(1) + Len(preds)

\* The user types plain text at a program that echoes it, no more than fits on the screen.
\* A line that scrolls moves the cells that were predicted.
PlainText == use.ops = 0 /\ use.keys = {} /\ typed <= base.rows * base.cols

\* The terminal once it has read these keys.
EchoedAll(g, keys) ==
    LET after[n \in 0 .. Len(keys)] == IF n = 0 THEN g ELSE Echoed(after[n - 1], keys[n])
    IN  after[Len(keys)]

\* While the program echoes plain text and no line has scrolled, every outstanding
\* prediction is what its screen will show once it has read the keys on their way, none is
\* ever taken for wrong, and the user never sees on a cell anything but the newest screen's
\* character or that one (lib.rs:141-202).
ComeTrue ==
    LET final == EchoedAll(grid, input)
    IN  PlainText =>
            /\ ~glitch
            /\ \A k \in DOMAIN preds : CellAt(final, preds[k]) = preds[k].ch
            /\ \A i \in DOMAIN base.cells : OverlayCells[i] \in {base.cells[i], final.cells[i]}

\* Both: predictions are on the screen and in line, and those of plain text that does not
\* scroll come true.
PredictionsSound == PredictionsInLine /\ ComeTrue

=============================================================================
