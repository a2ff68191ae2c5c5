-------------------------------- MODULE Shell --------------------------------
(***************************************************************************)
(* The shell (src/user/shell.c): the line editor, its tokenizer, the       *)
(* commands and planning mode.  Every key that Getc returns is handled in  *)
(* one step, with the calls of the servers that a command makes.           *)
(*                                                                         *)
(* A command word is its first character, since the shell compares the     *)
(* beginnings of words, and a command has one argument, whose check stands *)
(* for those of the train, the speed, the switch and the node.             *)
(***************************************************************************)
EXTENDS Naturals, Sequences, FiniteSets, FiniteSetsExt

CONSTANTS Kind,      \* what the words mean: a function from their characters to "plan",
                     \* "doneplan", "q", "die", "mock", "tr" (or "sw", "rv", "gt", "reg",
                     \* "random")
          Others,    \* the other characters of a line, without the blank
          Blank, NUL,
          Valid,     \* the arguments that commands accept
          TERMINALMAXINPUTSIZE,   \* 20
          MAX_COMMAND_TOKENS,     \* 6
          MAX_PLANNED_COMMANDS    \* 10

Chars == DOMAIN Kind \cup Others \cup {Blank}

ShellAssumption ==
  /\ NUL \notin Chars /\ Blank \notin DOMAIN Kind \cup Others
  /\ Valid \subseteq Seq(Chars \ {Blank})
  /\ TERMINALMAXINPUTSIZE \in Nat \ {0} /\ MAX_COMMAND_TOKENS \in Nat \ {0}
  /\ MAX_PLANNED_COMMANDS \in Nat \ {0}

VARIABLES input, input_length, is_planning_mode,
          command_cb,   \* the commands that are planned
          stopped,      \* "no", "yes" (q or die), "undefined" (a write behind
                        \* command_tokens, or the name of track[-1])
          executed,     \* history: the commands that the last key has started
          shown,        \* history: the commands that the user saw at the prompt when Enter
                        \* was pressed, since plan or else with the last key
          left          \* history: the last line was refused, and input is not cleared

shell == <<input, input_length, is_planning_mode, command_cb, stopped, executed, shown, left>>

Cells == 1 .. TERMINALMAXINPUTSIZE
Empty == [i \in Cells |-> NUL]

ShellInit ==
  /\ input = Empty /\ input_length = 0 /\ is_planning_mode = FALSE
  /\ command_cb = <<>> /\ stopped = "no"
  /\ executed = <<>> /\ shown = <<>> /\ left = FALSE

-----------------------------------------------------------------------------
(* The tokenizer *)

\* The text in line from cell i up to the next NUL.
Text(line, i) ==
  LET end == Min({j \in i .. TERMINALMAXINPUTSIZE : line[j] = NUL} \cup {TERMINALMAXINPUTSIZE + 1})
  IN  [k \in 1 .. end - i |-> line[i + k - 1]]

Blanks(line) == {i \in DOMAIN Text(line, 1) : line[i] = Blank}

\* Blanks become NULs, the first MAX_COMMAND_TOKENS of them.
Cut(line) ==
  [i \in Cells |->
     IF i \in Blanks(line) /\ Cardinality({j \in Blanks(line) : j < i}) < MAX_COMMAND_TOKENS
       THEN NUL ELSE line[i]]

\* tokenizer: the word and its argument, and the line as it is then.
tokenizer(line) ==
  LET cut == Cut(line)
  IN  [word |-> Text(cut, 1),
       argument |-> IF Blanks(line) = {} THEN <<>> ELSE Text(cut, Min(Blanks(line)) + 1),
       line |-> cut]

\* What a line asks for: a command has its kind and its argument.
NoCommand == [kind |-> "none", argument |-> <<>>]
Request(line) ==
  LET tokens == tokenizer(line)
  IN  IF tokens.word = <<>> \/ tokens.word[1] \notin DOMAIN Kind THEN NoCommand
      ELSE [kind |-> Kind[tokens.word[1]], argument |-> tokens.argument]

-----------------------------------------------------------------------------
(* The line editor: handle_new_char.  A full line takes no key, not even Enter. *)

Editing ==
  /\ stopped = "no"
  /\ executed' = <<>> /\ shown' = IF is_planning_mode THEN shown ELSE <<>>
  /\ UNCHANGED <<is_planning_mode, command_cb, stopped, left>>

FullLine == Editing /\ input_length = TERMINALMAXINPUTSIZE /\ UNCHANGED <<input, input_length>>

\* Seeded fault: the character stays behind the end of the line.
BackspaceKeeps ==
  /\ Editing /\ input_length < TERMINALMAXINPUTSIZE
  /\ input_length' = IF input_length > 0 THEN input_length - 1 ELSE 0
  /\ UNCHANGED input

Backspace ==
  /\ Editing /\ input_length < TERMINALMAXINPUTSIZE
  /\ IF input_length > 0
       THEN input' = [input EXCEPT ![input_length] = NUL] /\ input_length' = input_length - 1
       ELSE UNCHANGED <<input, input_length>>

Character(c) ==
  /\ Editing /\ input_length < TERMINALMAXINPUTSIZE
  /\ input' = [input EXCEPT ![input_length + 1] = c]
  /\ input_length' = input_length + 1

-----------------------------------------------------------------------------
(* Enter *)

\* The commands that check their argument and refuse the line.
Checked == {"tr", "sw", "rv", "gt", "reg", "random"}
Commands == Checked \cup {"q", "die", "mock"}

\* The line is answered with continue, and input is not cleared.
Refuses(request) ==
  \/ request.kind = "plan"
  \/ request.kind = "doneplan" /\ ~is_planning_mode
  \/ request.kind \in Checked /\ request.argument \notin Valid

\* cb_push_back, which is not aggressive and whose result is not looked at.
Planned(cb, request) ==
  IF request.kind \in Commands /\ Len(cb) < MAX_PLANNED_COMMANDS THEN Append(cb, request) ELSE cb

\* The commands of cb that are executed: those up to one that stops the system.
Stops(cb) == {i \in DOMAIN cb : cb[i].kind \in {"q", "die"}}
Executed(cb) == IF Stops(cb) = {} THEN cb ELSE SubSeq(cb, 1, Min(Stops(cb)))

\* The text that print_input shows.
Seen == [i \in Cells |-> IF i <= input_length THEN input[i] ELSE NUL]

\* The history of a line that asks for request: what the user saw of it, unless the line
\* before it was refused.
Shows(request) ==
  LET seen == IF left THEN request ELSE Request(Seen)
      before == IF is_planning_mode THEN shown ELSE <<>>
  IN  shown' = IF seen.kind \in Commands /\ ~Refuses(seen) /\ Len(before) <= MAX_PLANNED_COMMANDS
                 THEN Append(before, seen) ELSE before

EnterRefused ==
  /\ stopped = "no" /\ input_length < TERMINALMAXINPUTSIZE
  /\ Cardinality(Blanks(input)) < MAX_COMMAND_TOKENS
  /\ LET request == Request(input)
     IN  /\ Refuses(request)
         /\ is_planning_mode' = (is_planning_mode \/ request.kind = "plan")
         /\ Shows(request)
  /\ input' = tokenizer(input).line /\ input_length' = 0
  /\ executed' = <<>> /\ left' = TRUE
  /\ UNCHANGED <<command_cb, stopped>>

\* The loop that executes the commands in command_cb, now cb.
Flush(cb) ==
  /\ executed' = Executed(cb)
  /\ command_cb' = <<>>
  /\ stopped' = IF Stops(cb) # {} THEN "yes" ELSE "no"

EnterAccepted ==
  /\ stopped = "no" /\ input_length < TERMINALMAXINPUTSIZE
  /\ Cardinality(Blanks(input)) < MAX_COMMAND_TOKENS
  /\ LET request  == Request(input)
         planning == is_planning_mode /\ request.kind # "doneplan"
         cb       == Planned(command_cb, request)
     IN  /\ ~Refuses(request)
         /\ request.kind = "mock" => request.argument \in Valid
         /\ is_planning_mode' = planning
         /\ IF planning
              THEN command_cb' = cb /\ executed' = <<>> /\ UNCHANGED stopped
              ELSE Flush(cb)
         /\ Shows(request)
  /\ input' = Empty /\ input_length' = 0 /\ left' = FALSE

\* The tokenizer writes command_tokens[MAX_COMMAND_TOKENS], behind the array.
Overruns == Cardinality(Blanks(input)) >= MAX_COMMAND_TOKENS

\* mock prints the name of a node that does not exist.
MocksNoNode == Request(input).kind = "mock" /\ Request(input).argument \notin Valid

\* Nothing is known of what comes after such a line.
EnterUndefined ==
  /\ stopped = "no" /\ input_length < TERMINALMAXINPUTSIZE
  /\ Overruns \/ MocksNoNode
  /\ stopped' = "undefined"
  /\ UNCHANGED <<input, input_length, is_planning_mode, command_cb, executed, shown, left>>

ShellNext ==
  \/ FullLine \/ Backspace \/ \E c \in Chars : Character(c)
  \/ EnterRefused \/ EnterAccepted \/ EnterUndefined

ShellSpec == ShellInit /\ [][ShellNext]_shell

-----------------------------------------------------------------------------
\* The commands that are executed are those the user saw at the prompt, in order, the
\* first MAX_PLANNED_COMMANDS of a plan; only a line after one that was refused may differ
\* from what is seen, because what is left of the other follows it.  Nothing stays planned
\* outside planning mode; and the text ends within input whenever Enter is taken.
RunsWhatIsSeen ==
  LET first == SubSeq(shown, 1, Min({Len(shown), MAX_PLANNED_COMMANDS}))
  IN  /\ is_planning_mode => command_cb = first
      /\ ~is_planning_mode => command_cb = <<>> /\ executed = Executed(first)
      /\ input_length < TERMINALMAXINPUTSIZE => input[TERMINALMAXINPUTSIZE] = NUL
=============================================================================
