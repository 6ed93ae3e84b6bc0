--------------------------- MODULE HouseworkFile ---------------------------
(***************************************************************************)
(* The command-line housework list of ch12/cmd: every command loads the    *)
(* list from the data file, changes it, truncates the file, writes the     *)
(* whole list back and loads it again to print it. Nothing locks the file, *)
(* and a command may be killed, or its write may fail, after the file has  *)
(* been truncated. The storage is the one the program imports, json: it    *)
(* decodes the first value of the file and fails on an empty one.          *)
(*                                                                         *)
(* A read or a write of the file is one step: lists fit in one buffer.     *)
(***************************************************************************)
EXTENDS Integers, Sequences, SequencesExt

CONSTANTS
    Users,          \* terminals, each running at most one command
    Descriptions,   \* what a chore can be
    Numbers,        \* what a user can type after "complete"
    MaxChores       \* bound: chores that users ever try to add

ASSUME HouseworkAssumption ==
    /\ Numbers \subseteq Int
    /\ MaxChores \in Nat

VARIABLES
    file,       \* the data file
    budget,     \* chores that may still be added, see MaxChores
    pc,         \* where the command of a user is
    cmd,        \* what it still has to do
    mem,        \* the list it loaded, then changed
    alone,      \* history: whether no other command ran while it did
    safe        \* history: the list printed by the last command that ran alone

procVars == <<pc, cmd, mem>>
history == <<alone, safe>>
vars == <<file, budget, procVars, history>>

Chore == [description : Descriptions, complete : BOOLEAN]
List == Seq(Chore)
Commands ==
    [name : {"add"}, new : BoundedSeq(Descriptions, MaxChores)]
        \union [name : {"complete"}, number : Numbers]
        \union {[name |-> "list"]}

Absent == [kind |-> "absent"]
Torn == [kind |-> "torn"]               \* truncated: decoding it fails
Whole(list) == [kind |-> "whole", list |-> list]

Running(u) == pc[u] # "idle"

Init ==
    /\ file = Absent
    /\ budget = MaxChores
    /\ pc = [u \in Users |-> "idle"]
    /\ cmd = [u \in Users |-> [name |-> "list"]]
    /\ mem = [u \in Users |-> <<>>]
    /\ alone = [u \in Users |-> FALSE]
    /\ safe = <<>>

\* main: a user starts a command.
Run(u, command) ==
    /\ ~Running(u)
    /\ \/ command.name # "add" /\ UNCHANGED budget
       \/ /\ command.name = "add"
          /\ Len(command.new) <= budget
          /\ budget' = budget - Len(command.new)
    /\ cmd' = [cmd EXCEPT ![u] = command]
    /\ pc' = [pc EXCEPT ![u] = "loading"]
    /\ alone' = [v \in Users |-> v = u /\ ~\E w \in Users : Running(w)]
    /\ UNCHANGED <<file, mem, safe>>

Exit(u) ==
    /\ pc' = [pc EXCEPT ![u] = "idle"]
    /\ cmd' = [cmd EXCEPT ![u] = [name |-> "list"]]
    /\ mem' = [mem EXCEPT ![u] = <<>>]
    /\ alone' = [alone EXCEPT ![u] = FALSE]

\* log.Fatal, or the user's Ctrl-C.
Abort(u) == Exit(u) /\ UNCHANGED <<budget, safe>>

Loaded(u, list) ==
    /\ mem' = [mem EXCEPT ![u] = list]
    /\ pc' = [pc EXCEPT ![u] = "loaded"]
    /\ UNCHANGED <<file, budget, cmd, history>>

\* An operator named after the one it precedes is that one with a mistake in it,
\* to show what a property would catch; the specification does not use it.
LoadLenient(u) ==
    /\ pc[u] = "loading"
    /\ Loaded(u, IF file.kind = "whole" THEN file.list ELSE <<>>)

\* load: no file is an empty list, a file that cannot be decoded is an error.
Load(u) ==
    /\ pc[u] = "loading"
    /\ \/ file = Absent /\ Loaded(u, <<>>)
       \/ file.kind = "whole" /\ Loaded(u, file.list)
       \/ file = Torn /\ Abort(u) /\ UNCHANGED file

Unfinished(descriptions) ==
    [i \in DOMAIN descriptions |->
        [description |-> descriptions[i], complete |-> FALSE]]

Changed(u, list) ==
    /\ mem' = [mem EXCEPT ![u] = list]
    /\ pc' = [pc EXCEPT ![u] = "changed"]
    /\ UNCHANGED <<file, budget, cmd, history>>

AddInFront(u) ==
    /\ pc[u] = "loaded" /\ cmd[u].name = "add"
    /\ Changed(u, Unfinished(cmd[u].new) \o mem[u])

\* add, between load and flush.
Add(u) ==
    /\ pc[u] = "loaded" /\ cmd[u].name = "add"
    /\ Changed(u, mem[u] \o Unfinished(cmd[u].new))

\* complete, between load and flush: an unknown number is an error.
Complete(u) ==
    /\ pc[u] = "loaded" /\ cmd[u].name = "complete"
    /\ LET number == cmd[u].number
       IN \/ /\ number \in DOMAIN mem[u]
             /\ Changed(u, [mem[u] EXCEPT ![number].complete = TRUE])
          \/ /\ number \notin DOMAIN mem[u]
             /\ Abort(u) /\ UNCHANGED file

\* flush, first half: os.Create makes the file or truncates it.
Create(u) ==
    /\ pc[u] = "changed"
    /\ file' = Torn
    /\ pc' = [pc EXCEPT ![u] = "created"]
    /\ UNCHANGED <<budget, cmd, mem, history>>

\* flush, second half: the list is written from the start of the file, over what
\* another command may have written there; main goes on to list.
Write(u) ==
    /\ pc[u] = "created"
    /\ file' = Whole(mem[u])
    /\ pc' = [pc EXCEPT ![u] = "loading"]
    /\ cmd' = [cmd EXCEPT ![u] = [name |-> "list"]]
    /\ UNCHANGED <<budget, mem, history>>

\* The write fails, with or without some bytes written.
WriteFails(u) ==
    /\ pc[u] = "created"
    /\ file' \in {file, Torn}
    /\ Abort(u)

\* list has printed what it loaded and the command ends.
End(u) ==
    /\ pc[u] = "loaded" /\ cmd[u].name = "list"
    /\ safe' = IF alone[u] THEN mem[u] ELSE safe
    /\ Exit(u)
    /\ UNCHANGED <<file, budget>>

Kill(u) == Running(u) /\ Abort(u) /\ UNCHANGED file

Next ==
    \E u \in Users :
        \/ \E command \in Commands : Run(u, command)
        \/ Load(u) \/ Add(u) \/ Complete(u) \/ Create(u)
        \/ Write(u) \/ WriteFails(u) \/ End(u) \/ Kill(u)

Spec == Init /\ [][Next]_vars

-----------------------------------------------------------------------------
(* Properties                                                              *)

\* Every variable has its type: no command stores a chore outside the list.
TypeOK ==
    /\ file \in {Absent, Torn} \union [kind : {"whole"}, list : List]
    /\ budget \in 0..MaxChores
    /\ pc \in [Users -> {"idle", "loading", "loaded", "changed", "created"}]
    /\ cmd \in [Users -> Commands]
    /\ mem \in [Users -> List]
    /\ alone \in [Users -> BOOLEAN]
    /\ safe \in List

\* list has the chores of earlier, at their numbers, and what was complete is.
Extends(list, earlier) ==
    /\ Len(earlier) <= Len(list)
    /\ \A i \in DOMAIN earlier :
        /\ list[i].description = earlier[i].description
        /\ earlier[i].complete => list[i].complete

\* What a command did while no other ran is never lost silently: whatever runs
\* at the same time later, is killed or fails to write, the file holds it, at the
\* same numbers, or cannot be read. (Commands that overlap do lose updates.)
WorkAloneIsKept ==
    /\ file.kind = "whole" => Extends(file.list, safe)
    /\ file = Absent => safe = <<>>

(* The inductive invariant behind it (HouseworkProofs.tla)                 *)

\* A command that is alone so far has nobody running beside it, and once it has
\* loaded to list, what it will print is what the file holds.
AloneInv ==
    \A u \in Users : alone[u] =>
        /\ \A v \in Users : Running(v) => v = u
        /\ pc[u] = "loaded" =>
               \/ file.kind = "whole" /\ mem[u] = file.list
               \/ file = Absent /\ mem[u] = <<>>

\* What a command will write back has the safe list's chores too, however long ago
\* it was loaded.
MemoryInv ==
    \A u \in Users :
        pc[u] \in {"loaded", "changed", "created"} => Extends(mem[u], safe)

HouseworkInv == TypeOK /\ AloneInv /\ MemoryInv /\ WorkAloneIsKept

\* Nobody is left who will write the truncated file.
Stuck ==
    /\ file = Torn
    /\ \A u \in Users : pc[u] \in {"idle", "loading"}

\* A truncated file that nobody is writing any more stays as it is: no later
\* command repairs it, and none replaces it by a list without the old chores.
TruncatedForGood == [][Stuck => Stuck']_vars
=============================================================================
