-------------------------- MODULE HouseworkProofs --------------------------
(***************************************************************************)
(* The data file of the housework command, for any users, chores and       *)
(* numbers: work done alone is never lost silently, and a truncated file   *)
(* stays truncated.                                                        *)
(***************************************************************************)
EXTENDS HouseworkFile, TLAPS

-----------------------------------------------------------------------------
(* Lists                                                                   *)

LEMMA ExtendsItself == \A list \in List : Extends(list, list)
  BY DEF Extends, List

LEMMA ExtendsNothing == \A list \in List : Extends(list, <<>>)
  BY DEF Extends, List

\* New chores at the end keep the numbers of the others.
LEMMA AddExtends ==
    ASSUME NEW list \in List, NEW earlier \in List, Extends(list, earlier),
           NEW new \in Seq(Descriptions)
    PROVE  /\ list \o Unfinished(new) \in List
           /\ Extends(list \o Unfinished(new), earlier)
<1>1. Unfinished(new) \in Seq(Chore)
  <2>1. Len(new) \in Nat /\ DOMAIN new = 1..Len(new)
    OBVIOUS
  <2>2. \A i \in 1..Len(new) : new[i] \in Descriptions
    OBVIOUS
  <2>3. Unfinished(new) \in [1..Len(new) -> Chore]
    BY <2>1, <2>2 DEF Unfinished, Chore
  <2> QED
    BY <2>1, <2>3
<1>2. list \o Unfinished(new) \in List /\ Len(list \o Unfinished(new)) >= Len(list)
  BY <1>1 DEF List
<1>3. \A i \in DOMAIN list : (list \o Unfinished(new))[i] = list[i]
  BY <1>1 DEF List
<1> QED
  BY <1>2, <1>3 DEF Extends, List

\* Completing a chore changes nothing else of the list.
LEMMA CompleteExtends ==
    ASSUME NEW list \in List, NEW earlier \in List, Extends(list, earlier),
           NEW n \in DOMAIN list
    PROVE  /\ [list EXCEPT ![n].complete = TRUE] \in List
           /\ Extends([list EXCEPT ![n].complete = TRUE], earlier)
<1> DEFINE completed == [list EXCEPT ![n].complete = TRUE]
<1>1. list[n] \in Chore /\ DOMAIN list = 1..Len(list) /\ Len(list) \in Nat
  BY DEF List
<1>2. [list[n] EXCEPT !.complete = TRUE] \in Chore
  BY <1>1 DEF Chore
<1>3. completed \in List /\ Len(completed) = Len(list)
  BY <1>1, <1>2 DEF List
<1>4. \A i \in DOMAIN list :
          /\ completed[i].description = list[i].description
          /\ list[i].complete => completed[i].complete
  BY <1>1 DEF List, Chore
<1>5. DOMAIN earlier \subseteq DOMAIN list
  BY <1>1 DEF Extends, List
<1> QED
  BY <1>3, <1>4, <1>5 DEF Extends
\* A command's new chores are a sequence, whatever their bound.
LEMMA NewChores ==
    ASSUME NEW command \in Commands, command.name = "add"
    PROVE  /\ command.new \in Seq(Descriptions)
           /\ Len(command.new) \in 0..MaxChores
<1>1. command.new \in BoundedSeq(Descriptions, MaxChores)
  BY DEF Commands
<1>2. PICK m \in 0..MaxChores : command.new \in [1..m -> Descriptions]
  BY <1>1 DEF BoundedSeq, SeqOf
<1> QED
  BY <1>2, HouseworkAssumption

LEMMA ListIsCommand == [name |-> "list"] \in Commands
  BY DEF Commands

\* The list commands have no field that their name does not promise.
LEMMA FilesApart ==
    /\ Absent # Torn
    /\ \A list : Whole(list) # Absent /\ Whole(list) # Torn
    /\ \A list \in List : Whole(list) \in [kind : {"whole"}, list : List]
    /\ \A list : Whole(list).list = list /\ Whole(list).kind = "whole"
    /\ Absent.kind = "absent" /\ Torn.kind = "torn"
  BY DEF Absent, Torn, Whole

-----------------------------------------------------------------------------
(* Types                                                                   *)

LEMMA EmptyList == <<>> \in List
  BY DEF List

LEMMA HouseworkInit == Init => HouseworkInv
<1> SUFFICES ASSUME Init PROVE HouseworkInv
  OBVIOUS
<1>1. TypeOK
  BY EmptyList, ListIsCommand, HouseworkAssumption DEF Init, TypeOK
<1>2. AloneInv /\ MemoryInv
  BY DEF Init, AloneInv, MemoryInv
<1>3. WorkAloneIsKept
  BY FilesApart DEF Init, WorkAloneIsKept
<1> QED
  BY <1>1, <1>2, <1>3 DEF HouseworkInv

LEMMA ExitTypes ==
    ASSUME TypeOK, NEW u \in Users, Exit(u),
           safe' \in List, budget' = budget,
           file' \in {Absent, Torn} \union [kind : {"whole"}, list : List]
    PROVE  TypeOK'
  BY EmptyList, ListIsCommand DEF TypeOK, Exit

\* A command that ends, and takes nothing with it.
LEMMA ExitStep ==
    ASSUME HouseworkInv, NEW u \in Users, Exit(u), budget' = budget, safe' = safe,
           file' \in {file, Torn}, file' = file \/ Running(u)
    PROVE  HouseworkInv'
<1>1. TypeOK'
  BY ExitTypes DEF HouseworkInv, TypeOK
<1>2. /\ pc'[u] = "idle" /\ alone'[u] = FALSE
      /\ \A v \in Users \ {u} : pc'[v] = pc[v] /\ alone'[v] = alone[v] /\ mem'[v] = mem[v]
  BY DEF HouseworkInv, TypeOK, Exit
<1>3. AloneInv'
  <2> SUFFICES ASSUME NEW v \in Users, alone'[v]
               PROVE  /\ \A w \in Users : Running(w)' => w = v
                      /\ pc'[v] = "loaded" =>
                             \/ file'.kind = "whole" /\ mem'[v] = file'.list
                             \/ file' = Absent /\ mem'[v] = <<>>
    BY DEF AloneInv
  <2>1. v # u /\ alone[v]
    BY <1>2
  <2>2. ~Running(u)
    BY <2>1 DEF HouseworkInv, AloneInv
  <2>3. \A w \in Users : Running(w)' => Running(w)
    BY <1>2 DEF Running
  <2>4. file' = file
    BY <2>1, <2>2 DEF HouseworkInv, AloneInv, Running
  <2> QED
    BY <1>2, <2>1, <2>3, <2>4 DEF HouseworkInv, AloneInv
<1>4. MemoryInv'
  BY <1>2 DEF HouseworkInv, MemoryInv
<1>5. WorkAloneIsKept'
  BY FilesApart DEF HouseworkInv, WorkAloneIsKept
<1> QED
  BY <1>1, <1>3, <1>4, <1>5 DEF HouseworkInv

\* A running command goes on, with a list that has all of the safe one, and leaves
\* the file as it is.
LEMMA GoesOn ==
    ASSUME HouseworkInv, NEW u \in Users, NEW list \in List,
           Extends(list, safe), pc[u] # "idle",
           NEW next \in {"loaded", "changed"},
           mem' = [mem EXCEPT ![u] = list], pc' = [pc EXCEPT ![u] = next],
           UNCHANGED <<file, budget, cmd, history>>,
           next = "loaded" => \/ file.kind = "whole" /\ list = file.list
                              \/ file = Absent /\ list = <<>>
    PROVE  HouseworkInv'
<1>1. TypeOK'
  BY DEF HouseworkInv, TypeOK, history
<1>2. /\ pc'[u] = next /\ mem'[u] = list
      /\ \A v \in Users \ {u} : pc'[v] = pc[v] /\ mem'[v] = mem[v]
      /\ alone' = alone /\ safe' = safe /\ file' = file
  BY DEF HouseworkInv, TypeOK, history
<1>3. AloneInv'
  <2>1. \A w \in Users : Running(w)' => Running(w)
    BY <1>2 DEF Running
  <2> QED
    BY <1>2, <2>1 DEF HouseworkInv, AloneInv
<1>4. MemoryInv'
  BY <1>2 DEF HouseworkInv, MemoryInv
<1>5. WorkAloneIsKept'
  BY <1>2 DEF HouseworkInv, WorkAloneIsKept
<1> QED
  BY <1>1, <1>3, <1>4, <1>5 DEF HouseworkInv

-----------------------------------------------------------------------------
(* One lemma for each action                                               *)

LEMMA RunStep ==
    ASSUME HouseworkInv, NEW u \in Users, NEW command \in Commands, Run(u, command)
    PROVE  HouseworkInv'
<1>1. TypeOK'
  <2>1. budget' \in 0..MaxChores
    BY NewChores, HouseworkAssumption DEF HouseworkInv, TypeOK, Run
  <2> QED
    BY <2>1 DEF HouseworkInv, TypeOK, Run
<1>2. /\ pc'[u] = "loading"
      /\ \A v \in Users \ {u} : pc'[v] = pc[v]
      /\ \A v \in Users : alone'[v] => v = u /\ \A w \in Users : ~Running(w)
      /\ safe' = safe /\ file' = file /\ mem' = mem
  BY DEF HouseworkInv, TypeOK, Run
<1>3. AloneInv'
  BY <1>2 DEF AloneInv, Running
<1>4. MemoryInv'
  BY <1>2 DEF HouseworkInv, MemoryInv
<1>5. WorkAloneIsKept'
  BY <1>2 DEF HouseworkInv, WorkAloneIsKept
<1> QED
  BY <1>1, <1>3, <1>4, <1>5 DEF HouseworkInv

LEMMA LoadStep ==
    ASSUME HouseworkInv, NEW u \in Users, Load(u)
    PROVE  HouseworkInv'
<1> USE DEF HouseworkInv
<1>1. CASE file = Absent /\ Loaded(u, <<>>)
  <2>1. Extends(<<>>, safe)
    BY <1>1, ExtendsItself, EmptyList DEF WorkAloneIsKept
  <2> QED
    BY <1>1, <2>1, EmptyList, GoesOn DEF Load, Loaded
<1>2. CASE file.kind = "whole" /\ Loaded(u, file.list)
  <2>1. file.list \in List
    BY <1>2, FilesApart DEF TypeOK
  <2>2. Extends(file.list, safe)
    BY <1>2 DEF WorkAloneIsKept
  <2> QED
    BY <1>2, <2>1, <2>2, GoesOn DEF Load, Loaded
<1>3. CASE file = Torn /\ Abort(u) /\ UNCHANGED file
  BY <1>3, ExitStep DEF Abort
<1> QED
  BY <1>1, <1>2, <1>3 DEF Load

LEMMA AddStep ==
    ASSUME HouseworkInv, NEW u \in Users, Add(u)
    PROVE  HouseworkInv'
<1>1. pc[u] = "loaded" /\ cmd[u].name = "add"
  BY DEF Add
<1>2. cmd[u].new \in Seq(Descriptions)
  BY <1>1, NewChores DEF HouseworkInv, TypeOK
<1>3. mem[u] \in List /\ safe \in List /\ Extends(mem[u], safe)
  BY <1>1 DEF HouseworkInv, TypeOK, MemoryInv
<1> DEFINE list == mem[u] \o Unfinished(cmd[u].new)
<1>4. list \in List /\ Extends(list, safe)
  BY <1>2, <1>3, AddExtends
<1>5. Changed(u, list)
  BY DEF Add
<1> HIDE DEF list
<1> QED
  BY <1>1, <1>4, <1>5, GoesOn DEF Changed

LEMMA CompleteStep ==
    ASSUME HouseworkInv, NEW u \in Users, Complete(u)
    PROVE  HouseworkInv'
<1>1. pc[u] = "loaded"
  BY DEF Complete
<1>2. mem[u] \in List /\ safe \in List /\ Extends(mem[u], safe)
  BY <1>1 DEF HouseworkInv, TypeOK, MemoryInv
<1> DEFINE n == cmd[u].number
           list == [mem[u] EXCEPT ![n].complete = TRUE]
<1>3. CASE n \in DOMAIN mem[u] /\ Changed(u, list)
  <2>1. list \in List /\ Extends(list, safe)
    BY <1>2, <1>3, CompleteExtends
  <2> HIDE DEF list
  <2> QED
    BY <1>1, <1>3, <2>1, GoesOn DEF Changed
<1>4. CASE Abort(u) /\ UNCHANGED file
  BY <1>4, ExitStep DEF Abort
<1> QED
  BY <1>3, <1>4 DEF Complete

\* The file is rewritten, in two halves: no other command can be alone.
LEMMA CreateStep ==
    ASSUME HouseworkInv, NEW u \in Users, Create(u)
    PROVE  HouseworkInv'
<1>1. TypeOK'
  BY DEF HouseworkInv, TypeOK, Create, history
<1>2. /\ pc[u] = "changed" /\ pc'[u] = "created"
      /\ \A v \in Users \ {u} : pc'[v] = pc[v]
      /\ safe' = safe /\ alone' = alone /\ mem' = mem /\ file' = Torn
  BY DEF HouseworkInv, TypeOK, Create, history
<1>3. AloneInv'
  BY <1>2 DEF HouseworkInv, AloneInv, Running
<1>4. MemoryInv'
  BY <1>2 DEF HouseworkInv, MemoryInv
<1>5. WorkAloneIsKept'
  BY <1>2, FilesApart DEF WorkAloneIsKept
<1> QED
  BY <1>1, <1>3, <1>4, <1>5 DEF HouseworkInv

LEMMA WriteStep ==
    ASSUME HouseworkInv, NEW u \in Users, Write(u)
    PROVE  HouseworkInv'
<1>1. TypeOK'
  <2>1. Whole(mem[u]) \in [kind : {"whole"}, list : List]
    BY FilesApart DEF HouseworkInv, TypeOK
  <2> QED
    BY <2>1, ListIsCommand DEF HouseworkInv, TypeOK, Write, history
<1>2. /\ pc[u] = "created" /\ pc'[u] = "loading"
      /\ \A v \in Users \ {u} : pc'[v] = pc[v]
      /\ safe' = safe /\ alone' = alone /\ mem' = mem /\ file' = Whole(mem[u])
  BY DEF HouseworkInv, TypeOK, Write, history
<1>3. AloneInv'
  BY <1>2 DEF HouseworkInv, AloneInv, Running
<1>4. MemoryInv'
  BY <1>2 DEF HouseworkInv, MemoryInv
<1>5. WorkAloneIsKept'
  BY <1>2, FilesApart DEF HouseworkInv, MemoryInv, WorkAloneIsKept
<1> QED
  BY <1>1, <1>3, <1>4, <1>5 DEF HouseworkInv

\* Only the end of a command that was alone changes the safe list, to what the file
\* holds; nobody else is running then.
LEMMA EndStep ==
    ASSUME HouseworkInv, NEW u \in Users, End(u)
    PROVE  HouseworkInv'
<1>1. CASE alone[u]
  <2>1. safe' = mem[u] /\ mem[u] \in List /\ file' = file
    BY <1>1 DEF HouseworkInv, TypeOK, End
  <2>2. TypeOK'
    BY <2>1, ExitTypes DEF HouseworkInv, TypeOK, End
  <2>3. \A v \in Users : ~Running(v)' /\ ~alone'[v]
    BY <1>1 DEF HouseworkInv, TypeOK, AloneInv, End, Exit, Running
  <2>4. AloneInv' /\ MemoryInv'
    BY <2>3 DEF AloneInv, MemoryInv, Running
  <2>5. WorkAloneIsKept'
    <3>1. \/ file.kind = "whole" /\ mem[u] = file.list
          \/ file = Absent /\ mem[u] = <<>>
      BY <1>1 DEF HouseworkInv, AloneInv, End
    <3> QED
      BY <2>1, <3>1, FilesApart, ExtendsItself DEF WorkAloneIsKept
  <2> QED
    BY <2>2, <2>4, <2>5 DEF HouseworkInv
<1>2. CASE ~alone[u]
  BY <1>2, ExitStep DEF End
<1> QED
  BY <1>1, <1>2

LEMMA HouseworkStep == HouseworkInv /\ [Next]_vars => HouseworkInv'
<1> SUFFICES ASSUME HouseworkInv, [Next]_vars
             PROVE  HouseworkInv'
  OBVIOUS
<1>1. ASSUME NEW u \in Users, NEW command \in Commands, Run(u, command)
      PROVE  HouseworkInv'
  BY <1>1, RunStep
<1>2. ASSUME NEW u \in Users, Load(u)
      PROVE  HouseworkInv'
  BY <1>2, LoadStep
<1>3. ASSUME NEW u \in Users, Add(u)
      PROVE  HouseworkInv'
  BY <1>3, AddStep
<1>4. ASSUME NEW u \in Users, Complete(u)
      PROVE  HouseworkInv'
  BY <1>4, CompleteStep
<1>5. ASSUME NEW u \in Users, Create(u)
      PROVE  HouseworkInv'
  BY <1>5, CreateStep
<1>6. ASSUME NEW u \in Users, Write(u)
      PROVE  HouseworkInv'
  BY <1>6, WriteStep
<1>7. ASSUME NEW u \in Users, WriteFails(u)
      PROVE  HouseworkInv'
  BY <1>7, ExitStep DEF WriteFails, Abort, Running
<1>8. ASSUME NEW u \in Users, End(u)
      PROVE  HouseworkInv'
  BY <1>8, EndStep
<1>9. ASSUME NEW u \in Users, Kill(u)
      PROVE  HouseworkInv'
  BY <1>9, ExitStep DEF Kill, Abort
<1>10. CASE UNCHANGED vars
  <2>1. UNCHANGED <<file, budget, pc, cmd, mem, alone, safe>>
    BY <1>10 DEF vars, procVars, history
  <2>2. TypeOK' /\ AloneInv' /\ MemoryInv' /\ WorkAloneIsKept'
    BY <2>1 DEF HouseworkInv, TypeOK, AloneInv, MemoryInv, WorkAloneIsKept, Running
  <2> QED
    BY <2>2 DEF HouseworkInv
<1> QED
  BY <1>1, <1>2, <1>3, <1>4, <1>5, <1>6, <1>7, <1>8, <1>9, <1>10 DEF Next

-----------------------------------------------------------------------------
(* The theorems                                                            *)

\* The inductive invariant: the types, what a command that is alone sees, and that
\* whatever is in a command's memory or in the file has the safe list's chores.
THEOREM HouseworkInvariant == Spec => []HouseworkInv
  BY HouseworkInit, HouseworkStep, PTL DEF Spec

\* For any number of users and any chores: no command stores anything but a list
\* of chores (housework.go).
THEOREM HouseworkTypes == Spec => []TypeOK
<1>1. HouseworkInv => TypeOK
  BY DEF HouseworkInv
<1> QED
  BY <1>1, HouseworkInvariant, PTL

\* What a command did while no other ran is in the file or the file cannot be read,
\* through overlapping commands, kills and failing writes (load and flush of
\* cmd/housework.go).
THEOREM WorkAloneSurvives == Spec => []WorkAloneIsKept
<1>1. HouseworkInv => WorkAloneIsKept
  BY DEF HouseworkInv
<1> QED
  BY <1>1, HouseworkInvariant, PTL

\* The end of a command leaves a stuck file stuck.
LEMMA ExitStuck ==
    ASSUME TypeOK, Stuck, NEW u \in Users, Exit(u), file' = file
    PROVE  Stuck'
  BY DEF TypeOK, Stuck, Exit

LEMMA StuckStep == HouseworkInv /\ Stuck /\ [Next]_vars => Stuck'
<1> SUFFICES ASSUME TypeOK, Stuck, [Next]_vars
             PROVE  Stuck'
  BY DEF HouseworkInv
<1>1. ASSUME NEW u \in Users, NEW command \in Commands, Run(u, command)
      PROVE  Stuck'
  BY <1>1 DEF TypeOK, Stuck, Run
<1>2. ASSUME NEW u \in Users, Load(u)
      PROVE  Stuck'
  <2>1. Exit(u) /\ file' = file
    BY <1>2, FilesApart DEF Stuck, Load, Abort
  <2> QED
    BY <2>1, ExitStuck
<1>3. ASSUME NEW u \in Users,
             Add(u) \/ Complete(u) \/ Create(u) \/ Write(u) \/ WriteFails(u) \/ End(u)
      PROVE  FALSE
  BY <1>3 DEF Stuck, Add, Complete, Create, Write, WriteFails, End
<1>4. ASSUME NEW u \in Users, Kill(u)
      PROVE  Stuck'
  BY <1>4, ExitStuck DEF Kill, Abort
<1>5. CASE UNCHANGED vars
  BY <1>5 DEF vars, procVars, Stuck
<1> QED
  BY <1>1, <1>2, <1>3, <1>4, <1>5 DEF Next

\* A truncated file that nobody is writing is neither repaired nor replaced by any
\* later command (load fails on it, and only load comes before flush).
THEOREM TornFilesStay == Spec => TruncatedForGood
<1>1. HouseworkInv /\ [Next]_vars => [Stuck => Stuck']_vars
  BY StuckStep
<1> QED
  BY <1>1, HouseworkInvariant, PTL DEF Spec, TruncatedForGood
=============================================================================
