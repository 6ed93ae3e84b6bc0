----------------------------- MODULE RosieProofs -----------------------------
(***************************************************************************)
(* The housework service, for any clients, chores and numbers, any width   *)
(* of a number and any number of chores: replies, which are marshalled     *)
(* outside the mutex, are fresh, a client reads what it wrote, and chores  *)
(* keep their numbers.                                                     *)
(***************************************************************************)
EXTENDS Rosie, TLAPS

-----------------------------------------------------------------------------
(* Numbers                                                                 *)

\* A remainder of a number in range is the number.
LEMMA SmallRemainder ==
    ASSUME NEW m \in Nat \ {0}, NEW n \in 0..(m - 1)
    PROVE  n % m = n
  OBVIOUS

\* int32(i) keeps a number that is in range.
LEMMA Int32Keeps ==
    ASSUME NEW i \in Int, InRange(i)
    PROVE  Int32(i) = i
<1> DEFINE half == IntMod \div 2
<1>1. IntMod \in Nat \ {0} /\ half \in Nat /\ 2 * half <= IntMod
  BY RosieAssumption
<1>2. i + half \in 0..(IntMod - 1)
  BY <1>1 DEF InRange
<1>3. (i + half) % IntMod = i + half
  BY <1>1, <1>2, SmallRemainder
<1> QED
  BY <1>1, <1>3 DEF Int32

-----------------------------------------------------------------------------
(* Lists                                                                   *)

LEMMA ExtendsItself == \A list \in Seq(Chore) : Extends(list, list)
  BY DEF Extends

LEMMA ExtendsNothing == \A list \in Seq(Chore) : Extends(list, <<>>)
  BY DEF Extends

LEMMA ExtendsFurther ==
    ASSUME NEW a \in Seq(Chore), NEW b \in Seq(Chore), NEW c \in Seq(Chore),
           Extends(b, a), Extends(c, b)
    PROVE  Extends(c, a)
<1>1. DOMAIN a \subseteq DOMAIN b
  BY DEF Extends
<1> QED
  BY <1>1 DEF Extends

\* New chores at the end keep the numbers of the others, and are there in one piece.
LEMMA AddExtends ==
    ASSUME NEW list \in Seq(Chore), NEW new \in Seq(Descriptions)
    PROVE  /\ list \o Unfinished(new) \in Seq(Chore)
           /\ Len(list \o Unfinished(new)) = Len(list) + Len(new)
           /\ Extends(list \o Unfinished(new), list)
           /\ \A i \in DOMAIN new :
                  /\ Len(list) + i \in DOMAIN (list \o Unfinished(new))
                  /\ (list \o Unfinished(new))[Len(list) + i].description = new[i]
<1>1. Len(new) \in Nat /\ DOMAIN new = 1..Len(new) /\ \A i \in 1..Len(new) : new[i] \in Descriptions
  OBVIOUS
<1>2. Unfinished(new) \in [1..Len(new) -> Chore]
  BY <1>1 DEF Unfinished, Chore
<1>3. Unfinished(new) \in Seq(Chore) /\ Len(Unfinished(new)) = Len(new)
  BY <1>1, <1>2
<1>4. /\ list \o Unfinished(new) \in Seq(Chore)
      /\ Len(list \o Unfinished(new)) = Len(list) + Len(new)
      /\ \A i \in DOMAIN list : (list \o Unfinished(new))[i] = list[i]
      /\ \A i \in 1..Len(new) :
             (list \o Unfinished(new))[Len(list) + i] = Unfinished(new)[i]
  BY <1>1, <1>3
<1>5. \A i \in DOMAIN new : Unfinished(new)[i].description = new[i]
  BY DEF Unfinished
<1> HIDE DEF Unfinished
<1>6. Extends(list \o Unfinished(new), list)
  BY <1>1, <1>4 DEF Extends
<1> QED
  BY <1>1, <1>4, <1>5, <1>6

\* As many sizes as chores.
LEMMA AddUnsized ==
    ASSUME NEW sizes \in Seq(BOOLEAN), NEW new \in Seq(Descriptions)
    PROVE  /\ sizes \o Unsized(new) \in Seq(BOOLEAN)
           /\ Len(sizes \o Unsized(new)) = Len(sizes) + Len(new)
<1>1. Len(new) \in Nat /\ DOMAIN new = 1..Len(new)
  OBVIOUS
<1>2. Unsized(new) \in [1..Len(new) -> BOOLEAN]
  BY <1>1 DEF Unsized
<1>3. Unsized(new) \in Seq(BOOLEAN) /\ Len(Unsized(new)) = Len(new)
  BY <1>1, <1>2
<1> QED
  BY <1>1, <1>3

LEMMA SetSize ==
    ASSUME NEW sizes \in Seq(BOOLEAN), NEW i \in DOMAIN sizes, NEW b \in BOOLEAN
    PROVE  /\ [sizes EXCEPT ![i] = b] \in Seq(BOOLEAN)
           /\ Len([sizes EXCEPT ![i] = b]) = Len(sizes)
<1>1. Len(sizes) \in Nat /\ sizes \in [1..Len(sizes) -> BOOLEAN]
  OBVIOUS
<1>2. [sizes EXCEPT ![i] = b] \in [1..Len(sizes) -> BOOLEAN]
  BY <1>1
<1> QED
  BY <1>1, <1>2

\* Completing a chore changes nothing else of the list.
LEMMA CompleteExtends ==
    ASSUME NEW list \in Seq(Chore), NEW n \in DOMAIN list
    PROVE  /\ [list EXCEPT ![n].complete = TRUE] \in Seq(Chore)
           /\ Len([list EXCEPT ![n].complete = TRUE]) = Len(list)
           /\ Extends([list EXCEPT ![n].complete = TRUE], list)
           /\ [list EXCEPT ![n].complete = TRUE][n].complete
<1> DEFINE completed == [list EXCEPT ![n].complete = TRUE]
<1>1. list[n] \in Chore /\ DOMAIN list = 1..Len(list) /\ Len(list) \in Nat
  OBVIOUS
<1>2. [list[n] EXCEPT !.complete = TRUE] \in Chore
  BY <1>1 DEF Chore
<1>3. completed \in Seq(Chore) /\ Len(completed) = Len(list)
  BY <1>1, <1>2
<1>4. \A i \in DOMAIN list :
          /\ completed[i].description = list[i].description
          /\ list[i].complete => completed[i].complete
  BY <1>1 DEF Chore
<1>5. completed[n].complete
  BY <1>1 DEF Chore
<1> QED
  BY <1>3, <1>4, <1>5 DEF Extends

\* A later list shows what an earlier one did.
LEMMA ShowsLater ==
    ASSUME NEW a \in Seq(Chore), NEW b \in Seq(Chore), Extends(b, a),
           NEW command \in Commands, Shows(a, command)
    PROVE  Shows(b, command)
<1>1. DOMAIN a \subseteq DOMAIN b /\ Len(a) \in Nat /\ Len(b) \in Nat /\ Len(a) <= Len(b)
  BY DEF Extends
<1>2. ASSUME command.name = "add"
      PROVE  \E k \in 0..Len(b) : \A i \in DOMAIN command.new :
                 k + i \in DOMAIN b /\ b[k + i].description = command.new[i]
  <2>1. PICK k \in 0..Len(a) : \A i \in DOMAIN command.new :
                 k + i \in DOMAIN a /\ a[k + i].description = command.new[i]
    BY <1>2 DEF Shows
  <2>2. \A i \in DOMAIN command.new :
                 k + i \in DOMAIN b /\ b[k + i].description = command.new[i]
    BY <1>1, <2>1 DEF Extends
  <2>3. k \in 0..Len(b)
    BY <1>1
  <2> QED
    BY <2>2, <2>3
<1>3. ASSUME command.name = "complete", InRange(command.number)
      PROVE  command.number \in DOMAIN b /\ b[command.number].complete
  BY <1>1, <1>3 DEF Shows, Extends
<1> QED
  BY <1>2, <1>3 DEF Shows
\* A command's new chores are a sequence, whatever their bound.
LEMMA NewChores ==
    ASSUME NEW command \in Commands, command.name = "add"
    PROVE  /\ command.new \in Seq(Descriptions)
           /\ Len(command.new) \in 0..MaxChores
<1>1. command.new \in BoundedSeq(Descriptions, MaxChores)
  BY DEF Commands
<1>2. PICK m \in 0..MaxChores : command.new \in [1..m -> Descriptions]
  BY <1>1 DEF BoundedSeq, SeqOf
<1> QED
  BY <1>2, RosieAssumption

LEMMA NumberIsInt ==
    ASSUME NEW command \in Commands, command.name = "complete"
    PROVE  command.number \in Int
<1>1. command.number \in Numbers
  BY DEF Commands
<1> QED
  BY <1>1, RosieAssumption

LEMMA ListIsCommand == [name |-> "list"] \in Commands
  BY DEF Commands

\* Nothing has to be shown for a command that only lists.
LEMMA ShowsNothing ==
    ASSUME NEW list, NEW command, command.name = "list"
    PROVE  Shows(list, command)
  BY DEF Shows

-----------------------------------------------------------------------------
(* The invariant, step by step                                             *)

\* Commands are one of three.
LEMMA CommandNames == \A command \in Commands : command.name \in {"add", "complete", "list"}
  BY DEF Commands

LEMMA RosieInit == Init => RosieInv
<1> SUFFICES ASSUME Init PROVE RosieInv
  OBVIOUS
<1>1. TypeOK
  BY ListIsCommand, RosieAssumption DEF Init, TypeOK
<1>2. CallInv /\ SliceInv /\ ReplyIsFresh /\ EffectInv
  BY DEF Init, CallInv, SliceInv, ReplyIsFresh, EffectInv, Extends
<1> QED
  BY <1>1, <1>2 DEF RosieInv

\* A client ends, after its last reply or on an error.
LEMMA ExitStep ==
    ASSUME RosieInv, NEW c \in Clients, Exit(c), UNCHANGED <<chores, budget, sizeCache>>,
           mu' \in Clients \union {NoOne}
    PROVE  RosieInv'
<1>1. TypeOK'
  BY ListIsCommand DEF RosieInv, TypeOK, Exit
<1>2. /\ pc'[c] = "idle" /\ listed'[c] = <<>> /\ reply'[c] = <<>>
      /\ \A d \in Clients \ {c} :
             pc'[d] = pc[d] /\ cmd'[d] = cmd[d] /\ listed'[d] = listed[d] /\ reply'[d] = reply[d]
      /\ chores' = chores
  BY DEF RosieInv, TypeOK, Exit
<1>3. CallInv'
  BY <1>2 DEF RosieInv, CallInv
<1>4. SliceInv'
  BY <1>2, ExtendsNothing DEF RosieInv, TypeOK, SliceInv
<1>5. ReplyIsFresh'
  BY <1>2 DEF RosieInv, ReplyIsFresh
<1>6. EffectInv'
  BY <1>2 DEF RosieInv, EffectInv
<1> QED
  BY <1>1, <1>3, <1>4, <1>5, <1>6 DEF RosieInv

\* A method changes the list: what was in it stays, the command's effect is added,
\* and the slices and replies that are out remain as they are.
LEMMA ChoresGrow ==
    ASSUME RosieInv, NEW c \in Clients, pc[c] \in {"add", "complete"},
           chores' \in Seq(Chore), Extends(chores', chores), Shows(chores', cmd[c]),
           sizeCache' \in Seq(BOOLEAN), Len(sizeCache') = Len(chores'),
           mu' = NoOne, pc' = [pc EXCEPT ![c] = "list"], UNCHANGED <<budget, callVars>>
    PROVE  RosieInv'
<1>1. TypeOK'
  BY DEF RosieInv, TypeOK, callVars
<1>2. /\ pc'[c] = "list" /\ \A d \in Clients \ {c} : pc'[d] = pc[d]
      /\ cmd' = cmd /\ listed' = listed /\ reply' = reply
      /\ chores \in Seq(Chore)
      /\ \A d \in Clients : listed[d] \in Seq(Chore) /\ reply[d] \in Seq(Chore) /\ cmd[d] \in Commands
  BY DEF RosieInv, TypeOK, callVars
<1>3. CallInv'
  BY <1>2 DEF RosieInv, CallInv
<1>4. SliceInv'
  BY <1>2, ExtendsFurther DEF RosieInv, SliceInv
<1>5. ReplyIsFresh'
  <2> SUFFICES ASSUME NEW d \in Clients, NEW i \in DOMAIN reply[d], reply[d][i].complete
               PROVE  chores'[i].complete
    BY <1>2 DEF RosieInv, ReplyIsFresh
  <2>1. Len(reply[d]) <= Len(chores)
    <3>1. Len(reply[d]) <= Len(listed[d])
      BY DEF RosieInv, ReplyIsFresh
    <3>2. Len(listed[d]) <= Len(chores)
      BY DEF RosieInv, SliceInv, Extends
    <3> QED
      BY <1>2, <3>1, <3>2
  <2>2. i \in DOMAIN chores /\ chores[i].complete
    BY <1>2, <2>1 DEF RosieInv, ReplyIsFresh
  <2> QED
    BY <2>2 DEF Extends
<1>6. EffectInv'
  <2> SUFFICES ASSUME NEW d \in Clients
               PROVE  /\ pc'[d] = "list" => Shows(chores', cmd[d])
                      /\ pc'[d] \in {"sizing", "marshalling", "printed", "unreadable"} =>
                             Shows(listed[d], cmd[d])
    BY <1>2 DEF EffectInv
  <2>1. CASE d = c
    BY <1>2, <2>1
  <2>2. CASE d # c
    BY <1>2, <2>2, ShowsLater DEF RosieInv, EffectInv
  <2> QED
    BY <2>1, <2>2
<1> QED
  BY <1>1, <1>3, <1>4, <1>5, <1>6 DEF RosieInv

LEMMA RunStep ==
    ASSUME RosieInv, NEW c \in Clients, NEW command \in Commands, Run(c, command)
    PROVE  RosieInv'
<1>1. budget' \in 0..MaxChores
  BY NewChores, RosieAssumption DEF RosieInv, TypeOK, Run
<1>2. TypeOK'
  BY <1>1, CommandNames DEF RosieInv, TypeOK, Run
<1>3. /\ pc[c] = "idle" /\ pc'[c] = command.name /\ cmd'[c] = command
      /\ \A d \in Clients \ {c} : pc'[d] = pc[d] /\ cmd'[d] = cmd[d]
      /\ listed' = listed /\ reply' = reply /\ chores' = chores
  BY DEF RosieInv, TypeOK, Run
<1>4. command.name \in {"add", "complete", "list"}
  BY CommandNames
<1>5. CallInv'
  BY <1>3, <1>4 DEF RosieInv, CallInv
<1>6. SliceInv' /\ ReplyIsFresh'
  BY <1>3 DEF RosieInv, SliceInv, ReplyIsFresh
<1>7. EffectInv'
  BY <1>3, <1>4, ShowsNothing DEF RosieInv, EffectInv
<1> QED
  BY <1>2, <1>5, <1>6, <1>7 DEF RosieInv

LEMMA LockStep ==
    ASSUME RosieInv, NEW c \in Clients, Lock(c)
    PROVE  RosieInv'
<1>1. UNCHANGED <<chores, budget, pc, cmd, listed, sized, reply, intact, sizeCache>>
      /\ mu' = c
  BY DEF Lock, callVars
<1>2. TypeOK'
  BY <1>1 DEF RosieInv, TypeOK
<1>3. CallInv' /\ SliceInv' /\ ReplyIsFresh' /\ EffectInv'
  BY <1>1 DEF RosieInv, CallInv, SliceInv, ReplyIsFresh, EffectInv
<1> QED
  BY <1>2, <1>3 DEF RosieInv

LEMMA AddStep ==
    ASSUME RosieInv, NEW c \in Clients, Add(c)
    PROVE  RosieInv'
<1> DEFINE new == cmd[c].new
           list == chores \o Unfinished(new)
<1>1. /\ pc[c] = "add" /\ cmd[c] \in Commands /\ cmd[c].name = "add"
      /\ chores \in Seq(Chore) /\ sizeCache \in Seq(BOOLEAN) /\ Len(sizeCache) = Len(chores)
  BY DEF Add, RosieInv, TypeOK, CallInv
<1>2. new \in Seq(Descriptions)
  BY <1>1, NewChores
<1>3. /\ list \in Seq(Chore) /\ Len(list) = Len(chores) + Len(new) /\ Extends(list, chores)
      /\ \A i \in DOMAIN new :
             Len(chores) + i \in DOMAIN list /\ list[Len(chores) + i].description = new[i]
  BY <1>1, <1>2, AddExtends
<1>4. chores' = list /\ sizeCache' = sizeCache \o Unsized(new)
  BY DEF Add
<1> HIDE DEF list
<1>5. Len(chores) \in 0..Len(list)
  BY <1>1, <1>3 DEF Extends
<1>6. Shows(list, cmd[c])
  BY <1>1, <1>3, <1>5 DEF Shows
<1>7. sizeCache' \in Seq(BOOLEAN) /\ Len(sizeCache') = Len(chores')
  BY <1>1, <1>2, <1>3, <1>4, AddUnsized
<1> QED
  BY <1>1, <1>3, <1>4, <1>6, <1>7, ChoresGrow DEF Add

LEMMA CompleteStep ==
    ASSUME RosieInv, NEW c \in Clients, Complete(c)
    PROVE  RosieInv'
<1> DEFINE n == Int32(cmd[c].number)
           list == [chores EXCEPT ![n].complete = TRUE]
<1>1. /\ pc[c] = "complete" /\ cmd[c] \in Commands /\ cmd[c].name = "complete"
      /\ chores \in Seq(Chore) /\ sizeCache \in Seq(BOOLEAN) /\ Len(sizeCache) = Len(chores)
      /\ mu' = NoOne /\ UNCHANGED <<budget, sizeCache>>
  BY DEF Complete, RosieInv, TypeOK, CallInv
<1>2. CASE n \in DOMAIN chores /\ Finish(c, n)
  <2>1. /\ list \in Seq(Chore) /\ Len(list) = Len(chores) /\ Extends(list, chores)
        /\ list[n].complete
    BY <1>1, <1>2, CompleteExtends
  <2>2. chores' = list
    BY <1>2 DEF Finish
  <2>3. InRange(cmd[c].number) => cmd[c].number = n
    BY <1>1, NumberIsInt, Int32Keeps
  <2>4. n \in DOMAIN list
    BY <1>2, <1>1, <2>1
  <2> HIDE DEF n, list
  <2>5. Shows(list, cmd[c])
    BY <1>1, <2>1, <2>3, <2>4 DEF Shows
  <2> QED
    BY <1>1, <1>2, <2>1, <2>2, <2>5, ChoresGrow DEF Finish
<1>3. CASE n \notin DOMAIN chores /\ Refuse(c)
  BY <1>1, <1>3, ExitStep DEF Refuse
<1> QED
  BY <1>2, <1>3 DEF Complete

LEMMA ListStep ==
    ASSUME RosieInv, NEW c \in Clients, List(c)
    PROVE  RosieInv'
<1>1. TypeOK'
  BY DEF RosieInv, TypeOK, List
<1>2. /\ pc[c] = "list" /\ pc'[c] = "sizing" /\ listed'[c] = chores /\ reply[c] = <<>>
      /\ \A d \in Clients \ {c} : pc'[d] = pc[d] /\ listed'[d] = listed[d]
      /\ cmd' = cmd /\ reply' = reply /\ chores' = chores /\ chores \in Seq(Chore)
  BY DEF RosieInv, TypeOK, CallInv, List
<1>3. CallInv'
  BY <1>2 DEF RosieInv, CallInv
<1>4. SliceInv'
  BY <1>2, ExtendsItself DEF RosieInv, SliceInv
<1>5. ReplyIsFresh'
  <2>1. Len(chores) >= 0 /\ Len(reply[c]) = 0 /\ DOMAIN reply[c] = {}
    BY <1>2
  <2> QED
    BY <1>2, <2>1 DEF RosieInv, ReplyIsFresh
<1>6. EffectInv'
  BY <1>2 DEF RosieInv, EffectInv
<1> QED
  BY <1>1, <1>3, <1>4, <1>5, <1>6 DEF RosieInv

LEMMA SizeStep ==
    ASSUME RosieInv, NEW c \in Clients, Size(c)
    PROVE  RosieInv'
<1> DEFINE i == sized[c] + 1
<1>1. /\ pc[c] = "sizing" /\ pc'[c] \in {"sizing", "marshalling"}
      /\ \A d \in Clients \ {c} : pc'[d] = pc[d]
      /\ cmd' = cmd /\ listed' = listed /\ reply' = reply /\ chores' = chores
  BY DEF RosieInv, TypeOK, Size
<1>2. TypeOK'
  <2>1. CASE /\ i \in DOMAIN listed[c]
             /\ sizeCache' = [sizeCache EXCEPT ![i] = chores[i].complete]
             /\ sized' = [sized EXCEPT ![c] = i]
             /\ UNCHANGED pc
    <3>1. i \in DOMAIN chores /\ chores[i] \in Chore
      BY <2>1 DEF RosieInv, TypeOK, SliceInv, Extends
    <3>2. chores[i].complete \in BOOLEAN
      BY <3>1 DEF Chore
    <3>3. sizeCache' \in Seq(BOOLEAN) /\ Len(sizeCache') = Len(sizeCache)
      <4>1. i \in DOMAIN sizeCache /\ sizeCache \in Seq(BOOLEAN)
        BY <3>1 DEF RosieInv, TypeOK
      <4> QED
        BY <2>1, <3>2, <4>1, SetSize
    <3>4. sized' \in [Clients -> Nat]
      BY <2>1 DEF RosieInv, TypeOK
    <3>5. UNCHANGED <<chores, budget, mu, pc, cmd, listed, reply, intact>>
      BY <2>1 DEF Size
    <3>6. Len(sizeCache') = Len(chores')
      BY <3>3, <3>5 DEF RosieInv, TypeOK
    <3> QED
      BY <3>3, <3>4, <3>5, <3>6 DEF RosieInv, TypeOK
  <2>2. CASE i \notin DOMAIN listed[c]
    BY <2>2 DEF RosieInv, TypeOK, Size
  <2> QED
    BY <2>1, <2>2 DEF Size
<1>3. CallInv' /\ SliceInv' /\ ReplyIsFresh'
  BY <1>1 DEF RosieInv, CallInv, SliceInv, ReplyIsFresh
<1>4. EffectInv'
  BY <1>1 DEF RosieInv, EffectInv
<1> QED
  BY <1>2, <1>3, <1>4 DEF RosieInv

\* A chore is taken over from the list as it is now, or there is none left.
LEMMA MarshalStep ==
    ASSUME RosieInv, NEW c \in Clients, Marshal(c)
    PROVE  RosieInv'
<1> DEFINE i == Len(reply[c]) + 1
<1>1. /\ pc[c] = "marshalling" /\ UNCHANGED <<chores, budget, mu, cmd, listed, sized, sizeCache>>
      /\ chores \in Seq(Chore) /\ reply[c] \in Seq(Chore) /\ listed[c] \in Seq(Chore)
      /\ Len(reply[c]) <= Len(listed[c]) /\ Extends(chores, listed[c])
  BY DEF RosieInv, TypeOK, SliceInv, ReplyIsFresh, Marshal
<1>2. CASE /\ i \in DOMAIN listed[c]
           /\ reply' = [reply EXCEPT ![c] = Append(@, chores[i])]
           /\ intact' = [intact EXCEPT ![c] = @ /\ sizeCache[i] = chores[i].complete]
           /\ UNCHANGED pc
  <2>1. i \in DOMAIN chores /\ chores[i] \in Chore
    BY <1>1, <1>2 DEF Extends
  <2>2. /\ Append(reply[c], chores[i]) \in Seq(Chore)
        /\ Len(Append(reply[c], chores[i])) = i
        /\ \A k \in 1..i : Append(reply[c], chores[i])[k] = IF k = i THEN chores[i] ELSE reply[c][k]
    BY <1>1, <2>1
  <2>3. reply'[c] = Append(reply[c], chores[i]) /\ \A d \in Clients \ {c} : reply'[d] = reply[d]
    BY <1>2 DEF RosieInv, TypeOK
  <2>4. intact' \in [Clients -> BOOLEAN]
    BY <1>2 DEF RosieInv, TypeOK
  <2>5. reply' \in [Clients -> Seq(Chore)]
    BY <1>2, <2>2 DEF RosieInv, TypeOK
  <2>6. TypeOK'
    BY <1>1, <1>2, <2>4, <2>5 DEF RosieInv, TypeOK
  <2>7. CallInv'
    BY <1>1, <1>2, <2>3 DEF RosieInv, CallInv
  <2>8. SliceInv' /\ EffectInv'
    BY <1>1, <1>2 DEF RosieInv, SliceInv, EffectInv
  <2>9. ReplyIsFresh'
    <3> SUFFICES ASSUME NEW d \in Clients
                 PROVE  /\ Len(reply'[d]) <= Len(listed[d])
                        /\ \A k \in DOMAIN reply'[d] :
                            /\ reply'[d][k].description = listed[d][k].description
                            /\ listed[d][k].complete => reply'[d][k].complete
                            /\ reply'[d][k].complete => chores[k].complete
      BY <1>1 DEF ReplyIsFresh
    <3>1. CASE d # c
      BY <2>3, <3>1 DEF RosieInv, ReplyIsFresh
    <3>2. CASE d = c
      <4>1. Len(reply'[c]) <= Len(listed[c]) /\ DOMAIN reply'[c] = 1..i
        BY <1>1, <1>2, <2>2, <2>3
      <4>2. ASSUME NEW k \in 1..i
            PROVE  /\ reply'[c][k].description = listed[c][k].description
                   /\ listed[c][k].complete => reply'[c][k].complete
                   /\ reply'[c][k].complete => chores[k].complete
        <5>1. CASE k = i
          BY <1>1, <1>2, <2>2, <2>3, <5>1 DEF Extends
        <5>2. CASE k # i
          <6>1. k \in DOMAIN reply[c] /\ reply'[c][k] = reply[c][k]
            BY <1>1, <2>2, <2>3, <5>2
          <6> QED
            BY <6>1 DEF RosieInv, ReplyIsFresh
        <5> QED
          BY <5>1, <5>2
      <4> QED
        BY <3>2, <4>1, <4>2
    <3> QED
      BY <3>1, <3>2
  <2> QED
    BY <2>6, <2>7, <2>8, <2>9 DEF RosieInv
<1>3. CASE /\ i \notin DOMAIN listed[c]
           /\ pc' = [pc EXCEPT ![c] = IF intact[c] THEN "printed" ELSE "unreadable"]
           /\ UNCHANGED <<reply, intact>>
  <2>1. Len(reply[c]) = Len(listed[c])
    BY <1>1, <1>3
  <2>2. TypeOK'
    BY <1>1, <1>3 DEF RosieInv, TypeOK
  <2>3. pc'[c] \in {"printed", "unreadable"} /\ \A d \in Clients \ {c} : pc'[d] = pc[d]
    BY <1>3 DEF RosieInv, TypeOK
  <2>4. CallInv'
    BY <1>1, <1>3, <2>1, <2>3 DEF RosieInv, CallInv
  <2>5. SliceInv' /\ ReplyIsFresh'
    BY <1>1, <1>3 DEF RosieInv, SliceInv, ReplyIsFresh
  <2>6. EffectInv'
    BY <1>1, <1>3, <2>3 DEF RosieInv, EffectInv
  <2> QED
    BY <2>2, <2>4, <2>5, <2>6 DEF RosieInv
<1> QED
  BY <1>2, <1>3 DEF Marshal

LEMMA RosieStep == RosieInv /\ [Next]_vars => RosieInv'
<1> SUFFICES ASSUME RosieInv, [Next]_vars
             PROVE  RosieInv'
  OBVIOUS
<1>1. ASSUME NEW c \in Clients, NEW command \in Commands, Run(c, command)
      PROVE  RosieInv'
  BY <1>1, RunStep
<1>2. ASSUME NEW c \in Clients, Lock(c)
      PROVE  RosieInv'
  BY <1>2, LockStep
<1>3. ASSUME NEW c \in Clients, Add(c)
      PROVE  RosieInv'
  BY <1>3, AddStep
<1>4. ASSUME NEW c \in Clients, Complete(c)
      PROVE  RosieInv'
  BY <1>4, CompleteStep
<1>5. ASSUME NEW c \in Clients, List(c)
      PROVE  RosieInv'
  BY <1>5, ListStep
<1>6. ASSUME NEW c \in Clients, Size(c)
      PROVE  RosieInv'
  BY <1>6, SizeStep
<1>7. ASSUME NEW c \in Clients, Marshal(c)
      PROVE  RosieInv'
  BY <1>7, MarshalStep
<1>8. ASSUME NEW c \in Clients, End(c)
      PROVE  RosieInv'
  BY <1>8, ExitStep DEF End, RosieInv, TypeOK
<1>9. CASE UNCHANGED vars
  <2>1. UNCHANGED <<chores, budget, mu, pc, cmd, listed, sized, reply, intact, sizeCache>>
    BY <1>9 DEF vars, callVars
  <2>2. TypeOK'
    BY <2>1 DEF RosieInv, TypeOK
  <2>3. CallInv' /\ SliceInv' /\ ReplyIsFresh' /\ EffectInv'
    BY <2>1 DEF RosieInv, CallInv, SliceInv, ReplyIsFresh, EffectInv
  <2> QED
    BY <2>2, <2>3 DEF RosieInv
<1> QED
  BY <1>1, <1>2, <1>3, <1>4, <1>5, <1>6, <1>7, <1>8, <1>9 DEF Next, Call

-----------------------------------------------------------------------------
(* The theorems                                                            *)

\* The inductive invariant: where a client is, the server is never behind a slice
\* it has returned, a reply lies between slice and server, and the command's effect
\* is in the list and then in the slice.
THEOREM RosieInvariant == Spec => []RosieInv
  BY RosieInit, RosieStep, PTL DEF Spec

\* Types, for any clients, chores and numbers: Complete changes only a chore that is
\* there, and a size is kept for each chore.
THEOREM RosieTypes == Spec => []TypeOK
<1>1. RosieInv => TypeOK
  BY DEF RosieInv
<1> QED
  BY <1>1, RosieInvariant, PTL

\* A reply that is marshalled after the mutex was released (List of rosie.go) is
\* neither older than the slice returned nor ahead of the server.
THEOREM RepliesAreFresh == Spec => []ReplyIsFresh
<1>1. RosieInv => ReplyIsFresh
  BY DEF RosieInv
<1> QED
  BY <1>1, RosieInvariant, PTL

\* The list of a whole reply shows what the slice it was made from shows.
LEMMA ReplyShows ==
    ASSUME RosieInv, NEW c \in Clients, pc[c] = "printed"
    PROVE  Shows(reply[c], cmd[c])
<1>1. /\ reply[c] \in Seq(Chore) /\ listed[c] \in Seq(Chore) /\ cmd[c] \in Commands
      /\ Len(reply[c]) = Len(listed[c])
  BY DEF RosieInv, TypeOK, CallInv
<1>2. Extends(reply[c], listed[c])
  BY <1>1 DEF RosieInv, ReplyIsFresh, Extends
<1>3. Shows(listed[c], cmd[c])
  BY DEF RosieInv, EffectInv
<1> QED
  BY <1>1, <1>2, <1>3, ShowsLater

\* A client that prints a list sees its own command in it (add and complete of
\* client.go), whatever other clients do between the two calls.
THEOREM ClientsReadTheirWrites == Spec => []ReadYourWrites
<1>1. RosieInv => ReadYourWrites
  BY ReplyShows DEF ReadYourWrites
<1> QED
  BY <1>1, RosieInvariant, PTL

LEMMA NumbersStep == RosieInv /\ [Next]_vars => [Extends(chores', chores)]_vars
<1> SUFFICES ASSUME RosieInv, Next
             PROVE  Extends(chores', chores)
  OBVIOUS
<1>1. chores \in Seq(Chore) /\ Extends(chores, chores)
  BY ExtendsItself DEF RosieInv, TypeOK
<1>2. ASSUME NEW c \in Clients, Add(c)
      PROVE  Extends(chores', chores)
  <2>1. cmd[c] \in Commands /\ cmd[c].name = "add"
    BY <1>2 DEF Add, RosieInv, TypeOK, CallInv
  <2>2. cmd[c].new \in Seq(Descriptions)
    BY <2>1, NewChores
  <2> QED
    BY <1>1, <1>2, <2>2, AddExtends DEF Add
<1>3. ASSUME NEW c \in Clients, Complete(c)
      PROVE  Extends(chores', chores)
  BY <1>1, <1>3, CompleteExtends DEF Complete, Finish, Refuse
<1>4. ASSUME NEW c \in Clients,
             Lock(c) \/ List(c) \/ Size(c) \/ Marshal(c) \/ End(c)
                 \/ \E command \in Commands : Run(c, command)
      PROVE  chores' = chores
  BY <1>4 DEF Lock, List, Size, Marshal, End, Run
<1> QED
  BY <1>1, <1>2, <1>3, <1>4 DEF Next, Call

\* A chore keeps its number and its description, and stays complete once it is
\* (Add appends, Complete sets one flag).
THEOREM NumbersStayStable == Spec => NumbersStable
  BY RosieInvariant, NumbersStep, PTL DEF Spec, NumbersStable
=============================================================================
