------------------------------- MODULE Rosie -------------------------------
(***************************************************************************)
(* The gRPC housework service of ch12: the methods of Rosie (server), one  *)
(* goroutine per call, and the command-line clients that call them         *)
(* (client). A client runs one command, lists the chores and ends.         *)
(*                                                                         *)
(* List returns the slice itself: the reply is marshalled after the mutex  *)
(* has been released, from chores that other calls may be changing. The    *)
(* protobuf library goes over a message twice: it computes the size of each*)
(* chore and keeps it in the chore (sizeCache, which the replies share),   *)
(* then it writes the chore after the size it finds there. A chore is      *)
(* longer when it is complete: one that changes in between is unreadable.  *)
(***************************************************************************)
EXTENDS Integers, Sequences, SequencesExt

CONSTANTS
    Clients,        \* clients that may run at the same time
    Descriptions,   \* what a chore can be
    Numbers,        \* what a user can type after "complete"
    IntMod,         \* int32(i) keeps i modulo this: 2^32
    MaxChores       \* bound: chores that clients ever add

ASSUME RosieAssumption ==
    /\ Numbers \subseteq Int
    /\ IntMod \in Nat \ {0} /\ IntMod % 2 = 0
    /\ MaxChores \in Nat

VARIABLES
    chores,     \* Rosie.chores
    budget,     \* chores that may still be added, see MaxChores
    mu,         \* who holds Rosie.mu
    pc,         \* where the client, or its call at the server, is
    cmd,        \* the command it runs
    listed,     \* the slice List returned to it, as it was at that moment
    sized,      \* how many of its chores have been sized
    reply,      \* the chores marshalled so far
    intact,     \* whether each of them has the size announced for it
    sizeCache   \* of each chore: Complete when its size was last computed

callVars == <<cmd, listed, sized, reply, intact>>
vars == <<chores, budget, mu, pc, callVars, sizeCache>>

Chore == [description : Descriptions, complete : BOOLEAN]

Commands ==
    [name : {"add"}, new : BoundedSeq(Descriptions, MaxChores)]
        \union [name : {"complete"}, number : Numbers]
        \union {[name |-> "list"]}

NoOne == "no one"

-----------------------------------------------------------------------------
(* client.go                                                               *)

\* int32(i): the value with the low bits of i, in -IntMod/2 .. IntMod/2 - 1.
Int32(i) == ((i + IntMod \div 2) % IntMod) - (IntMod \div 2)

InRange(i) == -(IntMod \div 2) <= i /\ i < IntMod \div 2

Init ==
    /\ chores = <<>>
    /\ budget = MaxChores
    /\ mu = NoOne
    /\ pc = [c \in Clients |-> "idle"]
    /\ cmd = [c \in Clients |-> [name |-> "list"]]
    /\ listed = [c \in Clients |-> <<>>]
    /\ sized = [c \in Clients |-> 0]
    /\ reply = [c \in Clients |-> <<>>]
    /\ intact = [c \in Clients |-> TRUE]
    /\ sizeCache = <<>>

\* A client starts with a command: it makes the call of the command, if there
\* is one, or lists at once.
Run(c, command) ==
    /\ pc[c] = "idle"
    /\ \/ command.name # "add" /\ UNCHANGED budget
       \/ /\ command.name = "add"
          /\ Len(command.new) <= budget
          /\ budget' = budget - Len(command.new)
    /\ cmd' = [cmd EXCEPT ![c] = command]
    /\ pc' = [pc EXCEPT ![c] = command.name]
    /\ UNCHANGED <<chores, mu, listed, sized, reply, intact, sizeCache>>

\* A client ends; nothing is left of it.
Exit(c) ==
    /\ pc' = [pc EXCEPT ![c] = "idle"]
    /\ cmd' = [cmd EXCEPT ![c] = [name |-> "list"]]
    /\ listed' = [listed EXCEPT ![c] = <<>>]
    /\ sized' = [sized EXCEPT ![c] = 0]
    /\ reply' = [reply EXCEPT ![c] = <<>>]
    /\ intact' = [intact EXCEPT ![c] = TRUE]

-----------------------------------------------------------------------------
(* rosie.go                                                                *)

\* r.mu.Lock() at the start of each method.
Lock(c) ==
    /\ pc[c] \in {"add", "complete", "list"}
    /\ mu = NoOne
    /\ mu' = c
    /\ UNCHANGED <<chores, budget, pc, callVars, sizeCache>>

Unfinished(descriptions) ==
    [i \in DOMAIN descriptions |->
        [description |-> descriptions[i], complete |-> FALSE]]

\* A chore that has just been unmarshalled has no size yet; it gets one before it
\* is marshalled.
Unsized(descriptions) == [i \in DOMAIN descriptions |-> FALSE]

\* An operator named after the one it precedes is that one with a mistake in it,
\* to show what a property would catch; the specification does not use it.
AddInFront(c) ==
    /\ pc[c] = "add" /\ mu = c
    /\ chores' = Unfinished(cmd[c].new) \o chores
    /\ sizeCache' = Unsized(cmd[c].new) \o sizeCache
    /\ mu' = NoOne
    /\ pc' = [pc EXCEPT ![c] = "list"]
    /\ UNCHANGED <<budget, callVars>>

\* Add, after which the client goes on to list.
Add(c) ==
    /\ pc[c] = "add" /\ mu = c
    /\ chores' = chores \o Unfinished(cmd[c].new)
    /\ sizeCache' = sizeCache \o Unsized(cmd[c].new)
    /\ mu' = NoOne
    /\ pc' = [pc EXCEPT ![c] = "list"]
    /\ UNCHANGED <<budget, callVars>>

Finish(c, number) ==
    /\ chores' = [chores EXCEPT ![number].complete = TRUE]
    /\ pc' = [pc EXCEPT ![c] = "list"]
    /\ UNCHANGED callVars

Refuse(c) == Exit(c) /\ UNCHANGED chores

CompleteFromZero(c) ==
    LET number == Int32(cmd[c].number) + 1
    IN /\ pc[c] = "complete" /\ mu = c
       /\ mu' = NoOne
       /\ \/ number \in DOMAIN chores /\ Finish(c, number)
          \/ number \notin DOMAIN chores /\ Refuse(c)
       /\ UNCHANGED <<budget, sizeCache>>

CompleteToggles(c) ==
    LET number == Int32(cmd[c].number)
    IN /\ pc[c] = "complete" /\ mu = c
       /\ mu' = NoOne
       /\ \/ /\ number \in DOMAIN chores
             /\ chores' = [chores EXCEPT ![number].complete = ~@]
             /\ pc' = [pc EXCEPT ![c] = "list"]
             /\ UNCHANGED callVars
          \/ number \notin DOMAIN chores /\ Refuse(c)
       /\ UNCHANGED <<budget, sizeCache>>

CompleteKeepsLock(c) ==
    LET number == Int32(cmd[c].number)
    IN /\ pc[c] = "complete" /\ mu = c
       /\ \/ number \in DOMAIN chores /\ mu' = NoOne /\ Finish(c, number)
          \/ number \notin DOMAIN chores /\ UNCHANGED mu /\ Refuse(c)
       /\ UNCHANGED <<budget, sizeCache>>

\* Complete, with the number the client sent: an error ends the client.
Complete(c) ==
    LET number == Int32(cmd[c].number)
    IN /\ pc[c] = "complete" /\ mu = c
       /\ mu' = NoOne
       /\ \/ number \in DOMAIN chores /\ Finish(c, number)
          \/ number \notin DOMAIN chores /\ Refuse(c)
       /\ UNCHANGED <<budget, sizeCache>>

\* List: what it returns is the slice.
List(c) ==
    /\ pc[c] = "list" /\ mu = c
    /\ listed' = [listed EXCEPT ![c] = chores]
    /\ mu' = NoOne
    /\ pc' = [pc EXCEPT ![c] = "sizing"]
    /\ UNCHANGED <<chores, budget, cmd, sized, reply, intact, sizeCache>>

-----------------------------------------------------------------------------
(* The protobuf library (external), on the slice that List returned.       *)

Size(c) ==
    /\ pc[c] = "sizing"
    /\ LET i == sized[c] + 1
       IN \/ /\ i \in DOMAIN listed[c]
             /\ sizeCache' = [sizeCache EXCEPT ![i] = chores[i].complete]
             /\ sized' = [sized EXCEPT ![c] = i]
             /\ UNCHANGED pc
          \/ /\ i \notin DOMAIN listed[c]
             /\ pc' = [pc EXCEPT ![c] = "marshalling"]
             /\ UNCHANGED <<sized, sizeCache>>
    /\ UNCHANGED <<chores, budget, mu, cmd, listed, reply, intact>>

Marshal(c) ==
    /\ pc[c] = "marshalling"
    /\ LET i == Len(reply[c]) + 1
       IN \/ /\ i \in DOMAIN listed[c]
             /\ reply' = [reply EXCEPT ![c] = Append(@, chores[i])]
             /\ intact' = [intact EXCEPT ![c] =
                               @ /\ sizeCache[i] = chores[i].complete]
             /\ UNCHANGED pc
          \/ /\ i \notin DOMAIN listed[c]
             /\ pc' = [pc EXCEPT ![c] = IF intact[c] THEN "printed"
                                                     ELSE "unreadable"]
             /\ UNCHANGED <<reply, intact>>
    /\ UNCHANGED <<chores, budget, mu, cmd, listed, sized, sizeCache>>

\* The client has printed the list, or the error, and ends.
End(c) ==
    /\ pc[c] \in {"printed", "unreadable"}
    /\ Exit(c)
    /\ UNCHANGED <<chores, budget, mu, sizeCache>>

Call(c) ==
    \/ Lock(c)
    \/ Add(c) \/ Complete(c) \/ List(c)
    \/ Size(c) \/ Marshal(c) \/ End(c)

Next ==
    \E c \in Clients :
        \/ Call(c)
        \/ \E command \in Commands : Run(c, command)

\* Calls are scheduled; no call waits for the mutex forever while others get it
\* again and again (sync.Mutex hands over to a waiter that starves).
Fairness == \A c \in Clients : WF_vars(Call(c)) /\ SF_vars(Lock(c))

Spec == Init /\ [][Next]_vars /\ Fairness

-----------------------------------------------------------------------------
(* Properties                                                              *)

\* Every variable has its type: no call writes past the end of the list.
TypeOK ==
    /\ chores \in Seq(Chore)
    /\ budget \in 0..MaxChores
    /\ mu \in Clients \union {NoOne}
    /\ pc \in [Clients -> {"idle", "add", "complete", "list", "sizing",
                           "marshalling", "printed", "unreadable"}]
    /\ cmd \in [Clients -> Commands]
    /\ listed \in [Clients -> Seq(Chore)]
    /\ sized \in [Clients -> Nat]
    /\ reply \in [Clients -> Seq(Chore)]
    /\ intact \in [Clients -> BOOLEAN]
    /\ sizeCache \in Seq(BOOLEAN) /\ Len(sizeCache) = Len(chores)

\* later has the chores of earlier at their numbers, and what was complete is.
Extends(later, earlier) ==
    /\ Len(earlier) <= Len(later)
    /\ \A i \in DOMAIN earlier :
        /\ later[i].description = earlier[i].description
        /\ earlier[i].complete => later[i].complete

\* A chore keeps its number and what it is, and once complete stays so: the
\* number a client has read in a list designates the same chore forever.
NumbersStable == [][Extends(chores', chores)]_vars

\* A reply is marshalled without the mutex, chore by chore, while other calls
\* work; still it has the chores of the slice List returned, each neither older
\* than that slice nor ahead of the server.
ReplyIsFresh ==
    \A c \in Clients :
        /\ Len(reply[c]) <= Len(listed[c])
        /\ \A i \in DOMAIN reply[c] :
            /\ reply[c][i].description = listed[c][i].description
            /\ listed[c][i].complete => reply[c][i].complete
            /\ reply[c][i].complete => chores[i].complete

\* list shows what the command does: what it adds, in one piece, or the chore it
\* designates completed.
Shows(list, command) ==
    /\ command.name = "add" =>
          \E k \in 0..Len(list) : \A i \in DOMAIN command.new :
              /\ k + i \in DOMAIN list
              /\ list[k + i].description = command.new[i]
    /\ command.name = "complete" /\ InRange(command.number) =>
          command.number \in DOMAIN list /\ list[command.number].complete

\* The list a client reads after its command shows the command's effect.
ReadYourWrites ==
    \A c \in Clients : pc[c] = "printed" => Shows(reply[c], cmd[c])

(* The inductive invariant behind them (RosieProofs.tla)                   *)

\* Where a client is: it makes the call of its command, and has a list and a reply
\* only after List.
CallInv ==
    \A c \in Clients :
        /\ pc[c] \in {"add", "complete"} => cmd[c].name = pc[c]
        /\ pc[c] \in {"idle", "add", "complete", "list"} =>
               listed[c] = <<>> /\ reply[c] = <<>>
        /\ pc[c] \in {"printed", "unreadable"} => Len(reply[c]) = Len(listed[c])

\* The server is never behind a slice it has handed out.
SliceInv == \A c \in Clients : Extends(chores, listed[c])

\* The command's effect is in the server's list, then in the slice returned.
EffectInv ==
    \A c \in Clients :
        /\ pc[c] = "list" => Shows(chores, cmd[c])
        /\ pc[c] \in {"sizing", "marshalling", "printed", "unreadable"} =>
               Shows(listed[c], cmd[c])

RosieInv == TypeOK /\ CallInv /\ SliceInv /\ ReplyIsFresh /\ EffectInv

\* Every command ends: no path through a method leaves the mutex locked, and a
\* reply is finite although the list grows while it is marshalled.
CommandsEnd == \A c \in Clients : pc[c] # "idle" ~> pc[c] = "idle"

\* "The mutex protects concurrent access, so that several clients can use the
\* service at the same time": no client gets an unreadable list.
ListsReadable == \A c \in Clients : pc[c] # "unreadable"
=============================================================================
