---------------------------- MODULE ParameterBook ----------------------------
(***************************************************************************)
(* The parameters of a filter to their users, with no trie and no memory:  *)
(* a book of named parameters, each with its type and its subscribers in   *)
(* the order they subscribed, and the subscribers that the last call told  *)
(* of a value.                                                             *)
(*                                                                         *)
(* It is what include/quickstream/parameter.h promises but for one         *)
(* promise, where the book follows the code: "If the getCallback returns   *)
(* non-zero the callback will be removed" (parameter.h:386) is not done,   *)
(* the result is not looked at (parameter.c:674).  So Push has no result   *)
(* of a subscriber and leaves every subscription.                          *)
(***************************************************************************)
EXTENDS Integers, Sequences, Functions

CONSTANTS Names, Types,
          Callbacks    \* records [fn, keep, one]: a function with its flags

VARIABLES book,        \* [names -> [type, gets]]
          heard        \* the functions the last call called, in order
vars == <<book, heard>>

Init == book = <<>> /\ heard = <<>>

\* The parameters of a filter are what they were or gone.
Forget == /\ book' \in {Restrict(book, names) : names \in SUBSET DOMAIN book}
          /\ heard' = <<>>

Create == \E n \in Names \ DOMAIN book, type \in Types :
             /\ book' = [m \in DOMAIN book \cup {n} |->
                           IF m = n THEN [type |-> type, gets |-> <<>>]
                           ELSE book[m]]
             /\ heard' = <<>>

\* A subscriber marked to be kept once is not added beside itself.
Subscribed(parameter, cb) ==
  IF cb.one /\ \E i \in DOMAIN parameter.gets : parameter.gets[i].fn = cb.fn
  THEN parameter
  ELSE [parameter EXCEPT !.gets = Append(@, cb)]

Subscribe == \E names \in SUBSET DOMAIN book, cb \in Callbacks :
                /\ book' = [n \in DOMAIN book |->
                              IF n \in names THEN Subscribed(book[n], cb)
                              ELSE book[n]]
                /\ heard' = <<>>

\* Of the subscribers in old those who asked to be kept are in new, in their
\* order: at says where the ones in new were in old.
Keeps(new, old) ==
  \E at \in [DOMAIN new -> DOMAIN old] :
     /\ \A i \in DOMAIN new : new[i] = old[at[i]]
     /\ \A i, j \in DOMAIN new : i < j => at[i] < at[j]
     /\ Range(at) = {k \in DOMAIN old : old[k].keep}

Restart == /\ DOMAIN book' = DOMAIN book
           /\ \A n \in DOMAIN book : /\ book'[n].type = book[n].type
                                     /\ Keeps(book'[n].gets, book[n].gets)
           /\ heard' = <<>>

\* Every subscriber is told and stays one, whatever it returns.
Push == \E n \in DOMAIN book :
           /\ heard' = [i \in DOMAIN book[n].gets |-> book[n].gets[i].fn]
           /\ UNCHANGED book

Next == Forget \/ Create \/ Subscribe \/ Restart \/ Push
Spec == Init /\ [][Next]_vars
=============================================================================
