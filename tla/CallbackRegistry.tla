-------------------------- MODULE CallbackRegistry --------------------------
(***************************************************************************)
(* The callback registry of the engine (libjulius/src/callback.c) as the   *)
(* Julius wrapper class of HAS exposes it (julius.cpp:76-99).              *)
(*                                                                         *)
(* A function is hooked at a code; table[code] is callback_function[code]  *)
(* with callback_user_data[code], and its length is                        *)
(* callback_function_num[code].  The id a caller gets indexes              *)
(* callback_list, which remembers the code and the location of the         *)
(* function at the time it was added.  callback_exec reads the table again *)
(* at every turn of its loop, and a function it calls may add and delete.  *)
(***************************************************************************)
EXTENDS Integers, SequencesExt

CONSTANTS
  Codes,     \* callback codes (SIZEOF_CALLBACK_ID of them)
  Funs,      \* functions with their user data
  MaxHook,   \* MAX_CALLBACK_HOOK: functions per code
  MaxDelete  \* bound: successful deletions in a behaviour

ASSUME RegistryAssumption ==
  /\ MaxHook \in Nat \ {0} /\ MaxDelete \in Nat
  /\ IsFiniteSet(Codes) /\ -1 \notin Codes

VARIABLES
  table,   \* code -> sequence of [fn, reg]; reg numbers the registrations (history)
  list,    \* callback_list: id -> [code, loc, reg], or Deleted
  running, \* callback_exec: [code, i, called], or Idle
  regs,    \* history: registrations so far
  deleted  \* history: ids deleted so far

vars == <<table, list, running, regs, deleted>>

\* code -1 and location -1 in callback_list.
Deleted == [code |-> -1, loc |-> -1, reg |-> 0]

Idle == [code |-> -1, i |-> 0, called |-> << >>]

MaxId == MaxHook * Cardinality(Codes)

TypeOK ==
  /\ table \in [Codes -> Seq([fn : Funs, reg : Nat])]
  /\ list \in Seq([code : Codes, loc : 1..MaxHook, reg : Nat] \cup {Deleted})
  /\ running \in [code : Codes, i : Nat, called : Seq(Nat)] \cup {Idle}
  /\ regs \in Nat /\ deleted \in 0..MaxDelete

\* callback_init.
Init ==
  /\ table = [c \in Codes |-> << >>] /\ list = << >>
  /\ running = Idle /\ regs = 0 /\ deleted = 0

\* Mutant: one hook too many.
FullAbove(c) == Len(table[c]) > MaxHook

\* No room at this code.
Full(c) == Len(table[c]) >= MaxHook

\* The same function with the same user data is there already.
Hooked(c, f) == \E k \in DOMAIN table[c] : table[c][k].fn = f

\* callback_add_core.  The function is hooked before the test on the number of
\* ids: at that limit the call returns -1 and the function stays hooked.
Add(c, f) ==
  /\ ~Full(c) /\ ~Hooked(c, f)
  /\ regs' = regs + 1
  /\ table' = [table EXCEPT ![c] = Append(@, [fn |-> f, reg |-> regs'])]
  /\ list' = IF Len(list) >= MaxId THEN list
             ELSE Append(list, [code |-> c, loc |-> Len(table[c]) + 1, reg |-> regs'])
  /\ UNCHANGED <<running, deleted>>

\* Mutant: the first function fills the gap.
UnhookFillsFromFront(s, loc) ==
  IF loc > Len(s) THEN Front(s) ELSE Tail(ReplaceAt(s, loc, Head(s)))

\* The functions after loc move up by one and the count is decremented; a
\* location beyond the end drops the last one.
Unhook(s, loc) == IF loc >= Len(s) THEN Front(s) ELSE RemoveAt(s, loc)

\* Mutant: the id is not marked as deleted.
ForgetNothing(id) == list

\* The list without the id: the locations of the others stay as they are.
Forget(id) == [list EXCEPT ![id] = Deleted]

\* callback_delete of an id that is registered (for any other it only returns).
Delete(id) ==
  /\ deleted < MaxDelete
  /\ list[id] # Deleted
  /\ table' = [table EXCEPT ![list[id].code] = Unhook(@, list[id].loc)]
  /\ list' = Forget(id)
  /\ deleted' = deleted + 1
  /\ UNCHANGED <<running, regs>>

\* callback_exec is entered for a code.
ExecBegin(c) ==
  /\ running = Idle
  /\ running' = [code |-> c, i |-> 0, called |-> << >>]
  /\ UNCHANGED <<table, list, regs, deleted>>

\* One turn of its loop: the function at i is called.
ExecCall ==
  /\ running # Idle
  /\ running.i < Len(table[running.code])
  /\ running' = [running EXCEPT !.i = @ + 1,
                                !.called = Append(@, table[running.code][running.i + 1].reg)]
  /\ UNCHANGED <<table, list, regs, deleted>>

\* The loop is over.
ExecEnd ==
  /\ running # Idle
  /\ running.i >= Len(table[running.code])
  /\ running' = Idle
  /\ UNCHANGED <<table, list, regs, deleted>>

Next ==
  \/ \E c \in Codes, f \in Funs : Add(c, f)
  \/ \E id \in DOMAIN list : Delete(id)
  \/ \E c \in Codes : ExecBegin(c)
  \/ ExecCall \/ ExecEnd

Spec == Init /\ [][Next]_vars

-----------------------------------------------------------------------------
(* Properties.                                                             *)

\* The ids registered at a code and not deleted.
LiveIds(c) == {id \in DOMAIN list : list[id].code = c}

\* Each hook is one of the code's own: a function is never hooked twice, so no
\* event reaches it twice, even after the functions have moved; and every id a
\* caller still holds has a function left to delete, so the count of a code
\* never goes below zero nor above MAX_CALLBACK_HOOK, whatever is deleted and
\* deleted again (callback.c:80-94, 342-347).
HookedOnce ==
  \A c \in Codes :
    /\ \A j, k \in DOMAIN table[c] : table[c][j].fn = table[c][k].fn => j = k
    /\ Cardinality(LiveIds(c)) <= Len(table[c]) /\ Len(table[c]) <= MaxHook

\* One event calls a registration at most once, although the functions it
\* calls may add and delete while callback_exec walks the table
\* (callback.c:242-244, 342-347).
CalledOnce ==
  \A j, k \in DOMAIN running.called : running.called[j] = running.called[k] => j = k

\* The registrations in the slot of a code.
Hooks(c) == {table[c][k].reg : k \in DOMAIN table[c]}

\* callback.c:306, 313 and 317: callback_delete deletes the function of "the
\* global callback ID to delete", and no other.
DeletesItsOwn ==
  [][\A c \in Codes : \A id \in LiveIds(c) :
       list'[id] = Deleted => Hooks(c)' = Hooks(c) \ {list[id].reg}]_vars

=============================================================================
