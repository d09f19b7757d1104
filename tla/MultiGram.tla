------------------------------ MODULE MultiGram ------------------------------
(***************************************************************************)
(* Several grammars in one recogniser: libjulius/src/multi-gram.c with the  *)
(* head of a recognition round in recogmain.c.                              *)
(*                                                                         *)
(* Grammars are added, deleted, switched and extended by requests, which    *)
(* callbacks make at any time and which only leave marks.  At the head of   *)
(* a round multigram_update carries the marks out: it joins the grammars    *)
(* into the global lexicon, and each live process builds its tree lexicon   *)
(* from that.                                                              *)
(*                                                                         *)
(* Grain.  One action per request and per grammar joined; the rest of the   *)
(* update is one action before and one after that loop.  A word is its      *)
(* grammar and its category, a category is its grammar and whether the      *)
(* tables for it were filled.  Category -1 is WORD_INVALID: added to an     *)
(* offset as in voca_append it wraps round to the category before.  The     *)
(* mode is LM_DFA_GRAMMAR, the one of -gram in the configuration of HAS.    *)
(***************************************************************************)
EXTENDS Integers, Sequences, FiniteSets

CONSTANTS
  Kinds,        \* what a grammar file may hold: records of KindShape
  AddedCats,    \* category of a word added later; Invalid for an unknown one
  Loaded,       \* the grammars loaded at start-up, in the order of loading
  Procs,        \* the recognition processes that use this language model
  MaxWords,     \* MAX_WORD_NUM
  MaxAdds,      \* bound: grammars ever added
  MaxExtra,     \* bound: words added to a grammar
  MaxRequests   \* bound: requests in a behaviour

Invalid == -1
\* lm->dfa and lm->winfo are NULL.
NoGlobal == [words |-> << >>, cats |-> << >>, sp |-> -2]

KindShape(k) ==
  /\ k.words \in Seq(0..k.terms - 1)   \* category of each word
  /\ k.terms \in Nat \ {0}             \* number of categories
  /\ k.sp \in Invalid..Len(k.words) - 1 \* the pause word, counted from 0
  /\ k.ok \in BOOLEAN                  \* words map to categories

ASSUME KindAssumption == \A k \in Kinds : KindShape(k)
ASSUME LimitAssumption == MaxWords \in Nat /\ MaxAdds \in Nat /\ MaxExtra \in Nat /\ MaxRequests \in Nat
ASSUME AddedAssumption == AddedCats \subseteq {Invalid, 0}
ASSUME LoadedAssumption == Loaded \in Seq(Kinds) /\ Len(Loaded) <= MaxAdds

VARIABLES
  \* PROCESS_LM: grammars (newest first), gram_maxid, dfa with winfo, and
  \* global_modified
  grammars, gram_maxid, global, global_modified,
  \* RecogProcess: live, the booked change of it, the lexicon its tree
  \* was built from
  live, active, wchmm,
  process_active, pc,
  \* multigram_update: rebuild_flag and the grammar the loop is at
  rebuild_flag, at,
  \* history: whether each grammar was last asked to be active, and the
  \* grammars whose extension failed
  want, failed,
  \* requests so far
  asked

lmVars   == <<grammars, gram_maxid, global, global_modified>>
procVars == <<live, active, wchmm, process_active>>
loopVars == <<pc, rebuild_flag, at>>
history  == <<want, failed, asked>>
vars     == <<lmVars, procVars, loopVars, history>>

Ids == 0..MaxAdds - 1

TypeOK ==
  /\ \A i \in DOMAIN grammars :
       LET m == grammars[i] IN
       /\ m.id \in Ids /\ m.hook \subseteq {"delete", "activate", "deactivate", "modified"}
       /\ m.newbie \in BOOLEAN /\ m.active \in BOOLEAN /\ m.mapped \in BOOLEAN
       /\ m.cate_begin \in Nat /\ m.word_begin \in Nat
       /\ ~({"activate", "deactivate"} \subseteq m.hook)
  /\ gram_maxid \in 0..MaxAdds /\ global_modified \in BOOLEAN
  /\ live \in [Procs -> BOOLEAN] /\ active \in [Procs -> {-1, 0, 1}]
  /\ process_active \in BOOLEAN
  /\ pc \in {"start", "poll", "append", "build", "decode", "paused"}
  /\ rebuild_flag \in BOOLEAN /\ at \in 1..MaxAdds + 1
  /\ want \in [Ids -> BOOLEAN] /\ failed \subseteq Ids /\ asked \in 0..MaxRequests

-----------------------------------------------------------------------------
(* The list and the global lexicon.                                        *)

NewGrammar(k, id) ==
  [id |-> id, kind |-> k, words |-> k.words, hook |-> {"activate"}, newbie |-> TRUE,
   active |-> FALSE, mapped |-> FALSE, cate_begin |-> 0, word_begin |-> 0]

Registered == {grammars[i].id : i \in DOMAIN grammars}
Grammar(id) == grammars[CHOOSE i \in DOMAIN grammars : grammars[i].id = id]

\* The list with the grammar id as new.
Altered(id, new) ==
  [i \in DOMAIN grammars |-> IF grammars[i].id = id THEN new ELSE grammars[i]]

\* The list without the places in D, in the order it had.
Without(list, D) ==
  LET kept == DOMAIN list \ D
      Nth(k) == CHOOSE i \in kept : Cardinality({j \in kept : j <= i}) = k
  IN  [k \in 1..Cardinality(kept) |-> list[Nth(k)]]

\* Mutant: only grammars that were never built are purged.
KeptBuilt(list) ==
  Without(list, {i \in DOMAIN list : "delete" \in list[i].hook /\ list[i].newbie})

\* multigram_exec_delete.
Kept(list) == Without(list, {i \in DOMAIN list : "delete" \in list[i].hook})

\* An empty global lexicon, as dfa_info_new and word_info_new make it.
Empty == [words |-> << >>, cats |-> << >>, sp |-> Invalid]
Base == IF global = NoGlobal THEN Empty ELSE global

\* voca_append: winfo_expand refuses when the table would be full.
Fits(m) == Len(Base.words) + Len(m.words) < MaxWords

\* Mutant: the words keep the categories of their own grammar.
JoinedWordsUnshifted(m) == [k \in DOMAIN m.words |-> [gram |-> m.id, cat |-> m.words[k]]]

\* The words of m as voca_append copies them, categories shifted.
JoinedWords(m) ==
  [k \in DOMAIN m.words |-> [gram |-> m.id, cat |-> m.words[k] + Len(Base.cats)]]

\* multigram_append_to_global.  When the words do not fit, the states and
\* categories of m are already there, but no table is filled for them.
\* dfa_pause_word_append takes the number of the pause word unshifted.
Joined(m) ==
  [words |-> IF Fits(m) THEN Base.words \o JoinedWords(m) ELSE Base.words,
   cats  |-> Base.cats \o [c \in 1..m.kind.terms |->
                             [gram |-> m.id, table |-> Fits(m) /\ m.mapped]],
   sp    |-> IF Fits(m) /\ Base.sp = Invalid THEN m.kind.sp ELSE Base.sp]

\* multigram_get_gram_from_category.
GramOfCategory(c) ==
  LET hit == {i \in DOMAIN grammars :
                /\ ~grammars[i].newbie
                /\ c \in grammars[i].cate_begin ..
                         grammars[i].cate_begin + grammars[i].kind.terms - 1}
  IN  IF hit = {} THEN -1
      ELSE grammars[CHOOSE i \in hit : \A j \in hit : i <= j].id

\* multigram_get_gram_from_wid, with the present length of each dictionary.
GramOfWord(w) ==
  LET hit == {i \in DOMAIN grammars :
                /\ ~grammars[i].newbie
                /\ w \in grammars[i].word_begin ..
                         grammars[i].word_begin + Len(grammars[i].words) - 1}
  IN  IF hit = {} THEN -1
      ELSE grammars[CHOOSE i \in hit : \A j \in hit : i <= j].id

-----------------------------------------------------------------------------
(* Requests, from a callback in a round or while the engine is paused.      *)

\* The grammars of the configuration are added.  The update and the build that
\* loading makes are those of the first round here: nothing comes in between.
Init ==
  /\ grammars = [i \in 1..Len(Loaded) |->
                   NewGrammar(Loaded[Len(Loaded) + 1 - i], Len(Loaded) - i)]
  /\ gram_maxid = Len(Loaded) /\ global = NoGlobal /\ global_modified = FALSE
  /\ live = [r \in Procs |-> FALSE] /\ active = [r \in Procs |-> 1]
  /\ wchmm = [r \in Procs |-> NoGlobal]
  /\ process_active = TRUE /\ pc = "start" /\ rebuild_flag = FALSE /\ at = 1
  /\ want = [i \in Ids |-> TRUE] /\ failed = {} /\ asked = 0

\* A callback runs, and asks for something.
Asks ==
  /\ pc \in {"poll", "decode", "paused"}
  /\ asked < MaxRequests /\ asked' = asked + 1

\* multigram_add.
Add(k) ==
  /\ Asks /\ gram_maxid < MaxAdds
  /\ grammars' = << NewGrammar(k, gram_maxid) >> \o grammars
  /\ gram_maxid' = gram_maxid + 1
  /\ UNCHANGED <<global, global_modified, procVars, loopVars, want, failed>>

\* multigram_delete, and multigram_delete_all when ids is the whole list.
Delete(ids) ==
  /\ Asks /\ ids \subseteq Registered
  /\ Cardinality(ids) = 1 \/ ids = Registered
  /\ grammars' = [i \in DOMAIN grammars |->
       IF grammars[i].id \in ids THEN [grammars[i] EXCEPT !.hook = @ \cup {"delete"}]
       ELSE grammars[i]]
  /\ UNCHANGED <<gram_maxid, global, global_modified, procVars, loopVars, want, failed>>

\* Mutant: a booked deactivation is left standing.
SwitchedBoth(hook, on) == hook \cup {IF on THEN "activate" ELSE "deactivate"}

\* Mutant: a booked request is not superseded.
SwitchedOnce(hook, on) ==
  IF hook \cap {"activate", "deactivate"} # {} THEN hook ELSE SwitchedBoth(hook, on)

\* A later request supersedes the booked one.
Switched(hook, on) ==
  IF on THEN (hook \ {"deactivate"}) \cup {"activate"}
        ELSE (hook \ {"activate"}) \cup {"deactivate"}

\* multigram_activate and multigram_deactivate.
Switch(id, on) ==
  /\ Asks /\ id \in Registered
  /\ grammars' = Altered(id, [Grammar(id) EXCEPT !.hook = Switched(@, on)])
  /\ want' = [want EXCEPT ![id] = on]
  /\ UNCHANGED <<gram_maxid, global, global_modified, procVars, loopVars, failed>>

\* multigram_add_words_to_grammar with one word.  make_dfa_voca_ref fails on
\* an unknown category: the old table has been freed, the word stays, and
\* the grammar is neither marked as modified nor for deletion.
AddWord(id, cat) ==
  /\ Asks /\ id \in Registered
  /\ LET m == Grammar(id)
         fine == cat # Invalid /\ m.kind.ok /\ id \notin failed
         extended ==
           [m EXCEPT !.words = Append(@, cat), !.mapped = fine,
                     !.hook = IF fine THEN @ \cup {"modified"} ELSE @]
     IN  /\ Len(m.words) < Len(m.kind.words) + MaxExtra
         /\ grammars' = Altered(id, extended)
         /\ failed' = IF fine THEN failed ELSE failed \cup {id}
  /\ UNCHANGED <<gram_maxid, global, global_modified, procVars, loopVars, want>>

\* j_process_activate and j_process_deactivate.
Book(r, on) ==
  /\ Asks
  /\ active' = [active EXCEPT ![r] = IF on THEN 1 ELSE -1]
  /\ UNCHANGED <<lmVars, live, wchmm, process_active, loopVars, want, failed>>

\* j_request_pause and j_request_resume.
Ask(on) ==
  /\ Asks
  /\ process_active' = on
  /\ UNCHANGED <<lmVars, live, active, wchmm, loopVars, want, failed>>

-----------------------------------------------------------------------------
(* The head of a round.                                                    *)

\* Booked changes of the processes; with none live the engine pauses.
Start ==
  /\ pc = "start"
  /\ live' = [r \in Procs |-> IF active[r] = 0 THEN live[r] ELSE active[r] = 1]
  /\ active' = [r \in Procs |-> 0]
  /\ process_active' = (process_active /\ \E r \in Procs : live'[r])
  /\ pc' = IF process_active' THEN "poll" ELSE "paused"
  /\ UNCHANGED <<lmVars, wchmm, rebuild_flag, at, history>>

\* After the poll callback: a pause asked for in it is obeyed first.
Rest ==
  /\ pc = "poll" /\ ~process_active
  /\ pc' = "paused"
  /\ UNCHANGED <<lmVars, procVars, rebuild_flag, at, history>>

WakeUp ==
  /\ pc = "paused" /\ process_active
  /\ pc' = "start"
  /\ UNCHANGED <<lmVars, procVars, rebuild_flag, at, history>>

\* A new grammar is set up; one that cannot be is marked for deletion.
SetUp(m) ==
  IF ~m.newbie THEN m
  ELSE IF m.kind.ok /\ m.id \notin failed THEN [m EXCEPT !.mapped = TRUE]
  ELSE [m EXCEPT !.hook = @ \cup {"delete"}]

\* Mutant: deletion of a built grammar does not ask for a rebuild.
MustRebuildModified(list) == \E i \in DOMAIN list : "modified" \in list[i].hook

\* Built grammars were deleted, or one that is kept was extended.
MustRebuild(list) ==
  \E i \in DOMAIN list :
    IF "delete" \in list[i].hook THEN ~list[i].newbie ELSE "modified" \in list[i].hook

\* multigram_update up to the loop that joins the grammars.
UpdateBegin ==
  /\ pc = "poll" /\ process_active
  /\ LET list == [i \in DOMAIN grammars |-> SetUp(grammars[i])]
         kept == Kept(list)
     IN  /\ rebuild_flag' = MustRebuild(list)
         /\ grammars' = [i \in DOMAIN kept |-> [kept[i] EXCEPT !.hook = @ \ {"modified"}]]
         /\ global' = IF rebuild_flag' THEN NoGlobal ELSE global
  /\ at' = 1 /\ pc' = "append"
  /\ UNCHANGED <<gram_maxid, global_modified, procVars, history>>

\* The place of a grammar in the global lexicon; marked when it did not fit.
Placed(m) ==
  [m EXCEPT !.newbie = FALSE, !.cate_begin = Len(Base.cats), !.word_begin = Len(Base.words),
            !.hook = IF Fits(m) THEN @ ELSE @ \cup {"delete"}]

\* One grammar of the list: joined when all are, or when it is new.
JoinNext ==
  /\ pc = "append" /\ at <= Len(grammars)
  /\ LET m == grammars[at] IN
     IF rebuild_flag \/ m.newbie
     THEN /\ grammars' = [grammars EXCEPT ![at] = Placed(m)]
          /\ global' = Joined(m)
          /\ global_modified' = (global_modified \/ ~rebuild_flag)
     ELSE UNCHANGED <<grammars, global, global_modified>>
  /\ at' = at + 1
  /\ UNCHANGED <<gram_maxid, procVars, pc, rebuild_flag, history>>

\* multigram_exec_activate.
Activated(m) ==
  [m EXCEPT !.active = IF "activate" \in m.hook THEN TRUE
                       ELSE IF "deactivate" \in m.hook THEN FALSE ELSE @,
            !.hook = @ \ {"activate", "deactivate"}]

\* multigram_update after the loop.  Only a rebuild deletes what did not fit.
UpdateEnd ==
  /\ pc = "append" /\ at > Len(grammars)
  /\ LET list == IF rebuild_flag THEN Kept(grammars) ELSE grammars
     IN  grammars' = [i \in DOMAIN list |-> Activated(list[i])]
  /\ global_modified' = (global_modified \/ rebuild_flag)
  /\ at' = 1 /\ pc' = "build"
  /\ UNCHANGED <<gram_maxid, global, procVars, rebuild_flag, history>>

\* A live process rebuilds its tree when the lexicon has changed.
Rebuilds(r) == live[r] /\ global_modified /\ global # NoGlobal

\* multigram_build for the live processes; without a lexicon they go to sleep.
Build ==
  /\ pc = "build"
  /\ wchmm' = [r \in Procs |-> IF Rebuilds(r) THEN global ELSE wchmm[r]]
  /\ global_modified' = FALSE
  /\ active' = [r \in Procs |-> IF live[r] /\ global = NoGlobal THEN -1 ELSE active[r]]
  /\ pc' = IF global = NoGlobal /\ \E r \in Procs : live[r] THEN "start" ELSE "decode"
  /\ UNCHANGED <<grammars, gram_maxid, global, live, process_active, rebuild_flag, at, history>>

RoundEnd ==
  /\ pc = "decode"
  /\ pc' = "start"
  /\ UNCHANGED <<lmVars, procVars, rebuild_flag, at, history>>

-----------------------------------------------------------------------------
Requests ==
  \/ \E k \in Kinds : Add(k)
  \/ \E ids \in SUBSET Registered : Delete(ids)
  \/ \E id \in Ids, on \in BOOLEAN : Switch(id, on)
  \/ \E id \in Ids, cat \in AddedCats : AddWord(id, cat)
  \/ \E r \in Procs, on \in BOOLEAN : Book(r, on)
  \/ \E on \in BOOLEAN : Ask(on)

Engine ==
  \/ Start \/ Rest \/ WakeUp \/ UpdateBegin \/ JoinNext \/ UpdateEnd \/ Build \/ RoundEnd

Next == Requests \/ Engine

Spec == Init /\ [][Next]_vars

\* The recognition loop keeps running.
FairSpec == Spec /\ WF_vars(Engine)

-----------------------------------------------------------------------------
(* Properties.                                                             *)

\* Where results are attributed to grammars: while a round decodes, and in
\* the callbacks around it.
Settled == pc \in {"start", "poll", "decode", "paused"} /\ global # NoGlobal

\* The grammar a sentence is reported for (s->gram_id, found from the category
\* of its first word) is the one its words come from, however grammars were
\* added, deleted and extended; words of a grammar already gone are nobody's.
OwnCategory ==
  Settled =>
    \A w \in DOMAIN global.words :
      GramOfCategory(global.words[w].cat) =
        IF global.words[w].gram \in Registered THEN global.words[w].gram ELSE -1

\* The words of the grammar id in lexicon g.
WordsOf(g, id) == {w \in DOMAIN g.words : g.words[w].gram = id}

\* What is decoded is what is registered: a live process searches a tree built
\* from the present lexicon, which has the words of no deleted grammar and
\* every word of each grammar that is not marked for deletion, once and in its
\* place (multi-gram.c:651-743, recogmain.c:819-832).
DecodesTheList ==
  pc = "decode" /\ (\E r \in Procs : live[r]) =>
    /\ \A r \in Procs : live[r] => wchmm[r] = global
    /\ \A w \in DOMAIN global.words : global.words[w].gram \in Registered
    /\ \A i \in DOMAIN grammars :
         LET m == grammars[i] IN
         ~m.newbie /\ m.hook \cap {"delete", "modified"} = {} =>
           WordsOf(global, m.id) = m.word_begin + 1 .. m.word_begin + Len(m.words)

\* Activation and deactivation only leave marks, which supersede each other:
\* the state a grammar has or is about to have is the one asked for last.
LastRequestWins ==
  \A i \in DOMAIN grammars :
    LET m == grammars[i] IN Activated(m).active = want[m.id]

\* A grammar marked for deletion goes, unless the engine is asked to pause or
\* has nothing live.
DeletionHappens ==
  \A id \in Ids :
    (id \in Registered /\ "delete" \in Grammar(id).hook) ~>
      (id \notin Registered \/ ~process_active)

-----------------------------------------------------------------------------
(* What a comment or a message says and the code does not guarantee.       *)

\* dfa.h:93 on sp_id: "Word ID of short pause word".  The word the 2nd pass
\* inserts as a pause is one.
PauseWordIsPause ==
  Settled /\ global.sp # Invalid =>
    LET id == global.words[global.sp + 1].gram
    IN  id \in Registered => global.sp - Grammar(id).word_begin = Grammar(id).kind.sp

\* multi-gram.c:1193: "failed to map dict <-> DFA. This grammar will be
\* deleted".  No failed grammar is in the lexicon that is decoded.
FailedIsDeleted ==
  pc = "build" => failed \cap Registered = {}

\* multi-gram.c:984-985: the grammar a word id belongs to.
OwnWord ==
  Settled =>
    \A w \in DOMAIN global.words :
      GramOfWord(w - 1) = IF global.words[w].gram \in Registered
                          THEN global.words[w].gram ELSE -1

\* dfa_decode.c:100-128: the tables of an active grammar are there to be read.
ActiveHasTables ==
  pc = "decode" /\ (\E r \in Procs : live[r]) =>
    \A c \in DOMAIN global.cats :
      global.cats[c].gram \in Registered /\ Grammar(global.cats[c].gram).active =>
        global.cats[c].table
=============================================================================
