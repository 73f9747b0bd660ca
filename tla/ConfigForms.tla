------------------------------ MODULE ConfigForms ------------------------------
(***************************************************************************)
(* The forms of the configuration: a new project, an existing one, and the *)
(* settings.  A form is filled from the row once, when it opens, and saves *)
(* every field it has, touched or not; other pages may save in between.    *)
(*                                                                         *)
(* A nullable field of the row is NULL or text, one of the form always     *)
(* text, so loading and saving convert.  One stands for all of them.       *)
(***************************************************************************)
EXTENDS Integers

CONSTANTS
  None,        \* NULL, no row
  Texts,       \* what a user may type that is not blank
  MaxAttempts, \* the settings' largest auto_resume_max_attempts
  MaxTyped,    \* bound on changes of a field
  MaxSaves     \* bound on saves by other pages

ConfigFormsAssumption ==
  /\ None \notin {"", " "} /\ {None, "", " "} \cap Texts = {}
  /\ MaxAttempts \in Nat \ {0} /\ MaxTyped \in Nat /\ MaxSaves \in Nat

VARIABLES
  row,       \* the project: a nullable field, its merge strategy; or None
  settings,  \* auto_resume_max_attempts
  form,      \* new, edit or settings: its step, its fields
  error,     \* the form shows an error
  typed, saves

vars == <<row, settings, form, error, typed, saves>>

Strategies == {"squash", "merge"}
Field == {None, ""} \cup Texts
Draft == {"", " "} \cup Texts

NoForm == [kind |-> "none", pc |-> "closed", text |-> "", strategy |-> "squash",
           attempts |-> 1]

Init ==
  /\ row = None /\ settings \in 1..MaxAttempts
  /\ form = NoForm /\ error = FALSE /\ typed = 0 /\ saves = 0

-----------------------------------------------------------------------------
ToDraft(v) == IF v = None THEN "" ELSE v

\* Mutant: the text is saved as it is.
AsTyped(d) == d

\* trim() || null
FromDraft(d) == IF d \in {"", " "} THEN None ELSE d

OpenNew ==
  /\ form.pc = "closed" /\ row = None
  /\ form' = [NoForm EXCEPT !.kind = "new", !.pc = "open"]
  /\ error' = FALSE /\ UNCHANGED <<row, settings, typed, saves>>

OpenEdit ==
  /\ form.pc = "closed" /\ row # None
  /\ form' = [NoForm EXCEPT !.kind = "edit", !.pc = "loading"]
  /\ error' = FALSE /\ UNCHANGED <<row, settings, typed, saves>>

OpenSettings ==
  /\ form.pc = "closed"
  /\ form' = [NoForm EXCEPT !.kind = "settings", !.pc = "loading"]
  /\ error' = FALSE /\ UNCHANGED <<row, settings, typed, saves>>

\* The answer fills the form.  One that fails leaves it loading for good.
Filled ==
  /\ form.pc = "loading"
  /\ form' = IF form.kind = "edit"
       THEN [form EXCEPT !.pc = "open", !.text = ToDraft(row.text), !.strategy = row.strategy]
       ELSE [form EXCEPT !.pc = "open", !.attempts = settings]
  /\ UNCHANGED <<row, settings, error, typed, saves>>

\* The number's input allows 0.
Type ==
  /\ form.pc = "open" /\ typed < MaxTyped /\ typed' = typed + 1
  /\ \/ /\ form.kind # "settings"
        /\ \/ \E d \in Draft : form' = [form EXCEPT !.text = d]
           \/ \E s \in Strategies : form' = [form EXCEPT !.strategy = s]
     \/ /\ form.kind = "settings"
        /\ \E n \in 0..MaxAttempts : form' = [form EXCEPT !.attempts = n]
  /\ UNCHANGED <<row, settings, error, saves>>

\* The button is disabled while a save is under way.
Submit ==
  /\ form.pc = "open"
  /\ form' = [form EXCEPT !.pc = "saving"] /\ error' = FALSE
  /\ UNCHANGED <<row, settings, typed, saves>>

\* POST /api/projects takes no merge strategy: the row has the default.
Created ==
  /\ form.pc = "saving" /\ form.kind = "new"
  /\ row' = [text |-> FromDraft(form.text), strategy |-> "squash"]
  /\ form' = NoForm
  /\ UNCHANGED <<settings, error, typed, saves>>

\* PATCH /api/projects/:id with every field of the form; then the page leaves.
Patched ==
  /\ form.pc = "saving" /\ form.kind = "edit"
  /\ row' = [text |-> FromDraft(form.text), strategy |-> form.strategy]
  /\ form' = NoForm
  /\ UNCHANGED <<settings, error, typed, saves>>

\* Mutant: the number is not looked at.
AnyAttempts(n) == TRUE

ValidAttempts(n) == n >= 1

\* PATCH /api/settings: a number out of range refuses the whole form, which stays
\* open, as it does when it is saved.
SettingsSaved ==
  /\ form.pc = "saving" /\ form.kind = "settings"
  /\ LET ok == ValidAttempts(form.attempts) IN
     /\ settings' = IF ok THEN form.attempts ELSE settings
     /\ error' = ~ok
     /\ form' = [form EXCEPT !.pc = "open"]
  /\ UNCHANGED <<row, typed, saves>>

\* The request fails: its fields are still there.
SaveFails ==
  /\ form.pc = "saving"
  /\ form' = [form EXCEPT !.pc = "open"] /\ error' = TRUE
  /\ UNCHANGED <<row, settings, typed, saves>>

Close ==
  /\ form.pc \in {"loading", "open"}
  /\ form' = NoForm /\ error' = FALSE
  /\ UNCHANGED <<row, settings, typed, saves>>

\* Another page saves one of the rows.
SavedElsewhere ==
  /\ saves < MaxSaves /\ saves' = saves + 1
  /\ \/ /\ row # None
        /\ row' \in [text : {FromDraft(d) : d \in Draft}, strategy : Strategies]
        /\ UNCHANGED settings
     \/ settings' \in 1..MaxAttempts /\ UNCHANGED row
  /\ UNCHANGED <<form, error, typed>>

Next ==
  \/ OpenNew \/ OpenEdit \/ OpenSettings \/ Filled \/ Type \/ Submit
  \/ Created \/ Patched \/ SettingsSaved \/ SaveFails \/ Close \/ SavedElsewhere

Spec == Init /\ [][Next]_vars

-----------------------------------------------------------------------------
TypeOK ==
  /\ row \in [text : Field, strategy : Strategies] \cup {None}
  /\ settings \in 0..MaxAttempts
  /\ form \in [kind : {"none", "new", "edit", "settings"},
               pc : {"closed", "loading", "open", "saving"}, text : Draft \cup Field,
               strategy : Strategies, attempts : 0..MaxAttempts]
  /\ error \in BOOLEAN /\ typed \in 0..MaxTyped /\ saves \in 0..MaxSaves

\* Blank text in a row would not be NULL, and its default not apply (?? in
\* createContainerForRun); a run without attempts could never resume.  No sequence
\* of loading, typing and saving gets either into the rows.
RowsStaySane == (row # None => row.text # "") /\ settings >= 1

===============================================================================
