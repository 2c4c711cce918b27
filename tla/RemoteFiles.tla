----------------------------- MODULE RemoteFiles -----------------------------
(***************************************************************************)
(* What the phone's file service promises to its user: files that calls    *)
(* read and change, one call at a time.  A call that fails promises        *)
(* nothing, one that succeeds tells the truth, as long as the answers are  *)
(* in step with the requests ("sound").  Nothing tells the user when they  *)
(* no longer are.                                                          *)
(***************************************************************************)
CONSTANTS
    Paths,
    Values,     \* what can be written into a file
    NoFile, Folder, Torn    \* the other things that a path can stand for

VARIABLES
    store,      \* path |-> what is there
    call,       \* the call under way
    sure,       \* it began when answers were in step
    sound,      \* answers are in step
    returned    \* what the last call returned, until the next begins

vars == <<store, call, sure, sound, returned>>

NoCall == [op |-> "none"]
Failed == [ok |-> FALSE]
Done == [ok |-> TRUE]

Calls ==
    [op : {"write"}, path : Paths, value : Values]
    \cup [op : {"rename"}, path : Paths, to : Paths]
    \cup [op : {"read", "make", "delete", "kind"}, path : Paths]
    \cup {[op |-> "list"]}

Results ==
    {Failed, Done}
    \cup [ok : {TRUE}, content : Values \cup {Torn}]
    \cup [ok : {TRUE}, folder : BOOLEAN]
    \cup [ok : {TRUE}, names : SUBSET Paths]

Init ==
    /\ store = [p \in Paths |-> NoFile]
    /\ call = NoCall
    /\ sure = TRUE
    /\ sound = TRUE
    /\ returned = Failed

Begin ==
    /\ call = NoCall
    /\ call' \in Calls
    /\ sure' = sound
    /\ returned' = Failed
    /\ UNCHANGED <<store, sound>>

\* what a call may do to the files, in one of its steps
Effects(c) ==
    CASE c.op = "write" -> {[store EXCEPT ![c.path] = x] : x \in {Torn, c.value}}
      [] c.op = "make" -> {[store EXCEPT ![c.path] = Folder]}
      [] c.op = "delete" -> {[store EXCEPT ![c.path] = NoFile]}
      [] c.op = "rename" ->
           IF store[c.path] = NoFile THEN {}
           ELSE {[store EXCEPT ![c.path] = NoFile, ![c.to] = store[c.path]]}
      [] OTHER -> {}

Work ==
    /\ store' \in Effects(call)
    /\ UNCHANGED <<call, sure, sound, returned>>

\* out of step, the phone may still be at the requests of earlier calls
WorkLate ==
    /\ ~sound
    /\ store' \in [Paths -> Values \cup {NoFile, Folder, Torn}]
    /\ UNCHANGED <<call, sure, sound, returned>>

\* r is true of the files
Truthful(c, r) ==
    CASE c.op = "write" -> store[c.path] = c.value
      [] c.op = "make" -> store[c.path] = Folder
      [] c.op = "delete" -> store[c.path] = NoFile
      [] c.op = "rename" -> store[c.path] = NoFile /\ store[c.to] # NoFile
      [] c.op = "read" -> store[c.path] = r.content
      [] c.op = "kind" ->
           store[c.path] # NoFile /\ (r.folder <=> store[c.path] = Folder)
      [] c.op = "list" -> r.names = {p \in Paths : store[p] # NoFile}

\* results have the form that the call's caller expects
Form(c, r) ==
    CASE c.op = "read" -> "content" \in DOMAIN r
      [] c.op = "kind" -> "folder" \in DOMAIN r
      [] c.op = "list" -> "names" \in DOMAIN r
      [] OTHER -> r = Done

Return ==
    /\ call # NoCall
    /\ \E r \in Results :
          /\ r.ok => Form(call, r)
          /\ r.ok /\ sure => Truthful(call, r)
          /\ returned' = r
    /\ call' = NoCall
    /\ sound' \in {sound, FALSE}
    /\ UNCHANGED <<store, sure>>

\* a failed exchange may put the session out of step; a new session is in step
LoseStep == sound' = FALSE /\ UNCHANGED <<store, call, sure, returned>>
NewSession ==
    /\ call = NoCall
    /\ sound' = TRUE
    /\ UNCHANGED <<store, call, sure, returned>>

\* nobody looks at the last result any more
Forget ==
    /\ call = NoCall
    /\ returned' = Failed
    /\ UNCHANGED <<store, call, sure, sound>>

Next == Begin \/ Work \/ WorkLate \/ Return \/ LoseStep \/ NewSession \/ Forget

Spec == Init /\ [][Next]_vars

\* every call returns
FairSpec == Spec /\ WF_vars(Return)
=============================================================================
