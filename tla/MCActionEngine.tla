--------------------------- MODULE MCActionEngine ---------------------------
(***************************************************************************)
(* Small instances of ActionEngine for TLC.                                *)
(***************************************************************************)
EXTENDS ActionEngine, TLC

\* One action of each blockingType, the missing one included, of each timed
\* type, retriable and not, and one type that nothing ends.
MixedAction == {"beepNone", "pickSoft", "dropSingle", "pickHard", "scanNone",
                "beepOdd"}
MixedType ==
    "beepNone" :> "beep" @@ "pickSoft" :> "pick" @@ "dropSingle" :> "drop" @@
    "pickHard" :> "pick" @@ "scanNone" :> "scan" @@ "beepOdd" :> "beep"
MixedBlocking ==
    "beepNone" :> "NONE" @@ "pickSoft" :> "SOFT" @@ "dropSingle" :> "SINGLE" @@
    "pickHard" :> "HARD" @@ "scanNone" :> "NONE" @@ "beepOdd" :> ""
MixedRetriable == [a \in MixedAction |-> a = "pickHard"]
MixedNodes ==
    {<<a>> : a \in MixedAction} \union
    {<<"beepNone", "pickHard">>, <<"pickSoft", "dropSingle">>}

=============================================================================
