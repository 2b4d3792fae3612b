--------------------------- MODULE PluginPromise ---------------------------
(***************************************************************************)
(* What the installer, the permission center and the runner of plugins     *)
(* promise together: code runs only under the manifest that an install     *)
(* accepted with it, and with no capability but those that manifest asks   *)
(* for and an administrator has granted.  There is no store here: nothing  *)
(* is half written, and an accepted build can be run whenever a client     *)
(* asks.                                                                   *)
(***************************************************************************)
CONSTANTS Releases, Builds, Caps, CodeOf, CapsOf, Requests, None

VARIABLES
    accepted,  \* <<release, build>>: what installs were admitted with
    granted,   \* the capabilities the plugin has
    ran        \* what each request has run

promised == <<accepted, granted, ran>>

Nothing == [rel |-> None, build |-> None, code |-> None, caps |-> {}]

Promise ==
    /\ accepted = {}
    /\ granted = {}
    /\ ran = [r \in Requests |-> Nothing]

Accept(rel, b) ==
    /\ accepted' = accepted \cup {<<rel, b>>}
    /\ UNCHANGED <<granted, ran>>

Give(c) ==
    /\ granted' = granted \cup {c}
    /\ UNCHANGED <<accepted, ran>>

Take(c) ==
    /\ granted' = granted \ {c}
    /\ UNCHANGED <<accepted, ran>>

Execute(r, rel, b) ==
    /\ ran[r] = Nothing
    /\ <<rel, b>> \in accepted
    /\ ran' = [ran EXCEPT ![r] = [rel |-> rel, build |-> b, code |-> CodeOf[b],
                                  caps |-> granted \cap CapsOf[b]]]
    /\ UNCHANGED <<accepted, granted>>

Keeping ==
    \/ \E rel \in Releases, b \in Builds : Accept(rel, b)
    \/ \E c \in Caps : Give(c) \/ Take(c)
    \/ \E r \in Requests, rel \in Releases, b \in Builds : Execute(r, rel, b)

Kept == Promise /\ [][Keeping]_promised
=============================================================================
