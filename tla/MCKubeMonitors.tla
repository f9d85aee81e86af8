--------------------------- MODULE MCKubeMonitors ---------------------------
(* Two bindings: fix watches one namespace and includes the snapshot of    *)
(* sel, which watches the namespaces that match a selector.                *)
EXTENDS KubeMonitors, TLC

CONSTANTS sel, fix

MCBindingSeq == <<fix, sel>>
MCSelecting == {sel}
MCIncludes == sel :> <<>> @@ fix :> <<sel>>
=============================================================================
