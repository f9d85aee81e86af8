------------------------ MODULE MCResourceInformer ------------------------
(* Instances of ResourceInformer for TLC.                                   *)
EXTENDS ResourceInformer

AllTypes == {"Added", "Modified", "Deleted"}
=============================================================================
