------------------------------ MODULE MCTarget ------------------------------
(***************************************************************************)
(* Two MirrorTargets of a cluster with Routes and without the Gateway API. *)
(***************************************************************************)
EXTENDS TargetController
Plain == [expose |-> "", host |-> FALSE, gateway |-> TRUE, auth |-> FALSE, ca |-> FALSE,
          proxy |-> {}]
MCConfigs == {Plain, [Plain EXCEPT !.expose = "Ingress", !.host = TRUE, !.auth = TRUE, !.ca = TRUE],
              [Plain EXCEPT !.expose = "GatewayAPI", !.proxy = {"httpsProxy"}]}
=============================================================================
