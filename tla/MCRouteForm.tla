----------------------------- MODULE MCRouteForm -----------------------------
(* Three hosts: one under a force-https suffix, one plain, the ingress IP. *)
EXTENDS RouteForm

CONSTANTS devHost, plainHost, ingressIP

MCHosts == {devHost, plainHost, ingressIP}
MCForceHttps == {devHost}
=============================================================================
