-------------------------- MODULE MCWsmanOperations --------------------------
(***************************************************************************)
(* Instances of WsmanPaging and WsmanOperations.  The widest reads keep    *)
(* the branches that decide their verdict and one or two of the others;    *)
(* the paged reads have pages of two records and lists of up to five:      *)
(* empty, short, exactly full, and full with a remainder.                  *)
(***************************************************************************)
EXTENDS WsmanPaging

KeptBranches ==
    {"eth", "ipv6", "redir", "kvm", "schemes", "assoc", "caps", "watchdogs", "actions",
     "filters", "listeners", "subscriptions", "policies", "hdr", "stats",
     "Chassis", "Card", "Battery", "Cert", "Tls", "Ctx", "EnvDetect", "UserInit", "Mps",
     "Port", "EndpointSettings", "Sol", "Kvm", "Ider"}

Everything == DOMAIN Catalogue
=============================================================================
