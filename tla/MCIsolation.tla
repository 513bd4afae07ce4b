---------------------------- MODULE MCIsolation ----------------------------
(* A small instance of Isolation for TLC: components that are private, readable,
   executable, writable without and with the search bit, or writable and sticky. *)
EXTENDS Isolation

MCModes == {{}, {"or"}, {"ox"}, {"gw"}, {"gw", "gx"}, {"ow", "ox", "sticky"}}
=============================================================================
