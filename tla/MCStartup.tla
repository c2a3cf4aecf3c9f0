------------------------------ MODULE MCStartup ------------------------------
(* Values TLC's configuration gives to the constants of Startup.           *)
EXTENDS Startup

\* Two launchers and a server of run.py.
CONSTANTS d1, d2, w
MCDesktops == {d1, d2}
MCPrograms == {d1, d2, w}

=============================================================================
