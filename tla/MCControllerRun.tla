---- MODULE MCControllerRun ----
EXTENDS ControllerRun
====
