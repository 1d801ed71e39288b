---- MODULE MCSwjCommands ----
EXTENDS SwjCommands
====
