---- MODULE MCTokenManager ----
EXTENDS TokenManager
====
