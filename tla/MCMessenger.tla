---------------------------- MODULE MCMessenger ----------------------------
EXTENDS Messenger

CONSTANT c1
=============================================================================
