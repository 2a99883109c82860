---------------------------- MODULE MCAssistant ----------------------------
(* Two chats and two requests.                                               *)
EXTENDS Assistant
=============================================================================
