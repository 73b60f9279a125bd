------------------------- MODULE MCReplyDispatcher -------------------------
EXTENDS ReplyDispatcher
=============================================================================
