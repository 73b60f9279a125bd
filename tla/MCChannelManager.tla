-------------------------- MODULE MCChannelManager --------------------------
EXTENDS ChannelManager
=============================================================================
