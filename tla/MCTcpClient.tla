---------------------------- MODULE MCTcpClient ----------------------------
EXTENDS TcpClient

InitRetryDelay == 1
MaxRetryDelay == 2
=============================================================================
