SPECIFICATION FairSpec
CONSTANTS BUF=2 HWFIFO=1 TIMEOUT=2 INACTIVE=2 TPS=2 NTICKS=4 START=1 REREAD=FALSE
  MaxCall=2 MaxChars=3
PROPERTY CallsEnd
