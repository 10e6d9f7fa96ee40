-------------------------- MODULE MCMonitorCpuLoad --------------------------
EXTENDS MonitorCpuLoad

CONSTANTS bash, tmux, server

\* Two processes: bash, and the tmux server, whose comm "tmux: server"
\* holds a blank.  ps prints pcpu with one decimal; shares are in tenths
\* of a percent, the threshold the default CPU_THRESHOLD "50".
MCComm == (11 :> <<bash>>) @@ (12 :> <<tmux, server>>)
MCCpuValues == {0, 600}
MCThreshold == 500

=============================================================================
