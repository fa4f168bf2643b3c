SPECIFICATION Spec
INVARIANT ServersShutDownOnExit
PROPERTY StopsWhenAsked
